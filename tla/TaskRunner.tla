----------------------------- MODULE TaskRunner -----------------------------
(***************************************************************************)
(* ra::common::tasks::TaskRunner: a vector of shared Managed entries, a     *)
(* poll thread, detached worker threads and the threads that call in.       *)
(* One action is one step between two accesses to shared state that other   *)
(* threads can tell apart. Every critical section of mutex_ that does not   *)
(* wait inside is one step; the poll thread, which waits on a condition     *)
(* variable of mutex_, is the only one that keeps it from step to step.     *)
(***************************************************************************)
EXTENDS Integers, FiniteSets

CONSTANTS
    Entries,      \* the Managed entries AddTask may create, each at most once
    Periodic,     \* those whose Config() has a period
    Pausable,     \* those whose Config() may turn to periodicity_ms -1 and back
    SelfStopping, \* those whose ShouldStop() may return true
    Reentrant,    \* those whose Execute() may call AddTask and Poke
    Owner,        \* the thread that calls Start, Shutdown and the destructor
    Poller,       \* poll_thread_
    Clients,      \* other threads, which call AddTask and Poke at any time
    Workers,      \* names for the detached threads, each used once
    None,         \* no thread, no entry
    MaxStarts     \* bound: effective calls of Start

Threads == {Owner, Poller} \cup Clients \cup Workers

ASSUME SetsAssumption ==
    /\ Periodic \subseteq Entries /\ Pausable \subseteq Entries
    /\ SelfStopping \subseteq Entries /\ Reentrant \subseteq Entries
    /\ None \notin Entries /\ None \notin Threads
    /\ IsFiniteSet(Workers) /\ MaxStarts \in Nat
ASSUME ThreadsAssumption ==
    /\ Owner # Poller
    /\ Owner \notin Clients \cup Workers /\ Poller \notin Clients \cup Workers
    /\ Clients \cap Workers = {}

VARIABLES
    running,      \* running_
    managed,      \* managed_, as a set: its order only orders the spawning
    added,        \* the entries AddTask has created so far
    status, stop, scheduled,   \* the atomics of each Managed
    period,       \* what ITask::Config().periodicity_ms now returns, per entry
    active,       \* active_workers_
    mutex,        \* the thread that holds mutex_ between two steps
    workersMutex, \* the thread that holds workers_mutex_ between two steps
    toSchedule,   \* to_schedule of the Pass() each thread is in
    job, cfg,     \* the m and cfg.periodicity_ms a worker's lambda captured
    pc,           \* where each thread is
    starts        \* calls of Start that took effect

gate == <<running, starts>>
entryVars == <<managed, added, status, stop, scheduled, period>>
locks == <<mutex, workersMutex>>
passVars == <<toSchedule, job, cfg, active>>
vars == <<gate, entryVars, locks, passVars, pc>>

ShutdownPCs == {"mark", "notify", "join", "check", "block", "blocked", "clear"}
PCs == {"idle", "added", "scan", "spawn", "launch", "destroyed", "loop",
        "prewait", "waiting", "woken", "done", "head", "exec", "exit",
        "signal", "gone"} \cup ShutdownPCs

\* TaskConfig::Once and TaskConfig::Periodic: the period a task is built with.
BasePeriod(e) == IF e \in Periodic THEN 1 ELSE 0

Init ==
    /\ running = FALSE /\ managed = {} /\ added = {} /\ active = 0
    /\ status = [e \in Entries |-> "Ready"]
    /\ stop = [e \in Entries |-> FALSE]
    /\ scheduled = [e \in Entries |-> FALSE]
    /\ period = [e \in Entries |-> BasePeriod(e)]
    /\ mutex = None /\ workersMutex = None
    /\ toSchedule = [t \in Threads |-> {}]
    /\ job = [w \in Workers |-> None]
    /\ cfg = [w \in Workers |-> 0]
    /\ pc = [t \in Threads |-> "idle"]
    /\ starts = 0

Goto(t, label) == pc' = [pc EXCEPT ![t] = label]

\* Where a thread goes on when AddTask, Poke or Pass returns to it.
Return(t) == CASE t = Poller -> "loop" [] t \in Workers -> "exec" [] OTHER -> "idle"

\* The threads that may call into the runner now. Calling a destroyed runner
\* is the caller's error.
CanCall(t) ==
    /\ pc[Owner] # "destroyed"
    /\ IF t \in Workers THEN pc[t] = "exec" /\ job[t] \in Reentrant
                        ELSE t # Poller /\ pc[t] = "idle"

-----------------------------------------------------------------------------
(* AddTask, Poke and Pass, on any thread *)

AddTask(t, e) ==
    /\ CanCall(t) /\ mutex = None /\ e \notin added
    /\ added' = added \cup {e} /\ managed' = managed \cup {e}
    /\ status' = [status EXCEPT ![e] = "Ready"]
    /\ stop' = [stop EXCEPT ![e] = FALSE]
    /\ scheduled' = [scheduled EXCEPT ![e] = FALSE]
    /\ Goto(t, "added")
    /\ UNCHANGED <<gate, period, locks, passVars>>

\* The `if (running_) Pass();` that ends AddTask, outside the lock.
AfterAdd(t) ==
    /\ pc[t] = "added"
    /\ Goto(t, IF running THEN "scan" ELSE Return(t))
    /\ UNCHANGED <<gate, entryVars, locks, passVars>>

Poke(t) ==
    /\ CanCall(t) /\ running
    /\ Goto(t, "scan")
    /\ UNCHANGED <<gate, entryVars, locks, passVars>>

\* What the scan keeps in managed_, and what it claims for this Pass().
Kept == {e \in managed : status[e] # "Completed"}
\* Mutant: trusts the status and forgets the scheduled flag.
BugClaimedByStatus == {e \in Kept : status[e] = "Ready" /\ period[e] # -1}
Claimed == {e \in Kept : ~scheduled[e] /\ period[e] # -1}

\* Mutant: a paused entry keeps the scheduled flag the scan set.
BugPassScanKeepsFlag(t) ==
    /\ pc[t] = "scan" /\ mutex = None
    /\ managed' = Kept
    /\ scheduled' = [e \in Entries |-> scheduled[e] \/ e \in Kept]
    /\ toSchedule' = [toSchedule EXCEPT ![t] = Claimed]
    /\ Goto(t, IF Claimed = {} THEN Return(t) ELSE "spawn")
    /\ UNCHANGED <<gate, added, status, stop, period, locks, job, cfg, active>>

\* Pass(), under mutex_. A worker that completes while the scan reads the
\* statuses is seen before or after it; the scan holds no other moment of it.
PassScan(t) ==
    /\ pc[t] = "scan" /\ mutex = None
    /\ managed' = Kept
    /\ scheduled' = [e \in Entries |-> scheduled[e] \/ e \in Claimed]
    /\ toSchedule' = [toSchedule EXCEPT ![t] = Claimed]
    /\ Goto(t, IF Claimed = {} THEN Return(t) ELSE "spawn")
    /\ UNCHANGED <<gate, added, status, stop, period, locks, job, cfg, active>>

FreshWorkers == {w \in Workers : pc[w] = "idle"}
NewThread == CHOOSE w \in FreshWorkers : TRUE

\* Mutant: active_workers_ is raised once per Pass(), after its loop.
BugPassSpawnCountsOnce(t) ==
    /\ pc[t] = "spawn" /\ FreshWorkers # {}
    /\ \E e \in toSchedule[t] :
        LET w == NewThread
            rest == toSchedule[t] \ {e}
        IN /\ job' = [job EXCEPT ![w] = e]
           /\ cfg' = [cfg EXCEPT ![w] = period[e]]
           /\ toSchedule' = [toSchedule EXCEPT ![t] = rest]
           /\ pc' = [pc EXCEPT ![w] = "head", ![t] = IF rest = {} THEN Return(t) ELSE "spawn"]
           /\ active' = IF rest = {} THEN active + 1 ELSE active
    /\ UNCHANGED <<gate, entryVars, locks>>

\* Pass(), after the lock: the configuration is read a second time, the counter
\* raised and the worker started. Nothing can tell the last two apart.
PassSpawn(t) ==
    /\ pc[t] = "spawn" /\ FreshWorkers # {}
    /\ \E e \in toSchedule[t] :
        LET w == NewThread
            rest == toSchedule[t] \ {e}
        IN /\ job' = [job EXCEPT ![w] = e]
           /\ cfg' = [cfg EXCEPT ![w] = period[e]]
           /\ toSchedule' = [toSchedule EXCEPT ![t] = rest]
           /\ pc' = [pc EXCEPT ![w] = "head", ![t] = IF rest = {} THEN Return(t) ELSE "spawn"]
    /\ active' = active + 1
    /\ UNCHANGED <<gate, entryVars, locks>>

-----------------------------------------------------------------------------
(* Start and Shutdown, on the owner's thread *)

StartExchange ==
    /\ pc[Owner] = "idle" /\ ~running /\ starts < MaxStarts
    /\ running' = TRUE /\ starts' = starts + 1
    /\ Goto(Owner, "launch")
    /\ UNCHANGED <<entryVars, locks, passVars>>

StartPoller ==
    /\ pc[Owner] = "launch"
    /\ pc' = [pc EXCEPT ![Poller] = "loop", ![Owner] = "scan"]
    /\ UNCHANGED <<gate, entryVars, locks, passVars>>

ShutdownExchange ==
    /\ pc[Owner] = "idle"
    /\ running' = FALSE
    /\ Goto(Owner, IF running THEN "mark" ELSE "join")
    /\ UNCHANGED <<starts, entryVars, locks, passVars>>

\* Mutant: the entries are marked without taking mutex_.
BugMarkUnlocked ==
    /\ pc[Owner] = "mark"
    /\ stop' = [e \in Entries |-> stop[e] \/ e \in managed]
    /\ Goto(Owner, "notify")
    /\ UNCHANGED <<gate, managed, added, status, scheduled, period, locks, passVars>>

\* Mutant: only the tasks that execute at the moment are told to stop.
BugMarkRunningOnly ==
    /\ pc[Owner] = "mark" /\ mutex = None
    /\ stop' = [e \in Entries |-> stop[e] \/ (e \in managed /\ status[e] = "Running")]
    /\ Goto(Owner, "notify")
    /\ UNCHANGED <<gate, managed, added, status, scheduled, period, locks, passVars>>

ShutdownMark ==
    /\ pc[Owner] = "mark" /\ mutex = None
    /\ stop' = [e \in Entries |-> stop[e] \/ e \in managed]
    /\ Goto(Owner, "notify")
    /\ UNCHANGED <<gate, managed, added, status, scheduled, period, locks, passVars>>

ShutdownNotify ==
    /\ pc[Owner] = "notify"
    /\ pc' = [pc EXCEPT ![Owner] = "join",
                        ![Poller] = IF @ = "waiting" THEN "woken" ELSE @]
    /\ UNCHANGED <<gate, entryVars, locks, passVars>>

\* poll_thread_ is joinable exactly when the poller is not "idle".
ShutdownJoin ==
    /\ pc[Owner] = "join" /\ pc[Poller] \in {"idle", "done"}
    /\ pc' = [pc EXCEPT ![Owner] = "check", ![Poller] = "idle"]
    /\ UNCHANGED <<gate, entryVars, locks, passVars>>

\* Mutant: does not wait for the last worker.
BugCheckOffByOne ==
    /\ pc[Owner] = "check" /\ workersMutex = None
    /\ workersMutex' = Owner
    /\ Goto(Owner, IF active <= 1 THEN "clear" ELSE "block")
    /\ UNCHANGED <<gate, entryVars, mutex, passVars>>

\* The predicate of workers_done_cv_.wait, read under workers_mutex_.
ShutdownCheck ==
    /\ pc[Owner] = "check" /\ workersMutex = None
    /\ workersMutex' = Owner
    /\ Goto(Owner, IF active = 0 THEN "clear" ELSE "block")
    /\ UNCHANGED <<gate, entryVars, mutex, passVars>>

ShutdownBlock ==
    /\ pc[Owner] = "block"
    /\ workersMutex' = None
    /\ Goto(Owner, "blocked")
    /\ UNCHANGED <<gate, entryVars, mutex, passVars>>

\* Mutant: wait without a predicate, taken at its word when it returns.
BugWakeWithoutPredicate ==
    /\ pc[Owner] = "blocked" /\ workersMutex = None
    /\ workersMutex' = Owner
    /\ Goto(Owner, "clear")
    /\ UNCHANGED <<gate, entryVars, mutex, passVars>>

\* A condition variable may wake without a notification.
SpuriousWake ==
    /\ pc[Owner] = "blocked"
    /\ Goto(Owner, "check")
    /\ UNCHANGED <<gate, entryVars, locks, passVars>>

\* managed_.clear() under both locks, and the return. When the caller was the
\* destructor the runner is gone afterwards.
ShutdownClear ==
    /\ pc[Owner] = "clear" /\ mutex = None
    /\ managed' = {} /\ workersMutex' = None
    /\ \/ Goto(Owner, "idle")
       \/ /\ \A c \in Clients : pc[c] = "idle"
          /\ Goto(Owner, "destroyed")
    /\ UNCHANGED <<gate, added, status, stop, scheduled, period, mutex, passVars>>

-----------------------------------------------------------------------------
(* PollLoop *)

\* The loop condition and the first test of wait_for's predicate, both under
\* mutex_: the last of them decides.
PollCheck ==
    /\ pc[Poller] = "loop" /\ mutex = None
    /\ mutex' = IF running THEN Poller ELSE None
    /\ Goto(Poller, IF running THEN "prewait" ELSE "done")
    /\ UNCHANGED <<gate, entryVars, workersMutex, passVars>>

PollBlock ==
    /\ pc[Poller] = "prewait"
    /\ mutex' = None
    /\ Goto(Poller, "waiting")
    /\ UNCHANGED <<gate, entryVars, workersMutex, passVars>>

\* Mutant: goes back to wait without a Pass().
BugPollWakeNoPass ==
    /\ pc[Poller] \in {"waiting", "woken"} /\ mutex = None
    /\ Goto(Poller, IF running THEN "loop" ELSE "done")
    /\ UNCHANGED <<gate, entryVars, locks, passVars>>

\* wait_for returns, notified or after poll_ms_, with mutex_ taken again.
PollWake ==
    /\ pc[Poller] \in {"waiting", "woken"} /\ mutex = None
    /\ Goto(Poller, IF running THEN "scan" ELSE "done")
    /\ UNCHANGED <<gate, entryVars, locks, passVars>>

-----------------------------------------------------------------------------
(* Worker, and the end of its lambda *)

\* OnStop() changes nothing of the runner's; it runs before "Completed" is set.
WorkerStop(w) ==
    /\ pc[w] = "head" /\ (stop[job[w]] \/ job[w] \in SelfStopping)
    /\ status' = [status EXCEPT ![job[w]] = "Completed"]
    /\ Goto(w, "exit")
    /\ UNCHANGED <<gate, managed, added, stop, scheduled, period, locks, passVars>>

WorkerExecute(w) ==
    /\ pc[w] = "head" /\ ~stop[job[w]]
    /\ status' = [status EXCEPT ![job[w]] = "Running"]
    /\ Goto(w, "exec")
    /\ UNCHANGED <<gate, managed, added, stop, scheduled, period, locks, passVars>>

WorkerExecuted(w) ==
    /\ pc[w] = "exec"
    /\ status' = [status EXCEPT ![job[w]] = IF cfg[w] <= 0 THEN "Completed" ELSE "Ready"]
    /\ Goto(w, IF cfg[w] <= 0 THEN "exit" ELSE "head")
    /\ UNCHANGED <<gate, managed, added, stop, scheduled, period, locks, passVars>>

\* Mutant: takes the old value fetch_sub returns for the new one.
BugExitComparesNew(w) ==
    /\ pc[w] = "exit"
    /\ active' = active - 1
    /\ Goto(w, IF active = 0 THEN "signal" ELSE "gone")
    /\ UNCHANGED <<gate, entryVars, locks, toSchedule, job, cfg>>

\* active_workers_.fetch_sub(1) == 1
WorkerExit(w) ==
    /\ pc[w] = "exit"
    /\ active' = active - 1
    /\ Goto(w, IF active = 1 THEN "signal" ELSE "gone")
    /\ UNCHANGED <<gate, entryVars, locks, toSchedule, job, cfg>>

\* Mutant: notifies without taking workers_mutex_.
BugSignalUnlocked(w) ==
    /\ pc[w] = "signal"
    /\ pc' = [pc EXCEPT ![w] = "gone", ![Owner] = IF @ = "blocked" THEN "check" ELSE @]
    /\ UNCHANGED <<gate, entryVars, locks, passVars>>

WorkerSignal(w) ==
    /\ pc[w] = "signal" /\ workersMutex = None
    /\ pc' = [pc EXCEPT ![w] = "gone", ![Owner] = IF @ = "blocked" THEN "check" ELSE @]
    /\ UNCHANGED <<gate, entryVars, locks, passVars>>

-----------------------------------------------------------------------------
\* A pausable task's Config() returns something else from now on.
Reconfigure(e) ==
    /\ e \in Pausable /\ pc[Owner] # "destroyed"
    /\ period' = [period EXCEPT ![e] = IF @ = -1 THEN BasePeriod(e) ELSE -1]
    /\ UNCHANGED <<gate, managed, added, status, stop, scheduled, locks, passVars, pc>>

\* The runner is destroyed and every worker has ended.
Terminated ==
    /\ pc[Owner] = "destroyed"
    /\ \A w \in Workers : pc[w] \in {"idle", "gone"}
    /\ UNCHANGED vars

\* What a thread does once it has been called, until it is back.
CalleeStep(t) == AfterAdd(t) \/ PassScan(t) \/ PassSpawn(t)

OwnerStep ==
    \/ CalleeStep(Owner) \/ StartPoller
    \/ ShutdownMark \/ ShutdownNotify \/ ShutdownJoin
    \/ ShutdownCheck \/ ShutdownBlock \/ ShutdownClear

PollerStep == CalleeStep(Poller) \/ PollCheck \/ PollBlock \/ PollWake

WorkerStep(w) ==
    \/ CalleeStep(w) \/ WorkerStop(w) \/ WorkerExecute(w)
    \/ WorkerExit(w) \/ WorkerSignal(w)

Next ==
    \/ \E t \in Threads : Poke(t) \/ \E e \in Entries : AddTask(t, e)
    \/ StartExchange \/ ShutdownExchange \/ SpuriousWake
    \/ OwnerStep \/ PollerStep
    \/ \E c \in Clients : CalleeStep(c)
    \/ \E w \in Workers : WorkerStep(w) \/ WorkerExecuted(w)
    \/ \E e \in Entries : Reconfigure(e)
    \/ Terminated

Spec == Init /\ [][Next]_vars

(***************************************************************************)
(* Fairness: a thread in the middle of a call goes on. Strong, because the  *)
(* mutex it waits for is taken again and again by the others: whoever waits *)
(* for a mutex gets it in the end. Execute() returns in the end, however    *)
(* often it calls back. Nobody has to call Start, Shutdown, AddTask or Poke,*)
(* and nothing has to wake without a reason.                               *)
(***************************************************************************)
Fairness ==
    /\ SF_vars(OwnerStep) /\ SF_vars(PollerStep)
    /\ \A c \in Clients : SF_vars(CalleeStep(c))
    /\ \A w \in Workers : SF_vars(WorkerStep(w)) /\ SF_vars(WorkerExecuted(w))

FairSpec == Spec /\ Fairness
=============================================================================
