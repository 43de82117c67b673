--------------------------- MODULE TaskRunnerProps ---------------------------
(***************************************************************************)
(* What TaskRunner guarantees: its invariants, the inductive invariant that *)
(* proves them, its liveness, and the abstract pool it implements.          *)
(***************************************************************************)
EXTENDS TaskRunner

TypeOK ==
    /\ running \in BOOLEAN /\ active \in Nat /\ starts \in Nat
    /\ managed \subseteq added /\ added \subseteq Entries
    /\ status \in [Entries -> {"Ready", "Running", "Completed"}]
    /\ stop \in [Entries -> BOOLEAN] /\ scheduled \in [Entries -> BOOLEAN]
    /\ period \in [Entries -> {-1, 0, 1}]
    /\ mutex \in {Poller, None} /\ workersMutex \in {Owner, None}
    /\ toSchedule \in [Threads -> SUBSET Entries]
    /\ job \in [Workers -> Entries \cup {None}]
    /\ cfg \in [Workers -> {-1, 0, 1}]
    /\ pc \in [Threads -> PCs]

\* A worker that active_workers_ counts: started, and not yet past fetch_sub.
LivePCs == {"head", "exec", "added", "scan", "spawn", "exit"}
Live == {w \in Workers : pc[w] \in LivePCs}

\* The counter Shutdown() waits on is the number of those workers.
ActiveCount == active = Cardinality(Live)

\* No entry is ever given to two workers, whichever threads run Pass() at
\* once: its task never runs concurrently with itself, nor a second time.
OneWorkerPerEntry ==
    \A v, w \in Workers : job[v] # None /\ job[v] = job[w] => v = w

\* Once Shutdown() has notified, the poll thread is not left sleeping out its
\* period (30 s by default) before it can be joined.
NoLostStopSignal ==
    pc[Owner] = "join" => pc[Poller] \notin {"prewait", "waiting"}

\* Shutdown() asleep on workers_done_cv_ with no worker left to count down has
\* a notification still to come.
NoLostDoneSignal ==
    pc[Owner] = "blocked" /\ active = 0 => \E w \in Workers : pc[w] = "signal"

\* When Shutdown() has returned, and until the next Start, no worker and no
\* poll thread is left: nothing of the runner's executes a task. (For callers
\* that do not race AddTask with Shutdown on another thread.)
ShutdownQuiescent ==
    pc[Owner] \in {"idle", "destroyed"} /\ ~running =>
        Live = {} /\ pc[Poller] = "idle"

\* From the moment Shutdown() has marked the entries, every worker still able
\* to start another execution has been told to stop, those that a Pass()
\* already under way starts afterwards included.
StopReachesWorkers ==
    pc[Owner] \in ShutdownPCs \ {"mark"} =>
        \A w \in Workers : pc[w] \in LivePCs \ {"exit"} => stop[job[w]]

\* The inductive invariant: what every reachable state satisfies and every
\* step preserves, for any number of entries, clients and workers.
RolesInv ==
    /\ pc[Owner] \in {"idle", "added", "scan", "spawn", "launch", "destroyed"} \cup ShutdownPCs
    /\ pc[Poller] \in {"idle", "scan", "spawn", "loop", "prewait", "waiting", "woken", "done"}
    /\ \A c \in Clients : pc[c] \in {"idle", "added", "scan", "spawn"}
    /\ \A w \in Workers : pc[w] \in LivePCs \cup {"idle", "signal", "gone"}

\* An entry claimed by a Pass() or given to a worker carries its scheduled
\* flag, and is in one place only.
ClaimsInv ==
    /\ \A t \in Threads : toSchedule[t] # {} => pc[t] = "spawn"
    /\ \A t \in Threads : \A e \in toSchedule[t] : e \in added /\ scheduled[e]
    /\ \A t, u \in Threads : t # u => toSchedule[t] \cap toSchedule[u] = {}
    /\ \A w \in Workers : job[w] = None <=> pc[w] = "idle"
    /\ \A w \in Workers : job[w] # None =>
        /\ job[w] \in added /\ scheduled[job[w]]
        /\ \A t \in Threads : job[w] \notin toSchedule[t]
    /\ OneWorkerPerEntry

LocksInv ==
    /\ mutex = Poller <=> pc[Poller] = "prewait"
    /\ workersMutex = Owner <=> pc[Owner] \in {"block", "clear"}

\* running_ against the life of the poll thread and the owner's progress.
PollerInv ==
    /\ pc[Owner] \in {"launch", "scan", "spawn"} => running
    /\ pc[Owner] \in ShutdownPCs \cup {"destroyed"} => ~running
    /\ pc[Owner] = "launch" => pc[Poller] = "idle"
    /\ ~running /\ pc[Owner] \notin {"mark", "notify", "join"} => pc[Poller] = "idle"
    /\ pc[Owner] = "notify" => pc[Poller] # "prewait"
    /\ pc[Owner] = "join" => pc[Poller] \notin {"prewait", "waiting"}

\* Only a worker completes an entry: what a scan erases has been executed.
CompletedInv ==
    \A e \in Entries : status[e] = "Completed" => \E w \in Workers : job[w] = e

DoneInv ==
    pc[Owner] \in {"block", "blocked"} /\ active = 0 => \E w \in Workers : pc[w] = "signal"

RunnerCore ==
    /\ TypeOK /\ RolesInv /\ ClaimsInv /\ CompletedInv
    /\ LocksInv /\ PollerInv /\ DoneInv

RunnerInv == RunnerCore /\ ActiveCount

\* Inductive with RunnerInv when no other thread calls in: Shutdown() past its
\* wait, and then a stopped runner, has no worker at all.
QuietInv == ~running /\ pc[Owner] \in {"clear", "idle", "added", "destroyed"} => Live = {}

\* Nothing of the runner's is touched by a worker once its destructor has
\* returned: fetch_sub, the lock of workers_mutex_ and notify_all come before.
RunnerOutlivesWorkers ==
    pc[Owner] = "destroyed" => \A w \in Workers : pc[w] \in {"idle", "gone"}

\* A task that Config() reports as paused (-1) when its worker is started was
\* to be left Ready, not executed.
PausedNotExecuted == \A w \in Workers : cfg[w] # -1

\* Every call of Shutdown(), the destructor's included, returns.
ShutdownReturns ==
    pc[Owner] \in ShutdownPCs ~> pc[Owner] \in {"idle", "destroyed"}

\* While the runner runs, a completed entry does not stay in managed_: the
\* poll thread erases it, so TaskCount() goes down.
CompletedErased ==
    \A e \in Entries : []<>~(running /\ e \in managed /\ status[e] = "Completed")

\* While the runner runs, a task that is not paused does not wait for ever: a
\* worker is started for it, also when earlier passes found it paused.
NoStarvedTask ==
    \A e \in Entries :
        []<>~(running /\ e \in managed /\ period[e] # -1 /\ \A w \in Workers : job[w] # e)

\* The pool this runner implements: open from Start to the return of the
\* Shutdown() that follows it.
PoolOpen == running \/ pc[Owner] \in ShutdownPCs

Busy(e) == \E w \in Live : job[w] = e
Given(e) == \E w \in Workers : job[w] = e
Waiting(e) == e \in managed \/ \E t \in Threads : e \in toSchedule[t]

PoolLife(e) ==
    IF e \notin added THEN "absent"
    ELSE IF Busy(e) THEN "active"
    ELSE IF Given(e) THEN "finished"
    ELSE IF Waiting(e) THEN "queued" ELSE "discarded"

Pool == INSTANCE TaskPool WITH open <- PoolOpen, life <- [e \in Entries |-> PoolLife(e)]

\* The runner implements the pool: no launch while closed, no close over a
\* worker at work, no task lost between the vector, a pass and a worker.
ImplementsPool == Pool!Spec
=============================================================================
