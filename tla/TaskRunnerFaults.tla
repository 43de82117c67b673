-------------------------- MODULE TaskRunnerFaults --------------------------
(***************************************************************************)
(* TaskRunner where std::thread's constructor may throw, which it does when *)
(* the system has no thread left to give. The exception passes through      *)
(* Pass() and whoever called it. On the owner's or a client's thread the    *)
(* caller goes on; on the poll thread nothing catches it, and std::terminate *)
(* ends the process; in Execute() it is the task that catches it or not.    *)
(***************************************************************************)
EXTENDS TaskRunnerProps

CONSTANT MaxFailures  \* bound: threads that cannot be created

ASSUME FailuresAssumption == MaxFailures \in Nat

VARIABLES
    failed,   \* workers that were counted and could not be created
    unpolled, \* the runner runs, and its poll thread could not be created
    ended     \* std::terminate was called

faultVars == <<failed, unpolled, ended>>

FaultyInit == Init /\ failed = 0 /\ unpolled = FALSE /\ ended = FALSE

\* Mutant: the caller of Pass() takes the failed count back, once for every
\* entry that was still to be scheduled.
BugSpawnFails(t) ==
    /\ pc[t] = "spawn" /\ failed < MaxFailures
    /\ active' = active + 1 - Cardinality(toSchedule[t])
    /\ toSchedule' = [toSchedule EXCEPT ![t] = {}]
    /\ failed' = failed + 1
    /\ \/ t # Poller /\ Goto(t, Return(t)) /\ UNCHANGED ended
       \/ t \in {Poller} \cup Workers /\ ended' = TRUE /\ UNCHANGED pc
    /\ UNCHANGED <<gate, entryVars, locks, job, cfg, unpolled>>

\* One worker of a Pass() cannot be created, after fetch_add: nothing takes the
\* count back, and the rest of to_schedule goes with the frame.
SpawnFails(t) ==
    /\ pc[t] = "spawn" /\ failed < MaxFailures
    /\ active' = active + 1
    /\ toSchedule' = [toSchedule EXCEPT ![t] = {}]
    /\ failed' = failed + 1
    /\ \/ t # Poller /\ Goto(t, Return(t)) /\ UNCHANGED ended
       \/ t \in {Poller} \cup Workers /\ ended' = TRUE /\ UNCHANGED pc
    /\ UNCHANGED <<gate, entryVars, locks, job, cfg, unpolled>>

\* Start() cannot create the poll thread: running_ is set already, poll_thread_
\* is not joinable, and the Pass() that follows is not made.
PollerFails ==
    /\ pc[Owner] = "launch"
    /\ unpolled' = TRUE
    /\ Goto(Owner, "idle")
    /\ UNCHANGED <<gate, entryVars, locks, passVars, failed, ended>>

NoFault == Next /\ unpolled' = (unpolled /\ running') /\ UNCHANGED <<failed, ended>>

FaultyNext ==
    \/ /\ ~ended
       /\ NoFault \/ PollerFails \/ \E t \in Threads : SpawnFails(t)
    \/ ended /\ UNCHANGED <<vars, faultVars>>

FaultySpec == FaultyInit /\ [][FaultyNext]_<<vars, faultVars>>

-----------------------------------------------------------------------------
\* What goes missing goes missing for one reason only. active_workers_ exceeds
\* the workers by those that could not be created, so that from the first of
\* them on no Shutdown() gets past its wait; an entry whose scheduled flag is
\* set is in a Pass() or with a worker unless a creation failed; and a runner
\* that runs polls unless its poll thread could not be created.
OnlyFailuresLose ==
    /\ active = Cardinality(Live) + failed
    /\ failed > 0 => pc[Owner] \notin {"clear", "destroyed"}
    /\ failed = 0 => \A e \in managed :
           scheduled[e] => Given(e) \/ \E t \in Threads : e \in toSchedule[t]
    /\ running /\ ~unpolled => pc[Poller] # "idle" \/ pc[Owner] = "launch"
=============================================================================
