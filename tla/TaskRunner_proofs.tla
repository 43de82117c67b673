-------------------------- MODULE TaskRunner_proofs --------------------------
(***************************************************************************)
(* Proofs about TaskRunner, for any number of entries, clients and workers: *)
(* RunnerInv is inductive, and with it TypeOK, OneWorkerPerEntry,           *)
(* NoLostStopSignal, NoLostDoneSignal and ActiveCount hold in every         *)
(* reachable state; so does ShutdownQuiescent when no other thread calls.   *)
(***************************************************************************)
EXTENDS TaskRunnerFaults, FiniteSetTheorems, TLAPS

\* The initial state satisfies the inductive invariant.
LEMMA InitEstablishes == Init => RunnerInv
<1> SUFFICES ASSUME Init PROVE RunnerInv
  OBVIOUS
<1> USE SetsAssumption, ThreadsAssumption DEF Init, Threads
<1>1. TypeOK
  BY DEF TypeOK, BasePeriod, PCs
<1>2. RolesInv
  BY DEF RolesInv
<1>3. ClaimsInv
  BY DEF ClaimsInv, OneWorkerPerEntry
<1>4. LocksInv
  BY DEF LocksInv
<1>5. PollerInv
  BY DEF PollerInv, ShutdownPCs
<1>6. DoneInv
  BY DEF DoneInv
<1>7. ActiveCount
  <2>1. Live = {}
    BY DEF Live, LivePCs
  <2>2. QED
    BY <2>1, FS_EmptySet DEF ActiveCount
<1>8. CompletedInv
  BY DEF CompletedInv
<1>9. QED
  BY <1>1, <1>2, <1>3, <1>4, <1>5, <1>6, <1>7, <1>8 DEF RunnerInv, RunnerCore

\* The thread a Pass() starts has not run yet.
LEMMA NewThreadIsFresh ==
    FreshWorkers # {} => NewThread \in Workers /\ pc[NewThread] = "idle"
<1>1. FreshWorkers # {} => NewThread \in FreshWorkers
  BY DEF NewThread
<1>2. QED
  BY <1>1 DEF FreshWorkers

\* active_workers_ counts the live workers, and `lost` more that never came to
\* be: none where threads can always be created.
CountedWith(lost) == active = Cardinality(Live) + lost

\* While a worker is live the counter is not zero.
LEMMA ALiveWorkerCounts ==
    ASSUME RunnerCore, NEW lost \in Nat, CountedWith(lost), NEW w \in Live
    PROVE  active \in Nat /\ active > 0
<1>1. IsFiniteSet(Live)
  BY SetsAssumption, FS_Subset DEF Live
<1>2. Cardinality(Live) \in Nat /\ Cardinality(Live) # 0
  BY <1>1, FS_EmptySet, FS_CardinalityType
<1>3. QED
  BY <1>2 DEF CountedWith

\* Every step leaves each variable in its type. That active_workers_ stays a
\* natural number rests on its being the number of live workers.
LEMMA TypeStep ==
    ASSUME RunnerCore, NEW lost \in Nat, CountedWith(lost), [Next]_vars
    PROVE  TypeOK'
<1> USE SetsAssumption, ThreadsAssumption
        DEF TypeOK, RunnerCore, Threads, Goto, gate, entryVars, locks, passVars, PCs, ShutdownPCs
<1>1. CASE UNCHANGED vars
  BY <1>1 DEF vars
<1>2. ASSUME NEW t \in Threads, Poke(t) \/ AfterAdd(t) PROVE TypeOK'
  BY <1>2 DEF Poke, AfterAdd, Return
<1>3. ASSUME NEW t \in Threads, NEW e \in Entries, AddTask(t, e) PROVE TypeOK'
  BY <1>3 DEF AddTask
<1>4. ASSUME NEW t \in Threads, PassScan(t) PROVE TypeOK'
  BY <1>4 DEF PassScan, Claimed, Kept, Return
<1>5. ASSUME NEW t \in Threads, PassSpawn(t) PROVE TypeOK'
  <2>1. NewThread \in Workers
    BY <1>5, NewThreadIsFresh DEF PassSpawn
  <2>2. QED
    BY <1>5, <2>1 DEF PassSpawn, Return
<1>6. CASE StartExchange
  BY <1>6 DEF StartExchange
<1>14. CASE StartPoller
  BY <1>14 DEF StartPoller
<1>7. CASE ShutdownExchange \/ ShutdownMark \/ ShutdownNotify \/ ShutdownJoin
  BY <1>7 DEF ShutdownExchange, ShutdownMark, ShutdownNotify, ShutdownJoin
<1>8. CASE ShutdownCheck \/ ShutdownBlock \/ SpuriousWake \/ ShutdownClear
  BY <1>8 DEF ShutdownCheck, ShutdownBlock, SpuriousWake, ShutdownClear
<1>9. CASE PollCheck \/ PollBlock \/ PollWake
  BY <1>9 DEF PollCheck, PollBlock, PollWake
<1>10. ASSUME NEW w \in Workers, WorkerStop(w) \/ WorkerExecute(w) \/ WorkerExecuted(w) PROVE TypeOK'
  BY <1>10 DEF WorkerStop, WorkerExecute, WorkerExecuted
<1>11. ASSUME NEW w \in Workers, WorkerExit(w) PROVE TypeOK'
  <2>1. w \in Live
    BY <1>11 DEF WorkerExit, Live, LivePCs
  <2>2. active - 1 \in Nat
    BY <2>1, ALiveWorkerCounts
  <2>3. QED
    BY <1>11, <2>2 DEF WorkerExit
<1>12. ASSUME NEW w \in Workers, WorkerSignal(w) PROVE TypeOK'
  BY <1>12 DEF WorkerSignal
<1>13. ASSUME NEW e \in Entries, Reconfigure(e) PROVE TypeOK'
  BY <1>13 DEF Reconfigure, BasePeriod
<1>15. QED
  BY <1>1, <1>2, <1>3, <1>4, <1>5, <1>6, <1>7, <1>8, <1>9, <1>10, <1>11, <1>12, <1>13, <1>14
  DEF Next, CalleeStep, OwnerStep, PollerStep, WorkerStep, Terminated
\* Each thread stays at the program points of its own role.
LEMMA RolesStep ==
    ASSUME RunnerCore, [Next]_vars
    PROVE  RolesInv'
<1> USE SetsAssumption, ThreadsAssumption
        DEF TypeOK, RunnerCore, Threads, Goto, gate, entryVars, locks, passVars, PCs, ShutdownPCs, LivePCs, RolesInv
<1>1. CASE UNCHANGED vars
  BY <1>1 DEF vars
<1>2. ASSUME NEW t \in Threads, Poke(t) \/ AfterAdd(t) PROVE RolesInv'
  BY <1>2 DEF Poke, AfterAdd, Return, CanCall
<1>3. ASSUME NEW t \in Threads, NEW e \in Entries, AddTask(t, e) PROVE RolesInv'
  BY <1>3 DEF AddTask, CanCall
<1>4. ASSUME NEW t \in Threads, PassScan(t) PROVE RolesInv'
  BY <1>4 DEF PassScan, Return
<1>5. ASSUME NEW t \in Threads, PassSpawn(t) PROVE RolesInv'
  <2>1. NewThread \in Workers /\ pc[NewThread] = "idle"
    BY <1>5, NewThreadIsFresh DEF PassSpawn
  <2>2. QED
    BY <1>5, <2>1 DEF PassSpawn, Return
<1>6. CASE StartExchange
  BY <1>6 DEF StartExchange
<1>7. CASE StartPoller
  BY <1>7 DEF StartPoller
<1>8. CASE ShutdownExchange \/ ShutdownMark \/ ShutdownNotify \/ ShutdownJoin
  BY <1>8 DEF ShutdownExchange, ShutdownMark, ShutdownNotify, ShutdownJoin
<1>9. CASE ShutdownCheck \/ ShutdownBlock \/ SpuriousWake \/ ShutdownClear
  BY <1>9 DEF ShutdownCheck, ShutdownBlock, SpuriousWake, ShutdownClear
<1>10. CASE PollCheck \/ PollBlock \/ PollWake
  BY <1>10 DEF PollCheck, PollBlock, PollWake
<1>11. ASSUME NEW w \in Workers, WorkerStop(w) \/ WorkerExecute(w) \/ WorkerExecuted(w) PROVE RolesInv'
  BY <1>11 DEF WorkerStop, WorkerExecute, WorkerExecuted
<1>12. ASSUME NEW w \in Workers, WorkerExit(w) \/ WorkerSignal(w) PROVE RolesInv'
  BY <1>12 DEF WorkerExit, WorkerSignal
<1>13. ASSUME NEW e \in Entries, Reconfigure(e) PROVE RolesInv'
  BY <1>13 DEF Reconfigure
<1>14. QED
  BY <1>1, <1>2, <1>3, <1>4, <1>5, <1>6, <1>7, <1>8, <1>9, <1>10, <1>11, <1>12, <1>13
  DEF Next, CalleeStep, OwnerStep, PollerStep, WorkerStep, Terminated

\* A mutex is held between two steps by the thread whose program point says so.
LEMMA LocksStep ==
    ASSUME RunnerCore, [Next]_vars
    PROVE  LocksInv'
<1> USE SetsAssumption, ThreadsAssumption
        DEF TypeOK, RunnerCore, Threads, Goto, gate, entryVars, locks, passVars, PCs, ShutdownPCs, LivePCs, LocksInv, RolesInv
<1>1. CASE UNCHANGED vars
  BY <1>1 DEF vars
<1>2. ASSUME NEW t \in Threads, Poke(t) \/ AfterAdd(t) PROVE LocksInv'
  BY <1>2 DEF Poke, AfterAdd, Return, CanCall
<1>3. ASSUME NEW t \in Threads, NEW e \in Entries, AddTask(t, e) PROVE LocksInv'
  BY <1>3 DEF AddTask, CanCall
<1>4. ASSUME NEW t \in Threads, PassScan(t) PROVE LocksInv'
  BY <1>4 DEF PassScan, Return
<1>5. ASSUME NEW t \in Threads, PassSpawn(t) PROVE LocksInv'
  <2>1. NewThread \in Workers /\ pc[NewThread] = "idle"
    BY <1>5, NewThreadIsFresh DEF PassSpawn
  <2>2. QED
    BY <1>5, <2>1 DEF PassSpawn, Return
<1>6. CASE StartExchange
  BY <1>6 DEF StartExchange
<1>7. CASE StartPoller
  BY <1>7 DEF StartPoller, PollerInv
<1>8. CASE ShutdownExchange \/ ShutdownMark \/ ShutdownNotify \/ ShutdownJoin
  BY <1>8 DEF ShutdownExchange, ShutdownMark, ShutdownNotify, ShutdownJoin
<1>9. CASE ShutdownCheck \/ ShutdownBlock \/ SpuriousWake \/ ShutdownClear
  BY <1>9 DEF ShutdownCheck, ShutdownBlock, SpuriousWake, ShutdownClear
<1>10. CASE PollCheck \/ PollBlock \/ PollWake
  BY <1>10 DEF PollCheck, PollBlock, PollWake
<1>11. ASSUME NEW w \in Workers, WorkerStop(w) \/ WorkerExecute(w) \/ WorkerExecuted(w) PROVE LocksInv'
  BY <1>11 DEF WorkerStop, WorkerExecute, WorkerExecuted
<1>12. ASSUME NEW w \in Workers, WorkerExit(w) \/ WorkerSignal(w) PROVE LocksInv'
  BY <1>12 DEF WorkerExit, WorkerSignal
<1>13. ASSUME NEW e \in Entries, Reconfigure(e) PROVE LocksInv'
  BY <1>13 DEF Reconfigure
<1>14. QED
  BY <1>1, <1>2, <1>3, <1>4, <1>5, <1>6, <1>7, <1>8, <1>9, <1>10, <1>11, <1>12, <1>13
  DEF Next, CalleeStep, OwnerStep, PollerStep, WorkerStep, Terminated

\* The poll thread runs only between Start and the join, and is never left to
\* sleep through a stop.
LEMMA PollThreadStep ==
    ASSUME RunnerCore, [Next]_vars
    PROVE  PollerInv'
<1> USE SetsAssumption, ThreadsAssumption
        DEF TypeOK, RunnerCore, Threads, Goto, gate, entryVars, locks, passVars, PCs, ShutdownPCs, LivePCs, PollerInv, RolesInv, LocksInv
<1>1. CASE UNCHANGED vars
  BY <1>1 DEF vars
<1>2. ASSUME NEW t \in Threads, Poke(t) \/ AfterAdd(t) PROVE PollerInv'
  BY <1>2 DEF Poke, AfterAdd, Return, CanCall
<1>3. ASSUME NEW t \in Threads, NEW e \in Entries, AddTask(t, e) PROVE PollerInv'
  BY <1>3 DEF AddTask, CanCall
<1>4. ASSUME NEW t \in Threads, PassScan(t) PROVE PollerInv'
  BY <1>4 DEF PassScan, Return
<1>5. ASSUME NEW t \in Threads, PassSpawn(t) PROVE PollerInv'
  <2>1. NewThread \in Workers /\ pc[NewThread] = "idle"
    BY <1>5, NewThreadIsFresh DEF PassSpawn
  <2>2. QED
    BY <1>5, <2>1 DEF PassSpawn, Return
<1>6. CASE StartExchange
  BY <1>6 DEF StartExchange
<1>7. CASE StartPoller
  BY <1>7 DEF StartPoller
<1>8. CASE ShutdownExchange \/ ShutdownMark \/ ShutdownNotify \/ ShutdownJoin
  BY <1>8 DEF ShutdownExchange, ShutdownMark, ShutdownNotify, ShutdownJoin
<1>9. CASE ShutdownCheck \/ ShutdownBlock \/ SpuriousWake \/ ShutdownClear
  BY <1>9 DEF ShutdownCheck, ShutdownBlock, SpuriousWake, ShutdownClear
<1>10. CASE PollCheck \/ PollBlock \/ PollWake
  BY <1>10 DEF PollCheck, PollBlock, PollWake
<1>11. ASSUME NEW w \in Workers, WorkerStop(w) \/ WorkerExecute(w) \/ WorkerExecuted(w) PROVE PollerInv'
  BY <1>11 DEF WorkerStop, WorkerExecute, WorkerExecuted
<1>12. ASSUME NEW w \in Workers, WorkerExit(w) \/ WorkerSignal(w) PROVE PollerInv'
  BY <1>12 DEF WorkerExit, WorkerSignal
<1>13. ASSUME NEW e \in Entries, Reconfigure(e) PROVE PollerInv'
  BY <1>13 DEF Reconfigure
<1>14. QED
  BY <1>1, <1>2, <1>3, <1>4, <1>5, <1>6, <1>7, <1>8, <1>9, <1>10, <1>11, <1>12, <1>13
  DEF Next, CalleeStep, OwnerStep, PollerStep, WorkerStep, Terminated

\* Shutdown() about to sleep on the counter, or asleep, has a wake-up coming.
LEMMA DoneStep ==
    ASSUME RunnerCore, [Next]_vars
    PROVE  DoneInv'
<1> USE SetsAssumption, ThreadsAssumption
        DEF TypeOK, RunnerCore, Threads, Goto, gate, entryVars, locks, passVars, PCs, ShutdownPCs, LivePCs, DoneInv, RolesInv, LocksInv
<1>1. CASE UNCHANGED vars
  BY <1>1 DEF vars
<1>2. ASSUME NEW t \in Threads, Poke(t) \/ AfterAdd(t) PROVE DoneInv'
  BY <1>2 DEF Poke, AfterAdd, Return, CanCall
<1>3. ASSUME NEW t \in Threads, NEW e \in Entries, AddTask(t, e) PROVE DoneInv'
  BY <1>3 DEF AddTask, CanCall
<1>4. ASSUME NEW t \in Threads, PassScan(t) PROVE DoneInv'
  BY <1>4 DEF PassScan, Return
<1>5. ASSUME NEW t \in Threads, PassSpawn(t) PROVE DoneInv'
  <2>1. NewThread \in Workers /\ pc[NewThread] = "idle"
    BY <1>5, NewThreadIsFresh DEF PassSpawn
  <2>2. QED
    BY <1>5, <2>1 DEF PassSpawn, Return
<1>6. CASE StartExchange
  BY <1>6 DEF StartExchange
<1>7. CASE StartPoller
  BY <1>7 DEF StartPoller
<1>8. CASE ShutdownExchange \/ ShutdownMark \/ ShutdownNotify \/ ShutdownJoin
  BY <1>8 DEF ShutdownExchange, ShutdownMark, ShutdownNotify, ShutdownJoin
<1>9. CASE ShutdownCheck \/ ShutdownBlock \/ SpuriousWake \/ ShutdownClear
  BY <1>9 DEF ShutdownCheck, ShutdownBlock, SpuriousWake, ShutdownClear
<1>10. CASE PollCheck \/ PollBlock \/ PollWake
  BY <1>10 DEF PollCheck, PollBlock, PollWake
<1>11. ASSUME NEW w \in Workers, WorkerStop(w) \/ WorkerExecute(w) \/ WorkerExecuted(w) PROVE DoneInv'
  BY <1>11 DEF WorkerStop, WorkerExecute, WorkerExecuted
<1>12. ASSUME NEW w \in Workers, WorkerExit(w) \/ WorkerSignal(w) PROVE DoneInv'
  BY <1>12 DEF WorkerExit, WorkerSignal
<1>13. ASSUME NEW e \in Entries, Reconfigure(e) PROVE DoneInv'
  BY <1>13 DEF Reconfigure
<1>14. QED
  BY <1>1, <1>2, <1>3, <1>4, <1>5, <1>6, <1>7, <1>8, <1>9, <1>10, <1>11, <1>12, <1>13
  DEF Next, CalleeStep, OwnerStep, PollerStep, WorkerStep, Terminated

\* Only Pass() starting a worker and a worker counting down change which
\* workers are live, and active_workers_ with them.
LiveUnchanged == Live' = Live /\ UNCHANGED active

LEMMA LiveStep ==
    ASSUME RunnerCore, [Next]_vars,
           \A t \in Threads : ~PassSpawn(t), \A w \in Workers : ~WorkerExit(w)
    PROVE  LiveUnchanged
<1> USE SetsAssumption, ThreadsAssumption
        DEF TypeOK, RunnerCore, Threads, Goto, gate, entryVars, locks, passVars, PCs, ShutdownPCs, LivePCs, Live, LiveUnchanged
<1>1. CASE UNCHANGED vars
  BY <1>1 DEF vars
<1>2. ASSUME NEW t \in Threads, Poke(t) \/ AfterAdd(t) PROVE LiveUnchanged
  BY <1>2 DEF Poke, AfterAdd, Return, CanCall, RolesInv
<1>3. ASSUME NEW t \in Threads, NEW e \in Entries, AddTask(t, e) PROVE LiveUnchanged
  BY <1>3 DEF AddTask, CanCall, RolesInv
<1>4. ASSUME NEW t \in Threads, PassScan(t) PROVE LiveUnchanged
  BY <1>4 DEF PassScan, Return, RolesInv
<1>5. CASE StartExchange \/ StartPoller
  BY <1>5 DEF StartExchange, StartPoller
<1>6. CASE ShutdownExchange \/ ShutdownMark \/ ShutdownNotify \/ ShutdownJoin
  BY <1>6 DEF ShutdownExchange, ShutdownMark, ShutdownNotify, ShutdownJoin
<1>7. CASE ShutdownCheck \/ ShutdownBlock \/ SpuriousWake \/ ShutdownClear
  BY <1>7 DEF ShutdownCheck, ShutdownBlock, SpuriousWake, ShutdownClear
<1>8. CASE PollCheck \/ PollBlock \/ PollWake
  BY <1>8 DEF PollCheck, PollBlock, PollWake
<1>9. ASSUME NEW w \in Workers, WorkerStop(w) \/ WorkerExecute(w) \/ WorkerExecuted(w)
      PROVE  LiveUnchanged
  BY <1>9 DEF WorkerStop, WorkerExecute, WorkerExecuted
<1>10. ASSUME NEW w \in Workers, WorkerSignal(w) PROVE LiveUnchanged
  BY <1>10 DEF WorkerSignal
<1>11. ASSUME NEW e \in Entries, Reconfigure(e) PROVE LiveUnchanged
  BY <1>11 DEF Reconfigure
<1>12. QED
  BY <1>1, <1>2, <1>3, <1>4, <1>5, <1>6, <1>7, <1>8, <1>9, <1>10, <1>11
  DEF Next, CalleeStep, OwnerStep, PollerStep, WorkerStep, Terminated

\* The counter follows the set of live workers: a step that adds a worker to
\* the set raises it, one that takes a worker out lowers it, no other touches it.
LEMMA CountStep ==
    ASSUME RunnerCore, NEW lost \in Nat, CountedWith(lost), [Next]_vars
    PROVE  CountedWith(lost)'
<1> USE SetsAssumption, ThreadsAssumption
        DEF TypeOK, RunnerCore, Threads, Goto, gate, entryVars, locks, passVars, PCs, ShutdownPCs, LivePCs
<1>1. IsFiniteSet(Live) /\ active = Cardinality(Live) + lost /\ Cardinality(Live) \in Nat
  BY FS_Subset, FS_CardinalityType DEF Live, CountedWith
<1>2. ASSUME NEW t \in Threads, PassSpawn(t) PROVE CountedWith(lost)'
  <2>1. NewThread \in Workers /\ pc[NewThread] = "idle"
    BY <1>2, NewThreadIsFresh DEF PassSpawn
  <2>2. /\ pc[t] = "spawn" /\ NewThread # t /\ active' = active + 1
        /\ pc'[NewThread] = "head" /\ pc'[t] \in {"spawn", Return(t)}
        /\ \A w \in Workers \ {NewThread, t} : pc'[w] = pc[w]
    BY <1>2, <2>1 DEF PassSpawn
  <2>3. t \in Workers => pc'[t] \in LivePCs
    BY <2>2 DEF Return
  <2>4. NewThread \notin Live
    BY <2>1 DEF Live
  <2>5. Live' = Live \cup {NewThread}
    BY <2>1, <2>2, <2>3 DEF Live
  <2>6. Cardinality(Live \cup {NewThread}) = Cardinality(Live) + 1
    BY <1>1, <2>4, FS_AddElement
  <2>7. QED
    BY <1>1, <2>2, <2>5, <2>6 DEF CountedWith
<1>3. ASSUME NEW w \in Workers, WorkerExit(w) PROVE CountedWith(lost)'
  <2>1. Live' = Live \ {w} /\ w \in Live
    BY <1>3 DEF WorkerExit, Live
  <2>2. Cardinality(Live \ {w}) = Cardinality(Live) - 1
    BY <1>1, <2>1, FS_RemoveElement
  <2>3. QED
    BY <1>1, <1>3, <2>1, <2>2 DEF WorkerExit, CountedWith
<1>4. CASE (\A t \in Threads : ~PassSpawn(t)) /\ (\A w \in Workers : ~WorkerExit(w))
  BY <1>1, <1>4, LiveStep DEF LiveUnchanged, CountedWith
<1>5. QED
  BY <1>2, <1>3, <1>4

\* A claimed entry carries its flag and sits in one pass or with one worker.
LEMMA ClaimsStep ==
    ASSUME RunnerCore, [Next]_vars
    PROVE  ClaimsInv'
<1> USE SetsAssumption, ThreadsAssumption
        DEF TypeOK, RunnerCore, Threads, Goto, gate, entryVars, locks, passVars, PCs, ShutdownPCs, LivePCs,
            ClaimsInv, RolesInv, OneWorkerPerEntry
<1>1. CASE UNCHANGED vars
  BY <1>1 DEF vars
<1>2. ASSUME NEW t \in Threads, Poke(t) \/ AfterAdd(t) PROVE ClaimsInv'
  BY <1>2 DEF Poke, AfterAdd, Return, CanCall
<1>3. ASSUME NEW t \in Threads, NEW e \in Entries, AddTask(t, e) PROVE ClaimsInv'
  BY <1>3 DEF AddTask, CanCall
<1>4. ASSUME NEW t \in Threads, PassScan(t) PROVE ClaimsInv'
  <2>1. /\ toSchedule' = [toSchedule EXCEPT ![t] = Claimed]
        /\ scheduled' = [e \in Entries |-> scheduled[e] \/ e \in Claimed]
        /\ pc' = [pc EXCEPT ![t] = IF Claimed = {} THEN Return(t) ELSE "spawn"]
        /\ pc[t] = "scan" /\ UNCHANGED <<added, job>>
    BY <1>4 DEF PassScan
  <2>2. \A e \in Claimed : e \in added /\ ~scheduled[e]
    BY DEF Claimed, Kept
  <2>3. pc'[t] # "idle" \/ t \notin Workers
    BY <2>1 DEF Return
  <2>4. \A u \in Threads : toSchedule'[u] # {} => pc'[u] = "spawn"
    BY <2>1
  <2>5. \A u \in Threads : \A e \in toSchedule'[u] : e \in added' /\ scheduled'[e]
    BY <2>1, <2>2
  <2>6. \A u \in Threads : Claimed \cap toSchedule[u] = {}
    BY <2>2
  <2>7. \A u, v \in Threads : u # v => toSchedule'[u] \cap toSchedule'[v] = {}
    <3>1. SUFFICES ASSUME NEW u \in Threads, NEW v \in Threads, u # v
                   PROVE  toSchedule'[u] \cap toSchedule'[v] = {}
      OBVIOUS
    <3>2. /\ toSchedule'[u] = IF u = t THEN Claimed ELSE toSchedule[u]
          /\ toSchedule'[v] = IF v = t THEN Claimed ELSE toSchedule[v]
      BY <2>1
    <3>3. QED
      BY <2>6, <3>1, <3>2
  <2>8. \A w \in Workers : job'[w] = None <=> pc'[w] = "idle"
    BY <2>1, <2>3
  <2>9. \A w \in Workers : job'[w] # None =>
        /\ job'[w] \in added' /\ scheduled'[job'[w]]
        /\ \A u \in Threads : job'[w] \notin toSchedule'[u]
    BY <2>1, <2>2
  <2>10. QED
    BY <2>1, <2>4, <2>5, <2>8, <2>9, <2>7
<1>5. ASSUME NEW t \in Threads, PassSpawn(t) PROVE ClaimsInv'
  <2>1. NewThread \in Workers /\ pc[NewThread] = "idle"
    BY <1>5, NewThreadIsFresh DEF PassSpawn
  <2>2. QED
    BY <1>5, <2>1 DEF PassSpawn, Return
<1>6. CASE StartExchange
  BY <1>6 DEF StartExchange
<1>7. CASE StartPoller
  BY <1>7 DEF StartPoller, PollerInv
<1>8. CASE ShutdownExchange \/ ShutdownMark \/ ShutdownNotify \/ ShutdownJoin
  BY <1>8 DEF ShutdownExchange, ShutdownMark, ShutdownNotify, ShutdownJoin
<1>9. CASE ShutdownCheck \/ ShutdownBlock \/ SpuriousWake \/ ShutdownClear
  BY <1>9 DEF ShutdownCheck, ShutdownBlock, SpuriousWake, ShutdownClear
<1>10. CASE PollCheck \/ PollBlock \/ PollWake
  BY <1>10 DEF PollCheck, PollBlock, PollWake
<1>11. ASSUME NEW w \in Workers, WorkerStop(w) \/ WorkerExecute(w) \/ WorkerExecuted(w) PROVE ClaimsInv'
  BY <1>11 DEF WorkerStop, WorkerExecute, WorkerExecuted
<1>12. ASSUME NEW w \in Workers, WorkerExit(w) \/ WorkerSignal(w) PROVE ClaimsInv'
  BY <1>12 DEF WorkerExit, WorkerSignal
<1>13. ASSUME NEW e \in Entries, Reconfigure(e) PROVE ClaimsInv'
  BY <1>13 DEF Reconfigure
<1>14. QED
  BY <1>1, <1>2, <1>3, <1>4, <1>5, <1>6, <1>7, <1>8, <1>9, <1>10, <1>11, <1>12, <1>13
  DEF Next, CalleeStep, OwnerStep, PollerStep, WorkerStep, Terminated

\* A completed entry has been with a worker.
LEMMA CompletedStep ==
    ASSUME RunnerCore, [Next]_vars
    PROVE  CompletedInv'
<1> USE SetsAssumption, ThreadsAssumption
        DEF TypeOK, RunnerCore, Threads, Goto, gate, entryVars, locks, passVars, PCs, CompletedInv
<1>1. CASE UNCHANGED vars
  BY <1>1 DEF vars
<1>2. ASSUME NEW t \in Threads, Poke(t) \/ AfterAdd(t) PROVE CompletedInv'
  BY <1>2 DEF Poke, AfterAdd
<1>3. ASSUME NEW t \in Threads, NEW e \in Entries, AddTask(t, e) PROVE CompletedInv'
  BY <1>3 DEF AddTask
<1>4. ASSUME NEW t \in Threads, PassScan(t) PROVE CompletedInv'
  BY <1>4 DEF PassScan
<1>5. ASSUME NEW t \in Threads, PassSpawn(t) PROVE CompletedInv'
  <2>1. NewThread \in Workers /\ pc[NewThread] = "idle"
    BY <1>5, NewThreadIsFresh DEF PassSpawn
  <2>2. job[NewThread] = None
    BY <2>1 DEF ClaimsInv
  <2>3. \A w \in Workers : job[w] # None => job'[w] = job[w]
    BY <1>5, <2>1, <2>2 DEF PassSpawn
  <2>4. QED
    BY <1>5, <2>3 DEF PassSpawn
<1>6. CASE StartExchange \/ StartPoller
  BY <1>6 DEF StartExchange, StartPoller
<1>7. CASE ShutdownExchange \/ ShutdownMark \/ ShutdownNotify \/ ShutdownJoin
  BY <1>7 DEF ShutdownExchange, ShutdownMark, ShutdownNotify, ShutdownJoin
<1>8. CASE ShutdownCheck \/ ShutdownBlock \/ SpuriousWake \/ ShutdownClear
  BY <1>8 DEF ShutdownCheck, ShutdownBlock, SpuriousWake, ShutdownClear
<1>9. CASE PollCheck \/ PollBlock \/ PollWake
  BY <1>9 DEF PollCheck, PollBlock, PollWake
<1>10. ASSUME NEW w \in Workers, WorkerStop(w) \/ WorkerExecute(w) \/ WorkerExecuted(w) PROVE CompletedInv'
  <2>1. job[w] # None
    BY <1>10 DEF ClaimsInv, WorkerStop, WorkerExecute, WorkerExecuted
  <2>2. QED
    BY <1>10, <2>1 DEF WorkerStop, WorkerExecute, WorkerExecuted
<1>11. ASSUME NEW w \in Workers, WorkerExit(w) \/ WorkerSignal(w) PROVE CompletedInv'
  BY <1>11 DEF WorkerExit, WorkerSignal
<1>12. ASSUME NEW e \in Entries, Reconfigure(e) PROVE CompletedInv'
  BY <1>12 DEF Reconfigure
<1>13. QED
  BY <1>1, <1>2, <1>3, <1>4, <1>5, <1>6, <1>7, <1>8, <1>9, <1>10, <1>11, <1>12
  DEF Next, CalleeStep, OwnerStep, PollerStep, WorkerStep, Terminated

LEMMA CountedExactly == RunnerInv => CountedWith(0)
BY DEF RunnerInv, RunnerCore, TypeOK, ActiveCount, CountedWith

LEMMA CoreStep ==
    ASSUME RunnerCore, NEW lost \in Nat, CountedWith(lost), [Next]_vars
    PROVE  RunnerCore'
BY TypeStep, RolesStep, ClaimsStep, CompletedStep, LocksStep, PollThreadStep, DoneStep DEF RunnerCore

\* Every reachable state satisfies the inductive invariant.
THEOREM RunnerInvariant == Spec => []RunnerInv
<1>1. Init => RunnerInv
  BY InitEstablishes
<1>2. RunnerInv /\ [Next]_vars => RunnerInv'
  <2>1. ASSUME RunnerInv, [Next]_vars PROVE RunnerCore' /\ CountedWith(0)'
    <3>1. CountedWith(0)
      BY <2>1, CountedExactly
    <3>2. QED
      BY <2>1, <3>1, CoreStep, CountStep DEF RunnerInv
  <2>2. RunnerCore' /\ CountedWith(0)' => RunnerInv'
    <3>1. (IsFiniteSet(Live) /\ Cardinality(Live) \in Nat)'
      BY SetsAssumption, FS_Subset, FS_CardinalityType DEF Live
    <3>2. QED
      BY <3>1 DEF RunnerInv, ActiveCount, CountedWith
  <2>3. QED
    BY <2>1, <2>2
<1>3. QED
  BY <1>1, <1>2, PTL DEF Spec

\* Every variable keeps to its type; active_workers_ never goes below zero.
THEOREM TypeCorrect == Spec => []TypeOK
<1>1. RunnerInv => TypeOK
  BY DEF RunnerInv, RunnerCore
<1>2. QED
  BY <1>1, RunnerInvariant, PTL

\* However many threads run Pass() at once, no entry is given to two workers.
THEOREM OneWorker == Spec => []OneWorkerPerEntry
<1>1. RunnerInv => OneWorkerPerEntry
  BY DEF RunnerInv, RunnerCore, ClaimsInv
<1>2. QED
  BY <1>1, RunnerInvariant, PTL

\* Shutdown() waits on the number of started workers that have not ended.
THEOREM CounterIsExact == Spec => []ActiveCount
<1>1. RunnerInv => ActiveCount
  BY DEF RunnerInv, RunnerCore
<1>2. QED
  BY <1>1, RunnerInvariant, PTL

\* The poll thread cannot miss the notification of Shutdown().
THEOREM StopSignalSafe == Spec => []NoLostStopSignal
<1>1. RunnerInv => NoLostStopSignal
  BY DEF RunnerInv, RunnerCore, PollerInv, NoLostStopSignal
<1>2. QED
  BY <1>1, RunnerInvariant, PTL

\* Shutdown() cannot miss the notification of the last worker.
THEOREM DoneSignalSafe == Spec => []NoLostDoneSignal
<1>1. RunnerInv => NoLostDoneSignal
  BY DEF RunnerInv, RunnerCore, DoneInv, NoLostDoneSignal
<1>2. QED
  BY <1>1, RunnerInvariant, PTL

\* With the owner the only caller, a stopped runner never gets a live worker:
\* Shutdown() passes its wait only when there is none, the owner runs no Pass()
\* while running_ is false, and the poll thread has been joined.
LEMMA QuietStep ==
    ASSUME Clients = {}, RunnerCore, NEW lost \in Nat, CountedWith(lost), QuietInv, [Next]_vars
    PROVE  QuietInv'
<1> USE SetsAssumption, ThreadsAssumption
        DEF TypeOK, RunnerCore, QuietInv, Threads, Goto, gate, entryVars, locks, passVars, PCs,
            ShutdownPCs, LivePCs, Live, PollerInv, RolesInv
<1>1. CASE UNCHANGED vars
  BY <1>1 DEF vars
<1>2. ASSUME NEW t \in Threads, Poke(t) \/ AfterAdd(t) PROVE QuietInv'
  BY <1>2 DEF Poke, AfterAdd, Return, CanCall
<1>3. ASSUME NEW t \in Threads, NEW e \in Entries, AddTask(t, e) PROVE QuietInv'
  BY <1>3 DEF AddTask, CanCall
<1>4. ASSUME NEW t \in Threads, PassScan(t) PROVE QuietInv'
  BY <1>4 DEF PassScan, Return
<1>5. ASSUME NEW t \in Threads, PassSpawn(t) PROVE QuietInv'
  <2>1. NewThread \in Workers /\ pc[NewThread] = "idle"
    BY <1>5, NewThreadIsFresh DEF PassSpawn
  <2>2. QED
    BY <1>5, <2>1 DEF PassSpawn, Return
<1>6. CASE StartExchange \/ StartPoller
  BY <1>6 DEF StartExchange, StartPoller
<1>7. CASE ShutdownExchange \/ ShutdownMark \/ ShutdownNotify \/ ShutdownJoin
  BY <1>7 DEF ShutdownExchange, ShutdownMark, ShutdownNotify, ShutdownJoin
<1>8. CASE ShutdownCheck
  <2>1. IsFiniteSet(Live) /\ active = Cardinality(Live) + lost /\ Cardinality(Live) \in Nat
    BY FS_Subset, FS_CardinalityType DEF CountedWith
  <2>2. active = 0 => Live = {}
    BY <2>1, FS_EmptySet
  <2>3. Live' = Live
    BY <1>8 DEF ShutdownCheck
  <2>4. pc'[Owner] = "clear" => active = 0
    BY <1>8 DEF ShutdownCheck
  <2>5. QED
    BY <1>8, <2>2, <2>3, <2>4 DEF ShutdownCheck
<1>9. CASE ShutdownBlock \/ SpuriousWake \/ ShutdownClear
  BY <1>9 DEF ShutdownBlock, SpuriousWake, ShutdownClear
<1>10. CASE PollCheck \/ PollBlock \/ PollWake
  BY <1>10 DEF PollCheck, PollBlock, PollWake
<1>11. ASSUME NEW w \in Workers, WorkerStop(w) \/ WorkerExecute(w) \/ WorkerExecuted(w) PROVE QuietInv'
  BY <1>11 DEF WorkerStop, WorkerExecute, WorkerExecuted
<1>12. ASSUME NEW w \in Workers, WorkerExit(w) \/ WorkerSignal(w) PROVE QuietInv'
  BY <1>12 DEF WorkerExit, WorkerSignal
<1>13. ASSUME NEW e \in Entries, Reconfigure(e) PROVE QuietInv'
  BY <1>13 DEF Reconfigure
<1>14. QED
  BY <1>1, <1>2, <1>3, <1>4, <1>5, <1>6, <1>7, <1>8, <1>9, <1>10, <1>11, <1>12, <1>13
  DEF Next, CalleeStep, OwnerStep, PollerStep, WorkerStep, Terminated

\* When no other thread calls the runner, a Shutdown() that has returned leaves
\* no worker and no poll thread behind, through any number of restarts.
THEOREM QuietAfterShutdown ==
    ASSUME Clients = {}
    PROVE  Spec => []ShutdownQuiescent
<1>1. Init => QuietInv
  BY SetsAssumption DEF Init, QuietInv, Live, LivePCs, Threads
<1>2. RunnerInv /\ QuietInv /\ [Next]_vars => QuietInv'
  BY CountedExactly, QuietStep DEF RunnerInv
<1>3. RunnerInv /\ QuietInv => ShutdownQuiescent
  BY DEF RunnerInv, RunnerCore, PollerInv, QuietInv, ShutdownQuiescent
<1>4. QED
  BY <1>1, <1>2, <1>3, RunnerInvariant, PTL DEF Spec

-----------------------------------------------------------------------------
(* The runner implements TaskPool *)

\* An entry's life in the pool depends on these facts of the runner only.
LEMMA SameLife ==
    ASSUME NEW e \in Entries,
           e \in added' <=> e \in added, Busy(e)' <=> Busy(e), Given(e)' <=> Given(e),
           ~Given(e) => (Waiting(e)' <=> Waiting(e))
    PROVE  PoolLife(e)' = PoolLife(e)
BY DEF PoolLife

\* A step that leaves the assignments, the vector and the claims alone leaves
\* every life as it is.
LEMMA LivesUnchanged ==
    ASSUME Live' = Live, UNCHANGED <<job, added, managed, toSchedule>>, NEW e \in Entries
    PROVE  PoolLife(e)' = PoolLife(e)
BY SameLife DEF Busy, Given, Waiting

\* AddTask queues its entry.
LEMMA AddTaskAdds ==
    ASSUME RunnerCore, NEW t \in Threads, NEW e \in Entries, AddTask(t, e), Live' = Live
    PROVE  Pool!Add(e) /\ UNCHANGED PoolOpen
<1>1. /\ e \notin added /\ added' = added \cup {e} /\ managed' = managed \cup {e}
      /\ UNCHANGED <<running, job, toSchedule>>
  BY DEF AddTask, gate, passVars
<1>2. ~Given(e) /\ ~Busy(e)
  BY <1>1, SetsAssumption DEF RunnerCore, ClaimsInv, Given, Busy, Live
<1>3. PoolLife(e) = "absent" /\ PoolLife(e)' = "queued"
  BY <1>1, <1>2 DEF PoolLife, Busy, Given, Waiting
<1>4. \A x \in Entries \ {e} : PoolLife(x)' = PoolLife(x)
  BY <1>1, SameLife DEF Busy, Given, Waiting
<1>5. UNCHANGED PoolOpen
  BY <1>1 DEF AddTask, CanCall, Goto, PoolOpen, RunnerCore, TypeOK, ShutdownPCs
<1>6. QED
  BY <1>3, <1>4, <1>5 DEF Pool!Add

\* A scan erases entries a worker has completed, and claims queued ones: the
\* pool sees nothing of it.
LEMMA ScanIsHidden ==
    ASSUME RunnerCore, NEW t \in Threads, PassScan(t), Live' = Live, NEW e \in Entries
    PROVE  PoolLife(e)' = PoolLife(e)
<1>1. /\ managed' = Kept /\ toSchedule' = [toSchedule EXCEPT ![t] = Claimed]
      /\ pc[t] = "scan" /\ UNCHANGED <<job, added>>
  BY DEF PassScan
<1>2. toSchedule[t] = {}
  BY <1>1 DEF RunnerCore, ClaimsInv
<1>3. ~Given(e) => (e \in Kept <=> e \in managed)
  BY DEF Kept, Given, RunnerCore, CompletedInv
<1>4. Claimed \subseteq Kept /\ Kept \subseteq managed
  BY DEF Claimed, Kept
<1>5. \A u \in Threads : toSchedule'[u] = IF u = t THEN Claimed ELSE toSchedule[u]
  BY <1>1 DEF RunnerCore, TypeOK
<1>6. ~Given(e) => (Waiting(e)' <=> Waiting(e))
  BY <1>1, <1>2, <1>3, <1>4, <1>5 DEF Waiting
<1>7. QED
  BY <1>1, <1>6, SameLife DEF Busy, Given

\* A thread that spawns is the owner's between Start and Shutdown, the poll
\* thread, or a live worker: the pool is open.
LEMMA SpawnsWhileOpen ==
    ASSUME Clients = {}, RunnerCore, QuietInv, NEW t \in Threads, pc[t] = "spawn"
    PROVE  PoolOpen
<1> USE ThreadsAssumption DEF RunnerCore, TypeOK, RolesInv, PollerInv, PoolOpen, ShutdownPCs
<1>1. CASE t \in {Owner, Poller}
  BY <1>1
<1>2. CASE t \in Workers
  <2>1. Live # {}
    BY <1>2 DEF Live, LivePCs
  <2>2. QED
    BY <2>1 DEF QuietInv
<1>3. QED
  BY <1>1, <1>2 DEF Threads

\* Starting a worker launches its entry.
LEMMA SpawnLaunches ==
    ASSUME Clients = {}, RunnerCore, QuietInv, NEW t \in Threads, PassSpawn(t)
    PROVE  (\E e \in Entries : Pool!Launch(e)) /\ UNCHANGED PoolOpen
<1> USE SetsAssumption, ThreadsAssumption
<1>1. NewThread \in Workers /\ pc[NewThread] = "idle"
  BY NewThreadIsFresh DEF PassSpawn
<1>2. PICK e \in toSchedule[t] :
        /\ job' = [job EXCEPT ![NewThread] = e]
        /\ toSchedule' = [toSchedule EXCEPT ![t] = toSchedule[t] \ {e}]
        /\ pc' = [pc EXCEPT ![NewThread] = "head",
                   ![t] = IF toSchedule[t] \ {e} = {} THEN Return(t) ELSE "spawn"]
        /\ UNCHANGED <<running, added, managed>> /\ pc[t] = "spawn"
  BY DEF PassSpawn, gate, entryVars
<1>3. /\ e \in Entries /\ e \in added /\ job[NewThread] = None
      /\ \A w \in Workers : job[w] # e
  BY <1>1, <1>2 DEF RunnerCore, TypeOK, ClaimsInv
<1>4. Live' = Live \cup {NewThread} /\ NewThread \notin Live
  <2>1. t # NewThread /\ pc'[NewThread] = "head"
    BY <1>1, <1>2 DEF RunnerCore, TypeOK, Threads
  <2>2. \A w \in Workers \ {NewThread, t} : pc'[w] = pc[w]
    BY <1>1, <1>2 DEF RunnerCore, TypeOK, Threads
  <2>3. t \in Workers => pc'[t] \in LivePCs
    BY <1>1, <1>2, <2>1 DEF RunnerCore, TypeOK, Threads, Return, LivePCs
  <2>4. QED
    BY <1>1, <1>2, <2>1, <2>2, <2>3 DEF Live, LivePCs
<1>5. \A w \in Workers : job'[w] = IF w = NewThread THEN e ELSE job[w]
  BY <1>1, <1>2 DEF RunnerCore, TypeOK
<1>6. PoolLife(e) = "queued" /\ PoolLife(e)' = "active"
  BY <1>1, <1>2, <1>3, <1>4, <1>5 DEF PoolLife, Busy, Given, Waiting, Live
<1>7. ASSUME NEW x \in Entries \ {e} PROVE PoolLife(x)' = PoolLife(x)
  <2>1. (Busy(x)' <=> Busy(x)) /\ (Given(x)' <=> Given(x))
    BY <1>1, <1>3, <1>4, <1>5, <1>7 DEF Busy, Given, Live
  <2>2. \A u \in Threads : x \in toSchedule'[u] <=> x \in toSchedule[u]
    BY <1>2, <1>7 DEF RunnerCore, TypeOK
  <2>3. Waiting(x)' <=> Waiting(x)
    BY <1>2, <2>2 DEF Waiting
  <2>4. QED
    BY <1>2, <2>1, <2>3, SameLife
<1>8. PoolOpen
  BY <1>2, SpawnsWhileOpen
<1>9. UNCHANGED PoolOpen
  <2>1. pc'[Owner] \in ShutdownPCs <=> pc[Owner] \in ShutdownPCs
    BY <1>1, <1>2 DEF RunnerCore, TypeOK, Threads, Return, ShutdownPCs
  <2>2. QED
    BY <1>2, <2>1 DEF PoolOpen
<1>10. Pool!Launch(e)
  BY <1>3, <1>6, <1>7, <1>8, <1>9 DEF Pool!Launch
<1>11. QED
  BY <1>3, <1>9, <1>10

\* A worker that counts down finishes its entry.
LEMMA ExitFinishes ==
    ASSUME RunnerCore, NEW w \in Workers, WorkerExit(w)
    PROVE  (\E e \in Entries : Pool!Finish(e)) /\ UNCHANGED PoolOpen
<1> USE SetsAssumption, ThreadsAssumption
<1>1. /\ pc[w] = "exit" /\ pc' = [pc EXCEPT ![w] = IF active = 1 THEN "signal" ELSE "gone"]
      /\ UNCHANGED <<running, added, managed, toSchedule, job>>
  BY DEF WorkerExit, Goto, gate, entryVars
<1>2. Live' = Live \ {w} /\ w \in Live
  BY <1>1 DEF Live, LivePCs, RunnerCore, TypeOK, Threads
<1>3. job[w] \in Entries /\ job[w] \in added /\ \A v \in Workers : job[v] = job[w] => v = w
  BY <1>1 DEF RunnerCore, TypeOK, ClaimsInv, OneWorkerPerEntry
<1>4. PoolLife(job[w]) = "active" /\ PoolLife(job[w])' = "finished"
  BY <1>1, <1>2, <1>3 DEF PoolLife, Busy, Given, Live
<1>5. \A x \in Entries \ {job[w]} : PoolLife(x)' = PoolLife(x)
  BY <1>1, <1>2, SameLife DEF Busy, Given, Waiting
<1>6. UNCHANGED PoolOpen
  BY <1>1 DEF PoolOpen, RunnerCore, TypeOK, Threads
<1>7. Pool!Finish(job[w])
  <2>1. PICK e \in Entries : e = job[w]
    BY <1>3
  <2>2. PoolLife(e) = "active" /\ PoolLife(e)' = "finished"
    BY <2>1, <1>1, <1>4
  <2>3. \A x \in Entries \ {e} : PoolLife(x)' = PoolLife(x)
    BY <2>1, <1>5
  <2>4. Pool!Finish(e)
    BY <2>2, <2>3, <1>6 DEF Pool!Finish
  <2>5. QED
    BY <2>1, <2>4
<1>8. QED
  BY <1>3, <1>6, <1>7

\* Shutdown() returning closes the pool.
LEMMA ClearCloses ==
    ASSUME Clients = {}, RunnerCore, QuietInv, ShutdownClear, Live' = Live
    PROVE  Pool!Close
<1> USE SetsAssumption, ThreadsAssumption
<1>1. /\ pc[Owner] = "clear" /\ managed' = {} /\ pc'[Owner] \in {"idle", "destroyed"}
      /\ UNCHANGED <<running, added, job, toSchedule>>
  BY DEF ShutdownClear, Goto, gate, passVars, RunnerCore, TypeOK, Threads
<1>2. ~running /\ Live = {} /\ pc[Poller] = "idle"
  BY <1>1 DEF RunnerCore, PollerInv, QuietInv, ShutdownPCs
<1>3. \A t \in Threads : toSchedule[t] = {}
  BY <1>1, <1>2 DEF RunnerCore, ClaimsInv, Threads, Live, LivePCs
<1>4. \A e \in Entries : ~Busy(e) /\ ~Busy(e)' /\ (Given(e)' <=> Given(e)) /\ ~Waiting(e)'
  BY <1>1, <1>2, <1>3 DEF Busy, Given, Waiting
<1>5. \A e \in Entries : /\ PoolLife(e) # "active"
                         /\ PoolLife(e)' = IF PoolLife(e) = "queued" THEN "discarded" ELSE PoolLife(e)
  BY <1>1, <1>4 DEF PoolLife
<1>6. PoolOpen' = FALSE
  BY <1>1, <1>2 DEF PoolOpen, ShutdownPCs
<1>7. QED
  BY <1>5, <1>6 DEF Pool!Close

\* The Start that takes effect, and a Shutdown() call, open the pool or leave
\* it open: it closes when Shutdown() returns.
LEMMA OwnerOpens ==
    ASSUME RunnerCore, StartExchange \/ ShutdownExchange
    PROVE  PoolOpen'
BY DEF StartExchange, ShutdownExchange, Goto, PoolOpen, ShutdownPCs, RunnerCore, TypeOK, Threads

\* Every other step of the runner is hidden.
LEMMA OtherStepsHidden ==
    ASSUME RunnerCore, [Next]_vars, ~StartExchange, ~ShutdownExchange, ~ShutdownClear,
           \A t \in Threads : ~PassScan(t) /\ ~PassSpawn(t),
           \A t \in Threads : \A e \in Entries : ~AddTask(t, e),
           \A w \in Workers : ~WorkerExit(w)
    PROVE  UNCHANGED <<job, added, managed, toSchedule>> /\ UNCHANGED PoolOpen
<1> USE ThreadsAssumption
        DEF TypeOK, RunnerCore, Threads, Goto, gate, entryVars, locks, passVars, PCs, ShutdownPCs, PoolOpen, RolesInv
<1> DEFINE Hidden == UNCHANGED <<job, added, managed, toSchedule>> /\ UNCHANGED PoolOpen
<1>1. CASE UNCHANGED vars
  BY <1>1 DEF vars
<1>2. ASSUME NEW t \in Threads, Poke(t) \/ AfterAdd(t) PROVE Hidden
  BY <1>2 DEF Poke, AfterAdd, Return, CanCall
<1>3. CASE StartPoller
  BY <1>3 DEF StartPoller
<1>4. CASE ShutdownMark \/ ShutdownNotify \/ ShutdownJoin
  BY <1>4 DEF ShutdownMark, ShutdownNotify, ShutdownJoin
<1>5. CASE ShutdownCheck \/ ShutdownBlock \/ SpuriousWake
  BY <1>5 DEF ShutdownCheck, ShutdownBlock, SpuriousWake
<1>6. CASE PollCheck \/ PollBlock \/ PollWake
  BY <1>6 DEF PollCheck, PollBlock, PollWake
<1>7. ASSUME NEW w \in Workers, WorkerStop(w) \/ WorkerExecute(w) \/ WorkerExecuted(w) PROVE Hidden
  BY <1>7 DEF WorkerStop, WorkerExecute, WorkerExecuted
<1>8. ASSUME NEW w \in Workers, WorkerSignal(w) PROVE Hidden
  BY <1>8 DEF WorkerSignal
<1>9. ASSUME NEW e \in Entries, Reconfigure(e) PROVE Hidden
  BY <1>9 DEF Reconfigure
<1>10. QED
  BY <1>1, <1>2, <1>3, <1>4, <1>5, <1>6, <1>7, <1>8, <1>9
  DEF Next, CalleeStep, OwnerStep, PollerStep, WorkerStep, Terminated

\* A step of the runner is a step of the pool or a stutter.
LEMMA PoolStep ==
    ASSUME Clients = {}, RunnerCore, QuietInv, [Next]_vars
    PROVE  [Pool!Next]_<<PoolOpen, [e \in Entries |-> PoolLife(e)]>>
<1> DEFINE Stutter == UNCHANGED PoolOpen /\ \A e \in Entries : PoolLife(e)' = PoolLife(e)
<1>1. Stutter => UNCHANGED <<PoolOpen, [e \in Entries |-> PoolLife(e)]>>
  OBVIOUS
<1>2. CASE \E t \in Threads : PassSpawn(t)
  BY <1>2, SpawnLaunches DEF Pool!Next
<1>3. CASE \E w \in Workers : WorkerExit(w)
  BY <1>3, ExitFinishes DEF Pool!Next
<1>4. CASE (\A t \in Threads : ~PassSpawn(t)) /\ (\A w \in Workers : ~WorkerExit(w))
  <2>1. Live' = Live
    BY <1>4, LiveStep DEF LiveUnchanged
  <2>2. CASE \E t \in Threads : \E e \in Entries : AddTask(t, e)
    BY <2>1, <2>2, AddTaskAdds DEF Pool!Next
  <2>3. ASSUME NEW t \in Threads, PassScan(t) PROVE Stutter
    <3>1. UNCHANGED PoolOpen
      BY <2>3, ThreadsAssumption
      DEF PassScan, Goto, Return, gate, PoolOpen, ShutdownPCs, RunnerCore, TypeOK, Threads
    <3>2. QED
      BY <2>1, <2>3, <3>1, ScanIsHidden
  <2>4. CASE StartExchange \/ ShutdownExchange
    <3>1. UNCHANGED <<job, added, managed, toSchedule>>
      BY <2>4 DEF StartExchange, ShutdownExchange, entryVars, passVars
    <3>2. \A e \in Entries : PoolLife(e)' = PoolLife(e)
      BY <2>1, <3>1, LivesUnchanged
    <3>3. Pool!Open
      BY <2>4, <3>2, OwnerOpens DEF Pool!Open
    <3>4. QED
      BY <3>3 DEF Pool!Next
  <2>5. CASE ShutdownClear
    BY <2>1, <2>5, ClearCloses DEF Pool!Next
  <2>6. CASE /\ ~StartExchange /\ ~ShutdownExchange /\ ~ShutdownClear
             /\ \A t \in Threads : ~PassScan(t) /\ \A e \in Entries : ~AddTask(t, e)
    <3>1. UNCHANGED <<job, added, managed, toSchedule>> /\ UNCHANGED PoolOpen
      BY <1>4, <2>6, OtherStepsHidden
    <3>2. \A e \in Entries : PoolLife(e)' = PoolLife(e)
      BY <2>1, <3>1, LivesUnchanged
    <3>3. QED
      BY <1>1, <3>1, <3>2
  <2>7. QED
    BY <1>1, <2>2, <2>3, <2>4, <2>5, <2>6
<1>5. QED
  BY <1>2, <1>3, <1>4

\* With the owner and its tasks the only callers, the runner implements the
\* pool: no task is lost, run twice or started after Shutdown() has returned.
THEOREM RunnerImplementsPool ==
    ASSUME Clients = {}
    PROVE  Spec => ImplementsPool
<1>1. Init => Pool!Init
  <2>1. Init => ~PoolOpen
    BY DEF Init, PoolOpen, ShutdownPCs, Threads
  <2>2. Init => [e \in Entries |-> PoolLife(e)] = [e \in Entries |-> "absent"]
    BY DEF Init, PoolLife
  <2>3. QED
    BY <2>1, <2>2 DEF Pool!Init
<1>2. RunnerInv /\ QuietInv /\ [Next]_vars => [Pool!Next]_<<PoolOpen, [e \in Entries |-> PoolLife(e)]>>
  BY PoolStep DEF RunnerInv
<1>3. Init => QuietInv
  BY SetsAssumption DEF Init, QuietInv, Live, LivePCs, Threads
<1>4. RunnerInv /\ QuietInv /\ [Next]_vars => QuietInv'
  BY CountedExactly, QuietStep DEF RunnerInv
<1>5. QED
  BY <1>1, <1>2, <1>3, <1>4, RunnerInvariant, PTL DEF Spec, ImplementsPool, Pool!Spec

-----------------------------------------------------------------------------
(* Threads that cannot be created *)

\* The inductive invariant of FaultySpec.
FaultyInv == RunnerCore /\ failed \in Nat /\ CountedWith(failed)

\* What SpawnFails and PollerFails change.
LEMMA FailuresKeepCore ==
    ASSUME RunnerCore, PollerFails \/ \E t \in Threads : SpawnFails(t)
    PROVE  RunnerCore' /\ Live' = Live
<1> USE SetsAssumption, ThreadsAssumption
        DEF TypeOK, RunnerCore, Threads, Goto, gate, entryVars, locks, passVars, PCs, ShutdownPCs, LivePCs,
            RolesInv, Live
<1>1. CASE PollerFails
  <2> USE <1>1 DEF PollerFails
  <2>1. TypeOK' /\ RolesInv' /\ Live' = Live
    OBVIOUS
  <2>2. LocksInv' /\ PollerInv'
    BY DEF LocksInv, PollerInv
  <2>3. DoneInv' /\ CompletedInv'
    BY DEF DoneInv, CompletedInv
  <2>4. ClaimsInv'
    BY DEF ClaimsInv, OneWorkerPerEntry
  <2>5. QED
    BY <2>1, <2>2, <2>3, <2>4
<1>2. ASSUME NEW t \in Threads, SpawnFails(t) PROVE RunnerCore' /\ Live' = Live
  <2> USE <1>2 DEF SpawnFails, Return
  <2>1. TypeOK' /\ RolesInv'
    OBVIOUS
  <2>2. Live' = Live
    OBVIOUS
  <2>3. LocksInv' /\ PollerInv'
    BY DEF LocksInv, PollerInv
  <2>4. DoneInv' /\ CompletedInv'
    BY DEF DoneInv, CompletedInv
  <2>5. ClaimsInv'
    BY DEF ClaimsInv, OneWorkerPerEntry
  <2>6. QED
    BY <2>1, <2>2, <2>3, <2>4, <2>5
<1>3. QED
  BY <1>1, <1>2

LEMMA FaultyStep ==
    ASSUME FaultyInv, [FaultyNext]_<<vars, faultVars>>
    PROVE  FaultyInv'
<1>1. PICK n \in Nat : n = failed /\ CountedWith(n)
  BY DEF FaultyInv
<1>2. CASE [Next]_vars /\ UNCHANGED failed
  <2>1. RunnerCore' /\ CountedWith(n)'
    BY <1>1, <1>2, CoreStep, CountStep DEF FaultyInv
  <2>2. QED
    BY <1>1, <1>2, <2>1 DEF FaultyInv, CountedWith
<1>3. CASE PollerFails
  BY <1>3, FailuresKeepCore DEF FaultyInv, CountedWith, PollerFails, passVars
<1>4. ASSUME NEW t \in Threads, SpawnFails(t) PROVE FaultyInv'
  <2>1. RunnerCore' /\ Live' = Live /\ active' = active + 1 /\ failed' = failed + 1
    BY <1>4, FailuresKeepCore DEF FaultyInv, SpawnFails
  <2>2. (IsFiniteSet(Live) /\ Cardinality(Live) \in Nat)
    BY SetsAssumption, FS_Subset, FS_CardinalityType DEF Live
  <2>3. Cardinality(Live)' = Cardinality(Live)
    BY <2>1
  <2>4. active' = Cardinality(Live) + failed'
    BY <2>1, <2>2 DEF FaultyInv, CountedWith
  <2>5. failed' \in Nat
    BY <2>1 DEF FaultyInv
  <2>6. CountedWith(failed)'
    BY <2>3, <2>4 DEF CountedWith
  <2>7. QED
    BY <2>1, <2>5, <2>6 DEF FaultyInv
<1>5. QED
  BY <1>2, <1>3, <1>4 DEF FaultyNext, NoFault, faultVars

LEMMA FaultyInvariant == FaultySpec => []FaultyInv
<1>1. FaultyInit => FaultyInv
  <2>1. FaultyInit => RunnerInv /\ failed = 0
    BY InitEstablishes DEF FaultyInit
  <2>2. QED
    BY <2>1, CountedExactly DEF RunnerInv, FaultyInv
<1>2. FaultyInv /\ [FaultyNext]_<<vars, faultVars>> => FaultyInv'
  BY FaultyStep
<1>3. QED
  BY <1>1, <1>2, PTL DEF FaultySpec

\* No entry gets two workers, whatever cannot be created.
THEOREM OneWorkerDespiteFailures == FaultySpec => []OneWorkerPerEntry
<1>1. FaultyInv => OneWorkerPerEntry
  BY DEF FaultyInv, RunnerCore, ClaimsInv
<1>2. QED
  BY <1>1, FaultyInvariant, PTL

\* With the owner the only caller: nothing runs between Shutdown() and Start,
\* and an entry some Pass() holds is still in the vector.
HeldInv == \A t \in Threads : toSchedule[t] \subseteq managed

LEMMA FailuresKeepQuiet ==
    ASSUME RunnerCore, QuietInv, PollerFails \/ \E t \in Threads : SpawnFails(t)
    PROVE  QuietInv'
<1>1. Live' = Live
  BY FailuresKeepCore
<1> USE SetsAssumption, ThreadsAssumption
        DEF RunnerCore, TypeOK, RolesInv, PollerInv, QuietInv, Threads, Goto, gate, ShutdownPCs
<1>2. CASE PollerFails
  BY <1>1, <1>2 DEF PollerFails
<1>3. ASSUME NEW t \in Threads, SpawnFails(t) PROVE QuietInv'
  <2>1. running' = running /\ (pc'[Owner] # pc[Owner] => t = Owner)
    BY <1>3 DEF SpawnFails
  <2>2. t = Owner => running
    BY <1>3 DEF SpawnFails
  <2>3. QED
    BY <1>1, <2>1, <2>2
<1>4. QED
  BY <1>2, <1>3

LEMMA QuietFaultyStep ==
    ASSUME Clients = {}, FaultyInv, QuietInv, [FaultyNext]_<<vars, faultVars>>
    PROVE  QuietInv'
<1>1. PICK n \in Nat : n = failed /\ CountedWith(n)
  BY DEF FaultyInv
<1>2. CASE [Next]_vars
  BY <1>1, <1>2, QuietStep DEF FaultyInv
<1>3. CASE PollerFails \/ \E t \in Threads : SpawnFails(t)
  BY <1>3, FailuresKeepQuiet DEF FaultyInv
<1>4. QED
  BY <1>2, <1>3 DEF FaultyNext, NoFault

\* A runner that is not running has no live worker, whatever could not be created.
THEOREM QuietDespiteFailures ==
    ASSUME Clients = {}
    PROVE  FaultySpec => []QuietInv
<1>1. FaultyInit => QuietInv
  BY SetsAssumption DEF FaultyInit, Init, QuietInv, Live, LivePCs, Threads
<1>2. FaultyInv /\ QuietInv /\ [FaultyNext]_<<vars, faultVars>> => QuietInv'
  BY QuietFaultyStep
<1>3. QED
  BY <1>1, <1>2, FaultyInvariant, PTL DEF FaultySpec

\* A Shutdown() that returns leaves no worker and no poll thread behind, whatever
\* could not be created: where that loses a count, Shutdown() does not return.
THEOREM ShutdownQuietDespiteFailures ==
    ASSUME Clients = {}
    PROVE  FaultySpec => []ShutdownQuiescent
<1>1. FaultyInv /\ QuietInv => ShutdownQuiescent
  BY DEF FaultyInv, RunnerCore, PollerInv, QuietInv, ShutdownQuiescent
<1>2. QED
  BY <1>1, FaultyInvariant, QuietDespiteFailures, PTL

\* Which steps touch the vector, the claims and the scheduled flags.
LEMMA OnlyPassesSchedule ==
    ASSUME [Next]_vars,
           \A t \in Threads : ~PassScan(t), \A t \in Threads : \A e \in Entries : ~AddTask(t, e)
    PROVE  UNCHANGED scheduled
<1> USE DEF entryVars
<1>1. CASE UNCHANGED vars
  BY <1>1 DEF vars
<1>2. ASSUME NEW t \in Threads, Poke(t) \/ AfterAdd(t) \/ PassSpawn(t) PROVE UNCHANGED scheduled
  BY <1>2 DEF Poke, AfterAdd, PassSpawn
<1>3. CASE StartExchange \/ StartPoller \/ ShutdownExchange \/ ShutdownMark \/ ShutdownNotify
  BY <1>3 DEF StartExchange, StartPoller, ShutdownExchange, ShutdownMark, ShutdownNotify
<1>4. CASE ShutdownJoin \/ ShutdownCheck \/ ShutdownBlock \/ SpuriousWake \/ ShutdownClear
  BY <1>4 DEF ShutdownJoin, ShutdownCheck, ShutdownBlock, SpuriousWake, ShutdownClear
<1>5. CASE PollCheck \/ PollBlock \/ PollWake
  BY <1>5 DEF PollCheck, PollBlock, PollWake
<1>6. ASSUME NEW w \in Workers, WorkerStop(w) \/ WorkerExecute(w) \/ WorkerExecuted(w)
      PROVE  UNCHANGED scheduled
  BY <1>6 DEF WorkerStop, WorkerExecute, WorkerExecuted
<1>7. ASSUME NEW w \in Workers, WorkerExit(w) \/ WorkerSignal(w) PROVE UNCHANGED scheduled
  BY <1>7 DEF WorkerExit, WorkerSignal
<1>8. ASSUME NEW e \in Entries, Reconfigure(e) PROVE UNCHANGED scheduled
  BY <1>8 DEF Reconfigure
<1>9. QED
  BY <1>1, <1>2, <1>3, <1>4, <1>5, <1>6, <1>7, <1>8
  DEF Next, CalleeStep, OwnerStep, PollerStep, WorkerStep, Terminated, Threads

LEMMA OnlyTheseTouchClaims ==
    ASSUME RunnerCore, [Next]_vars, ~ShutdownClear,
           \A t \in Threads : ~PassScan(t) /\ ~PassSpawn(t),
           \A t \in Threads : \A e \in Entries : ~AddTask(t, e)
    PROVE  UNCHANGED <<job, managed, toSchedule>>
<1>1. CASE StartExchange \/ ShutdownExchange
  BY <1>1 DEF StartExchange, ShutdownExchange, entryVars, passVars
<1>2. CASE \E w \in Workers : WorkerExit(w)
  BY <1>2 DEF WorkerExit, entryVars
<1>3. CASE ~StartExchange /\ ~ShutdownExchange /\ \A w \in Workers : ~WorkerExit(w)
  BY <1>3, OtherStepsHidden
<1>4. QED
  BY <1>1, <1>2, <1>3

\* A step of the runner, whether or not threads may fail to be created.
RunnerOrFault == [Next]_vars \/ PollerFails \/ \E t \in Threads : SpawnFails(t)

LEMMA FaultyIsRunnerOrFault ==
    ASSUME [FaultyNext]_<<vars, faultVars>> PROVE RunnerOrFault
BY DEF FaultyNext, NoFault, RunnerOrFault

\* An entry some Pass() holds is still in the vector: a scan erases only what a
\* worker has completed, and Shutdown() clears when no Pass() is under way.
LEMMA HeldStep ==
    ASSUME Clients = {}, RunnerCore, QuietInv, HeldInv, RunnerOrFault
    PROVE  HeldInv'
<1> USE SetsAssumption, ThreadsAssumption DEF HeldInv
<1>1. ASSUME NEW t \in Threads, NEW e \in Entries, AddTask(t, e) PROVE HeldInv'
  BY <1>1 DEF AddTask, passVars
<1>2. ASSUME NEW t \in Threads, PassScan(t) PROVE HeldInv'
  <2>1. managed' = Kept /\ toSchedule' = [toSchedule EXCEPT ![t] = Claimed]
    BY <1>2 DEF PassScan
  <2>2. \A u \in Threads : toSchedule[u] \subseteq Kept
    BY DEF Kept, RunnerCore, TypeOK, ClaimsInv, CompletedInv
  <2>3. \A u \in Threads : toSchedule'[u] \in {toSchedule[u], Claimed}
    BY <2>1 DEF RunnerCore, TypeOK
  <2>4. QED
    BY <2>1, <2>2, <2>3 DEF Claimed
<1>3. ASSUME NEW t \in Threads, PassSpawn(t) PROVE HeldInv'
  BY <1>3 DEF PassSpawn, entryVars, RunnerCore, TypeOK
<1>4. CASE ShutdownClear
  <2>1. pc[Owner] = "clear" /\ UNCHANGED toSchedule
    BY <1>4 DEF ShutdownClear, passVars
  <2>2. ~running /\ Live = {} /\ pc[Poller] = "idle"
    BY <2>1 DEF RunnerCore, PollerInv, QuietInv, ShutdownPCs
  <2>3. \A u \in Threads : toSchedule[u] = {}
    BY <2>1, <2>2 DEF RunnerCore, ClaimsInv, Threads, Live, LivePCs
  <2>4. QED
    BY <2>1, <2>3
<1>5. CASE PollerFails
  BY <1>5 DEF PollerFails, entryVars, passVars
<1>6. ASSUME NEW t \in Threads, SpawnFails(t) PROVE HeldInv'
  BY <1>6 DEF SpawnFails, entryVars, RunnerCore, TypeOK
<1>7. CASE /\ [Next]_vars /\ ~ShutdownClear
           /\ \A t \in Threads : ~PassScan(t) /\ ~PassSpawn(t)
           /\ \A t \in Threads : \A e \in Entries : ~AddTask(t, e)
  BY <1>7, OnlyTheseTouchClaims
<1>8. QED
  BY <1>1, <1>2, <1>3, <1>4, <1>5, <1>6, <1>7 DEF RunnerOrFault

LEMMA HeldInvariant ==
    ASSUME Clients = {}
    PROVE  FaultySpec => []HeldInv
<1>1. FaultyInit => HeldInv
  BY DEF FaultyInit, Init, HeldInv
<1>2. FaultyInv /\ QuietInv /\ HeldInv /\ [FaultyNext]_<<vars, faultVars>> => HeldInv'
  BY FaultyIsRunnerOrFault, HeldStep DEF FaultyInv
<1>3. QED
  BY <1>1, <1>2, FaultyInvariant, QuietDespiteFailures, PTL DEF FaultySpec

\* The pool sees nothing of a failure: what the pass held stays queued in the
\* vector, until some Shutdown() discards it.
LEMMA FailuresHidden ==
    ASSUME RunnerCore, HeldInv, PollerFails \/ \E t \in Threads : SpawnFails(t)
    PROVE  UNCHANGED <<PoolOpen, [e \in Entries |-> PoolLife(e)]>>
<1>1. Live' = Live /\ UNCHANGED <<job, added, managed, running>>
  BY FailuresKeepCore DEF PollerFails, SpawnFails, gate, entryVars, passVars
<1>2. \A u \in Threads : toSchedule[u] \subseteq managed /\ toSchedule'[u] \subseteq managed
  BY DEF HeldInv, PollerFails, SpawnFails, passVars, RunnerCore, TypeOK
<1>3. \A e \in Entries : Waiting(e)' <=> Waiting(e)
  BY <1>1, <1>2 DEF Waiting
<1>4. \A e \in Entries : PoolLife(e)' = PoolLife(e)
  BY <1>1, <1>3, SameLife DEF Busy, Given
<1>5. UNCHANGED PoolOpen
  <2> USE SetsAssumption, ThreadsAssumption
          DEF RunnerCore, TypeOK, RolesInv, PollerInv, Threads, Goto, gate, ShutdownPCs, PoolOpen
  <2>1. CASE PollerFails
    BY <1>1, <2>1 DEF PollerFails
  <2>2. ASSUME NEW t \in Threads, SpawnFails(t) PROVE UNCHANGED PoolOpen
    <3>1. pc'[Owner] # pc[Owner] => t = Owner
      BY <2>2 DEF SpawnFails
    <3>2. t = Owner => running
      BY <2>2 DEF SpawnFails
    <3>3. QED
      BY <1>1, <3>1, <3>2
  <2>3. QED
    BY <2>1, <2>2
<1>6. QED
  BY <1>4, <1>5

\* The runner implements the pool also when threads cannot be created: an entry
\* whose worker failed is one that nobody took before the pool was closed.
THEOREM FaultyRunnerImplementsPool ==
    ASSUME Clients = {}
    PROVE  FaultySpec => ImplementsPool
<1>1. FaultyInit => Pool!Init
  <2>1. Init => ~PoolOpen
    BY DEF Init, PoolOpen, ShutdownPCs, Threads
  <2>2. Init => [e \in Entries |-> PoolLife(e)] = [e \in Entries |-> "absent"]
    BY DEF Init, PoolLife
  <2>3. QED
    BY <2>1, <2>2 DEF FaultyInit, Pool!Init
<1>2. FaultyInv /\ QuietInv /\ HeldInv /\ [FaultyNext]_<<vars, faultVars>>
          => [Pool!Next]_<<PoolOpen, [e \in Entries |-> PoolLife(e)]>>
  <2>1. ASSUME FaultyInv, QuietInv, HeldInv, [FaultyNext]_<<vars, faultVars>>
        PROVE  [Pool!Next]_<<PoolOpen, [e \in Entries |-> PoolLife(e)]>>
    <3>1. CASE [Next]_vars
      BY <2>1, <3>1, PoolStep DEF FaultyInv
    <3>2. CASE PollerFails \/ \E t \in Threads : SpawnFails(t)
      BY <2>1, <3>2, FailuresHidden DEF FaultyInv
    <3>3. QED
      BY <2>1, <3>1, <3>2 DEF FaultyNext, NoFault
  <2>2. QED
    BY <2>1
<1>3. QED
  BY <1>1, <1>2, FaultyInvariant, QuietDespiteFailures, HeldInvariant, PTL
  DEF FaultySpec, ImplementsPool, Pool!Spec

\* What OnlyFailuresLose says of the entries, of Shutdown() and of the poll
\* thread, each inductive with the invariants above.
ClaimedInv ==
    failed = 0 => \A e \in managed :
        scheduled[e] => Given(e) \/ \E t \in Threads : e \in toSchedule[t]

HangsInv == failed > 0 => pc[Owner] \notin {"clear", "destroyed"}

PolledInv ==
    /\ unpolled => running
    /\ running /\ ~unpolled => pc[Poller] # "idle" \/ pc[Owner] = "launch"

LEMMA ClaimedStep ==
    ASSUME FaultyInv, ClaimedInv, [FaultyNext]_<<vars, faultVars>>
    PROVE  ClaimedInv'
<1> USE SetsAssumption DEF ClaimedInv
<1>1. ASSUME [Next]_vars, UNCHANGED failed PROVE ClaimedInv'
  <2>1. ASSUME NEW t \in Threads, NEW e \in Entries, AddTask(t, e) PROVE ClaimedInv'
    <3>1. /\ managed' = managed \cup {e} /\ scheduled' = [scheduled EXCEPT ![e] = FALSE]
          /\ UNCHANGED <<job, toSchedule>>
      BY <2>1 DEF AddTask, passVars
    <3>2. \A x \in Entries : Given(x)' <=> Given(x)
      BY <3>1 DEF Given
    <3>3. \A x \in managed' : scheduled'[x] => x \in managed /\ scheduled[x]
      BY <3>1 DEF FaultyInv, RunnerCore, TypeOK
    <3>4. managed' \subseteq Entries
      BY <3>1 DEF FaultyInv, RunnerCore, TypeOK
    <3>5. QED
      BY <1>1, <3>1, <3>2, <3>3, <3>4
  <2>2. ASSUME NEW t \in Threads, PassScan(t) PROVE ClaimedInv'
    <3>1. /\ managed' = Kept /\ scheduled' = [e \in Entries |-> scheduled[e] \/ e \in Claimed]
          /\ toSchedule' = [toSchedule EXCEPT ![t] = Claimed] /\ pc[t] = "scan" /\ UNCHANGED job
      BY <2>2 DEF PassScan
    <3>2. toSchedule[t] = {}
      BY <3>1 DEF FaultyInv, RunnerCore, ClaimsInv
    <3>3. \A u \in Threads : toSchedule'[u] = IF u = t THEN Claimed ELSE toSchedule[u]
      BY <3>1 DEF FaultyInv, RunnerCore, TypeOK
    <3>4. \A x \in managed' : x \in managed /\ x \in Entries /\ (scheduled'[x] => scheduled[x] \/ x \in Claimed)
      BY <3>1 DEF Kept, FaultyInv, RunnerCore, TypeOK
    <3>5. \A x \in Entries : Given(x)' <=> Given(x)
      BY <3>1 DEF Given
    <3>6. QED
      BY <1>1, <3>2, <3>3, <3>4, <3>5
  <2>3. ASSUME NEW t \in Threads, PassSpawn(t) PROVE ClaimedInv'
    <3>1. NewThread \in Workers /\ pc[NewThread] = "idle"
      BY <2>3, NewThreadIsFresh DEF PassSpawn
    <3>2. PICK e \in toSchedule[t] :
            /\ job' = [job EXCEPT ![NewThread] = e]
            /\ toSchedule' = [toSchedule EXCEPT ![t] = toSchedule[t] \ {e}]
            /\ UNCHANGED <<managed, scheduled>>
      BY <2>3 DEF PassSpawn, entryVars
    <3>3. job[NewThread] = None
      BY <3>1 DEF FaultyInv, RunnerCore, ClaimsInv
    <3>4. \A x \in Entries : Given(x) \/ x = e => Given(x)'
      BY <3>1, <3>2, <3>3 DEF Given, FaultyInv, RunnerCore, TypeOK
    <3>5. \A u \in Threads : toSchedule[u] \subseteq toSchedule'[u] \cup {e}
      BY <3>2 DEF FaultyInv, RunnerCore, TypeOK
    <3>6. managed \subseteq Entries
      BY DEF FaultyInv, RunnerCore, TypeOK
    <3>7. QED
      BY <1>1, <3>2, <3>4, <3>5, <3>6
  <2>4. CASE ShutdownClear
    BY <2>4 DEF ShutdownClear
  <2>5. CASE /\ ~ShutdownClear /\ \A t \in Threads : ~PassScan(t) /\ ~PassSpawn(t)
             /\ \A t \in Threads : \A e \in Entries : ~AddTask(t, e)
    <3>1. UNCHANGED <<job, managed, toSchedule, scheduled>>
      BY <1>1, <2>5, OnlyTheseTouchClaims, OnlyPassesSchedule DEF FaultyInv
    <3>2. QED
      BY <1>1, <3>1 DEF Given
  <2>6. QED
    BY <2>1, <2>2, <2>3, <2>4, <2>5
<1>2. CASE PollerFails
  BY <1>2 DEF PollerFails, entryVars, passVars, Given
<1>3. CASE \E t \in Threads : SpawnFails(t)
  BY <1>3 DEF SpawnFails, FaultyInv
<1>4. QED
  BY <1>1, <1>2, <1>3 DEF FaultyNext, NoFault, faultVars

\* While a thread spawns Shutdown() is not past its wait, and with a count lost
\* it never gets past it.
LEMMA HangsStep ==
    ASSUME Clients = {}, FaultyInv, QuietInv, HangsInv, [FaultyNext]_<<vars, faultVars>>
    PROVE  HangsInv'
<1> USE SetsAssumption, ThreadsAssumption DEF HangsInv
<1>1. pc \in [Threads -> PCs] /\ Owner \in Threads /\ RunnerCore
  BY DEF FaultyInv, RunnerCore, TypeOK, Threads
<1>2. ASSUME NEW t \in Threads, SpawnFails(t) PROVE HangsInv'
  <2>1. pc[t] = "spawn" /\ pc' \in {pc, [pc EXCEPT ![t] = Return(t)]} /\ UNCHANGED running
    BY <1>2 DEF SpawnFails, Goto, gate
  <2>2. pc[Owner] \notin {"clear", "destroyed"}
    <3>1. ~running /\ pc[Owner] \in {"clear", "destroyed"} => Live = {} /\ pc[Poller] = "idle"
      BY <1>1 DEF QuietInv, RunnerCore, PollerInv
    <3>2. pc[Owner] \in {"clear", "destroyed"} => ~running
      BY <1>1 DEF RunnerCore, PollerInv, ShutdownPCs
    <3>3. t \in Workers => t \in Live
      BY <2>1 DEF Live, LivePCs
    <3>4. QED
      BY <2>1, <3>1, <3>2, <3>3 DEF Threads
  <2>3. pc'[Owner] \in {pc[Owner], "idle"}
    BY <1>1, <2>1 DEF Return, Threads
  <2>4. QED
    BY <2>2, <2>3
<1>3. CASE PollerFails
  BY <1>1, <1>3 DEF PollerFails, Goto
<1>4. ASSUME [Next]_vars, UNCHANGED failed PROVE HangsInv'
  <2>1. SUFFICES ASSUME failed > 0, pc[Owner] \notin {"clear", "destroyed"}
                 PROVE  pc'[Owner] \notin {"clear", "destroyed"}
    BY <1>4
  <2>2. active # 0
    <3>1. IsFiniteSet(Live) /\ Cardinality(Live) \in Nat
      BY FS_Subset, FS_CardinalityType DEF Live
    <3>2. QED
      BY <2>1, <3>1 DEF FaultyInv, CountedWith
  <2> USE <1>1, <2>1 DEF Goto
  <2>3. CASE UNCHANGED vars
    BY <2>3 DEF vars
  <2>4. ASSUME NEW t \in Threads, Poke(t) \/ AfterAdd(t) PROVE pc'[Owner] \notin {"clear", "destroyed"}
    BY <2>4 DEF Poke, AfterAdd, Return
  <2>5. ASSUME NEW t \in Threads, NEW e \in Entries, AddTask(t, e) PROVE pc'[Owner] \notin {"clear", "destroyed"}
    BY <2>5 DEF AddTask
  <2>6. ASSUME NEW t \in Threads, PassScan(t) PROVE pc'[Owner] \notin {"clear", "destroyed"}
    BY <2>6 DEF PassScan, Return
  <2>7. ASSUME NEW t \in Threads, PassSpawn(t) PROVE pc'[Owner] \notin {"clear", "destroyed"}
    <3>1. NewThread \in Workers /\ pc[NewThread] = "idle"
      BY <2>7, NewThreadIsFresh DEF PassSpawn
    <3>2. QED
      BY <2>7, <3>1 DEF PassSpawn, Return
  <2>8. CASE StartExchange \/ StartPoller \/ ShutdownExchange \/ ShutdownMark
    BY <2>8 DEF StartExchange, StartPoller, ShutdownExchange, ShutdownMark
  <2>9. CASE ShutdownNotify \/ ShutdownJoin \/ ShutdownBlock \/ SpuriousWake
    BY <2>9 DEF ShutdownNotify, ShutdownJoin, ShutdownBlock, SpuriousWake
  <2>10. CASE ShutdownCheck
    BY <2>2, <2>10 DEF ShutdownCheck
  <2>11. CASE ShutdownClear
    BY <2>11 DEF ShutdownClear
  <2>12. CASE PollCheck \/ PollBlock \/ PollWake
    BY <2>12 DEF PollCheck, PollBlock, PollWake
  <2>13. ASSUME NEW w \in Workers, WorkerStop(w) \/ WorkerExecute(w) \/ WorkerExecuted(w)
         PROVE  pc'[Owner] \notin {"clear", "destroyed"}
    BY <2>13 DEF WorkerStop, WorkerExecute, WorkerExecuted, Threads
  <2>14. ASSUME NEW w \in Workers, WorkerExit(w) \/ WorkerSignal(w) PROVE pc'[Owner] \notin {"clear", "destroyed"}
    BY <2>14 DEF WorkerExit, WorkerSignal, Threads
  <2>15. ASSUME NEW e \in Entries, Reconfigure(e) PROVE pc'[Owner] \notin {"clear", "destroyed"}
    BY <2>15 DEF Reconfigure
  <2>16. QED
    BY <1>4, <2>3, <2>4, <2>5, <2>6, <2>7, <2>8, <2>9, <2>10, <2>11, <2>12, <2>13, <2>14, <2>15
    DEF Next, CalleeStep, OwnerStep, PollerStep, WorkerStep, Terminated, Threads
<1>5. QED
  BY <1>2, <1>3, <1>4 DEF FaultyNext, NoFault, faultVars

LEMMA PolledStep ==
    ASSUME FaultyInv, PolledInv, [FaultyNext]_<<vars, faultVars>>
    PROVE  PolledInv'
<1> USE SetsAssumption, ThreadsAssumption DEF PolledInv
<1> DEFINE Polls == running' => \/ running /\ pc[Poller] = "idle" /\ pc[Owner] # "launch"
                               \/ pc'[Poller] # "idle" \/ pc'[Owner] = "launch"
<1>1. pc \in [Threads -> PCs] /\ {Owner, Poller} \subseteq Threads /\ RunnerCore
  BY DEF FaultyInv, RunnerCore, TypeOK, Threads
<1>2. ASSUME NEW t \in Threads, SpawnFails(t) PROVE PolledInv'
  BY <1>1, <1>2 DEF SpawnFails, Goto, gate, Return
<1>3. CASE PollerFails
  BY <1>1, <1>3 DEF PollerFails, gate, RunnerCore, PollerInv
<1>4. ASSUME [Next]_vars PROVE Polls
  <2> USE <1>1 DEF Goto, gate
  <2>1. CASE UNCHANGED vars
    BY <2>1 DEF vars
  <2>2. ASSUME NEW t \in Threads, Poke(t) \/ AfterAdd(t) PROVE Polls
    BY <2>2 DEF Poke, AfterAdd, Return, CanCall
  <2>3. ASSUME NEW t \in Threads, NEW e \in Entries, AddTask(t, e) PROVE Polls
    BY <2>3 DEF AddTask, CanCall
  <2>4. ASSUME NEW t \in Threads, PassScan(t) PROVE Polls
    BY <2>4 DEF PassScan, Return
  <2>5. ASSUME NEW t \in Threads, PassSpawn(t) PROVE Polls
    <3>1. NewThread \in Workers /\ pc[NewThread] = "idle"
      BY <2>5, NewThreadIsFresh DEF PassSpawn
    <3>2. QED
      BY <2>5, <3>1 DEF PassSpawn, Return
  <2>6. CASE StartExchange \/ StartPoller
    BY <2>6 DEF StartExchange, StartPoller
  <2>7. CASE ShutdownExchange \/ ShutdownMark \/ ShutdownNotify \/ ShutdownJoin
    BY <2>7 DEF ShutdownExchange, ShutdownMark, ShutdownNotify, ShutdownJoin, RunnerCore, PollerInv, ShutdownPCs
  <2>8. CASE ShutdownCheck \/ ShutdownBlock \/ SpuriousWake \/ ShutdownClear
    BY <2>8 DEF ShutdownCheck, ShutdownBlock, SpuriousWake, ShutdownClear
  <2>9. CASE PollCheck \/ PollBlock \/ PollWake
    BY <2>9 DEF PollCheck, PollBlock, PollWake
  <2>10. ASSUME NEW w \in Workers, WorkerStop(w) \/ WorkerExecute(w) \/ WorkerExecuted(w) PROVE Polls
    BY <2>10 DEF WorkerStop, WorkerExecute, WorkerExecuted
  <2>11. ASSUME NEW w \in Workers, WorkerExit(w) \/ WorkerSignal(w) PROVE Polls
    BY <2>11 DEF WorkerExit, WorkerSignal
  <2>12. ASSUME NEW e \in Entries, Reconfigure(e) PROVE Polls
    BY <2>12 DEF Reconfigure
  <2>13. QED
    BY <1>4, <2>1, <2>2, <2>3, <2>4, <2>5, <2>6, <2>7, <2>8, <2>9, <2>10, <2>11, <2>12
    DEF Next, CalleeStep, OwnerStep, PollerStep, WorkerStep, Terminated, Threads
<1>5. ASSUME NoFault PROVE PolledInv'
  <2>1. Polls
    BY <1>4, <1>5 DEF NoFault
  <2>2. unpolled' = (unpolled /\ running')
    BY <1>5 DEF NoFault
  <2>3. QED
    BY <2>1, <2>2
<1>6. CASE UNCHANGED <<vars, faultVars>>
  BY <1>6 DEF vars, gate, faultVars
<1>7. QED
  BY <1>2, <1>3, <1>5, <1>6 DEF FaultyNext

\* With the owner and its tasks the only callers: a count, an entry or the poll
\* thread goes missing only where a thread could not be created, and a lost count
\* holds every Shutdown() at its wait.
THEOREM FailuresAreTheOnlyLoss ==
    ASSUME Clients = {}
    PROVE  FaultySpec => []OnlyFailuresLose
<1>1. FaultyInit => ClaimedInv /\ HangsInv /\ PolledInv
  BY DEF FaultyInit, Init, ClaimedInv, HangsInv, PolledInv
<1>2. /\ FaultyInv /\ QuietInv /\ ClaimedInv /\ HangsInv /\ PolledInv
      /\ [FaultyNext]_<<vars, faultVars>>
      => (ClaimedInv /\ HangsInv /\ PolledInv)'
  BY ClaimedStep, HangsStep, PolledStep
<1>3. FaultyInv /\ ClaimedInv /\ HangsInv /\ PolledInv => OnlyFailuresLose
  BY DEF FaultyInv, CountedWith, ClaimedInv, HangsInv, PolledInv, OnlyFailuresLose
<1>4. QED
  BY <1>1, <1>2, <1>3, FaultyInvariant, QuietDespiteFailures, PTL DEF FaultySpec

-----------------------------------------------------------------------------
(* The stop flags reach every worker *)

\* With StopReachesWorkers inductive when neither clients nor tasks call: a task
\* that is at work or about to be is in the vector and not completed, so that
\* the marking finds it; and from the marking on, or from the exchange on when
\* the runner was not running and nothing is left, it stays found.
ToldInv ==
    /\ \A w \in Workers : pc[w] \notin {"added", "scan", "spawn"}
    /\ \A w \in Workers : pc[w] \in {"head", "exec"} =>
           job[w] \in managed /\ status[job[w]] # "Completed"
    /\ pc[Owner] \in ShutdownPCs \ {"mark"} =>
           (\A e \in managed : stop[e]) \/ (Live = {} /\ pc[Poller] = "idle")

LEMMA ToldStep ==
    ASSUME Clients = {}, Reentrant = {}, RunnerCore, QuietInv, HeldInv, ToldInv, RunnerOrFault
    PROVE  ToldInv'
<1> USE SetsAssumption, ThreadsAssumption
        DEF TypeOK, RunnerCore, Threads, Goto, gate, entryVars, locks, passVars, PCs,
            ShutdownPCs, LivePCs, Live, RolesInv
<1>1. CASE UNCHANGED vars
  BY <1>1 DEF vars, ToldInv
<1>2. ASSUME NEW t \in Threads, Poke(t) \/ AfterAdd(t) PROVE ToldInv'
  BY <1>2 DEF Poke, AfterAdd, Return, CanCall, ToldInv, PollerInv
<1>3. ASSUME NEW t \in Threads, NEW e \in Entries, AddTask(t, e) PROVE ToldInv'
  BY <1>3 DEF AddTask, CanCall, ToldInv, ClaimsInv
<1>4. ASSUME NEW t \in Threads, PassScan(t) PROVE ToldInv'
  BY <1>4 DEF PassScan, Return, ToldInv, Kept
<1>5. ASSUME NEW t \in Threads, PassSpawn(t) PROVE ToldInv'
  <2>1. NewThread \in Workers /\ pc[NewThread] = "idle"
    BY <1>5, NewThreadIsFresh DEF PassSpawn
  <2>2. PICK e \in toSchedule[t] : job' = [job EXCEPT ![NewThread] = e]
    BY <1>5 DEF PassSpawn
  <2>3. e \in managed /\ status[e] # "Completed"
    BY <2>2 DEF HeldInv, ClaimsInv, CompletedInv
  <2>4. t \in {Owner, Poller} /\ pc[t] = "spawn"
    BY <1>5 DEF PassSpawn, ToldInv
  <2>5. /\ UNCHANGED <<managed, status, stop>>
        /\ \A w \in Workers : w # NewThread => pc'[w] = pc[w] /\ job'[w] = job[w]
        /\ pc'[NewThread] = "head" /\ job'[NewThread] = e
        /\ pc'[Owner] \in {pc[Owner], "idle", "spawn"} /\ (t = Poller => pc'[Owner] = pc[Owner])
    BY <1>5, <2>1, <2>2, <2>4 DEF PassSpawn, Return
  <2>6. pc'[Owner] \in ShutdownPCs \ {"mark"} => t = Poller /\ pc[Owner] = pc'[Owner]
    BY <2>4, <2>5
  <2>7. QED
    BY <2>3, <2>4, <2>5, <2>6 DEF ToldInv
<1>6. CASE StartExchange \/ StartPoller
  BY <1>6 DEF StartExchange, StartPoller, ToldInv
<1>7. CASE ShutdownExchange
  BY <1>7 DEF ShutdownExchange, ToldInv, QuietInv, PollerInv
<1>8. CASE ShutdownMark \/ ShutdownNotify \/ ShutdownJoin
  <2>1. CASE ShutdownMark
    <3>1. \A e \in managed' : stop'[e]
      BY <2>1 DEF ShutdownMark
    <3>2. UNCHANGED <<managed, status, job>> /\ \A w \in Workers : pc'[w] = pc[w]
      BY <2>1 DEF ShutdownMark
    <3>3. QED
      BY <3>1, <3>2 DEF ToldInv
  <2>2. CASE ShutdownNotify \/ ShutdownJoin
    BY <2>2 DEF ShutdownNotify, ShutdownJoin, ToldInv
  <2>3. QED
    BY <1>8, <2>1, <2>2
<1>9. CASE ShutdownCheck \/ ShutdownBlock \/ SpuriousWake
  BY <1>9 DEF ShutdownCheck, ShutdownBlock, SpuriousWake, ToldInv
<1>10. CASE ShutdownClear
  BY <1>10 DEF ShutdownClear, ToldInv, QuietInv, PollerInv
<1>11. CASE PollCheck \/ PollBlock \/ PollWake
  BY <1>11 DEF PollCheck, PollBlock, PollWake, ToldInv
<1>12. ASSUME NEW w \in Workers, WorkerStop(w) \/ WorkerExecute(w) \/ WorkerExecuted(w) PROVE ToldInv'
  <2>1. \A v \in Workers : v # w /\ pc[v] \in {"head", "exec"} => job[v] # job[w]
    BY DEF ClaimsInv, OneWorkerPerEntry
  <2>2. job[w] \in Entries
    BY <1>12 DEF WorkerStop, WorkerExecute, WorkerExecuted, ClaimsInv
  <2>3. /\ UNCHANGED <<managed, stop, job>>
        /\ status' = [status EXCEPT ![job[w]] = status'[job[w]]]
        /\ pc' = [pc EXCEPT ![w] = pc'[w]]
        /\ pc[w] \in {"head", "exec"} /\ pc'[w] \in {"head", "exec", "exit"}
        /\ pc'[w] # "exit" => status'[job[w]] # "Completed"
    BY <1>12, <2>2 DEF WorkerStop, WorkerExecute, WorkerExecuted
  <2>4. QED
    BY <2>1, <2>2, <2>3 DEF ToldInv
<1>13. ASSUME NEW w \in Workers, WorkerExit(w) \/ WorkerSignal(w) PROVE ToldInv'
  BY <1>13 DEF WorkerExit, WorkerSignal, ToldInv
<1>14. ASSUME NEW e \in Entries, Reconfigure(e) PROVE ToldInv'
  BY <1>14 DEF Reconfigure, ToldInv
<1>15. CASE PollerFails
  BY <1>15 DEF PollerFails, ToldInv
<1>16. ASSUME NEW t \in Threads, SpawnFails(t) PROVE ToldInv'
  BY <1>16 DEF SpawnFails, Return, ToldInv
<1>17. QED
  BY <1>1, <1>2, <1>3, <1>4, <1>5, <1>6, <1>7, <1>8, <1>9, <1>10, <1>11, <1>12, <1>13, <1>14, <1>15, <1>16
  DEF RunnerOrFault, Next, CalleeStep, OwnerStep, PollerStep, WorkerStep, Terminated

LEMMA ToldInit == Init => HeldInv /\ QuietInv /\ ToldInv
BY SetsAssumption, ThreadsAssumption
   DEF Init, HeldInv, QuietInv, ToldInv, Live, LivePCs, Threads, ShutdownPCs

LEMMA ToldReaches == RunnerCore /\ ToldInv => StopReachesWorkers
BY SetsAssumption, ThreadsAssumption
   DEF RunnerCore, TypeOK, ToldInv, StopReachesWorkers, Live, LivePCs, ClaimsInv, Threads

\* From the marking on, every worker that could start another execution has been
\* told to stop, for any number of tasks, passes under way and restarts, when
\* neither another thread nor a task adds tasks meanwhile.
THEOREM StopsReachWorkers ==
    ASSUME Clients = {}, Reentrant = {}
    PROVE  Spec => []StopReachesWorkers
<1> DEFINE IInv == QuietInv /\ HeldInv /\ ToldInv
<1>1. Init => IInv
  BY ToldInit
<1>2. RunnerInv /\ IInv /\ [Next]_vars => IInv'
  BY CountedExactly, QuietStep, HeldStep, ToldStep DEF RunnerInv, RunnerOrFault
<1>3. RunnerInv /\ IInv => StopReachesWorkers
  BY ToldReaches DEF RunnerInv
<1>4. QED
  BY <1>1, <1>2, <1>3, RunnerInvariant, PTL DEF Spec

\* The same whatever threads cannot be created.
THEOREM StopsReachWorkersDespiteFailures ==
    ASSUME Clients = {}, Reentrant = {}
    PROVE  FaultySpec => []StopReachesWorkers
<1>1. FaultyInit => ToldInv
  BY ToldInit DEF FaultyInit
<1>2. /\ FaultyInv /\ QuietInv /\ HeldInv /\ ToldInv /\ [FaultyNext]_<<vars, faultVars>>
      => ToldInv'
  BY FaultyIsRunnerOrFault, ToldStep DEF FaultyInv
<1>3. FaultyInv /\ ToldInv => StopReachesWorkers
  BY ToldReaches DEF FaultyInv
<1>4. QED
  BY <1>1, <1>2, <1>3, FaultyInvariant, QuietDespiteFailures, HeldInvariant, PTL DEF FaultySpec
=============================================================================
