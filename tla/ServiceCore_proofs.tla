------------------------- MODULE ServiceCore_proofs -------------------------
(***************************************************************************)
(* Proofs about ServiceCore, for any statuses, any nesting and any number   *)
(* of changes.                                                              *)
(***************************************************************************)
EXTENDS ServiceCore, TLAPS

\* Dropping the innermost call keeps the outer ones.
LEMMA OuterIs ==
    ASSUME calls \in Seq(Calls), calls # <<>>
    PROVE  /\ Outer \in Seq(Calls) /\ Len(calls) \in DOMAIN calls /\ Innermost \in Calls
           /\ DOMAIN calls = DOMAIN Outer \cup {Len(calls)}
           /\ \A i \in DOMAIN Outer : Outer[i] = calls[i]
<1>1. Len(calls) \in Nat \ {0} /\ DOMAIN calls = 1..Len(calls)
  OBVIOUS
<1>2. Outer \in Seq(Calls) /\ Len(Outer) = Len(calls) - 1
      /\ \A i \in 1..(Len(calls) - 1) : Outer[i] = calls[i]
  BY <1>1 DEF Outer
<1>3. DOMAIN Outer = 1..(Len(calls) - 1)
  BY <1>1, <1>2
<1>4. QED
  BY <1>1, <1>2, <1>3 DEF Innermost

LEMMA ServiceStarts == ServiceInit => ServiceInv
<1> SUFFICES ASSUME ServiceInit PROVE ServiceInv
  OBVIOUS
<1>1. NotInitialized \in Statuses /\ 0 \in 0..changes
  BY StatusAssumption DEF ServiceInit
<1>2. \E s \in Statuses, n \in 0..changes : board = Told(s, n)
  BY <1>1 DEF ServiceInit
<1>3. \E s \in Statuses, n \in 0..changes : answer = Told(s, n)
  BY <1>1 DEF ServiceInit
<1>4. observer = FALSE /\ producer = FALSE /\ calls \in Seq(Calls)
      /\ status \in Statuses /\ changes \in Nat /\ since \in 0..changes
  BY <1>1 DEF ServiceInit
<1>5. observer \in BOOLEAN /\ producer \in BOOLEAN /\ missed \in BOOLEAN
  BY ZenonT(20) DEF ServiceInit
<1>6. ServiceTypeOK
  BY <1>2, <1>3, <1>4, <1>5 DEF ServiceTypeOK
<1>7. QED
  BY <1>4, <1>6 DEF ServiceInv, BoardIsCurrent

LEMMA ServiceStep ==
    ASSUME ServiceInv, [ServiceNext]_serviceVars
    PROVE  ServiceInv'
<1> USE DEF ServiceInv
<1>0. /\ status \in Statuses /\ observer \in BOOLEAN /\ producer \in BOOLEAN
      /\ calls \in Seq(Calls) /\ changes \in Nat /\ since \in 0..changes /\ missed \in BOOLEAN
      /\ \E s \in Statuses, n \in 0..changes : board = Told(s, n)
      /\ \E s \in Statuses, n \in 0..changes : answer = Told(s, n)
      /\ BoardIsCurrent
  BY DEF ServiceTypeOK
<1>1. CASE UNCHANGED serviceVars
  BY <1>0, <1>1 DEF serviceVars, ServiceTypeOK, BoardIsCurrent, Report
<1>2. ASSUME NEW s \in Statuses, UpdateStatus(s) PROVE ServiceInv'
  <2>1. status' = s /\ changes' = changes + 1 /\ UNCHANGED <<observer, producer, answer, since>>
    BY <1>2 DEF UpdateStatus
  <2>2. /\ Call("observer", s, changes + 1) \in Calls /\ Call("producer", s, changes + 1) \in Calls
        /\ Call("observer", s, changes + 1).for = "observer"
    BY <1>0 DEF Call, Calls
  <2>3. /\ \E t \in Statuses, n \in 0..changes' : board = Told(t, n)
        /\ \E t \in Statuses, n \in 0..changes' : answer' = Told(t, n)
        /\ since' \in 0..changes' /\ changes' \in Nat
    BY <1>0, <2>1
  <2>4. CASE observer /\ calls' = Append(calls, Call("observer", s, changes + 1)) /\ UNCHANGED <<board, missed>>
    <3>1. calls' \in Seq(Calls) /\ Len(calls') \in DOMAIN calls' /\ calls'[Len(calls')].for = "observer"
      BY <1>0, <2>2, <2>4
    <3>2. BoardIsCurrent'
      BY <3>1 DEF BoardIsCurrent
    <3>3. QED
      BY <1>0, <2>1, <2>3, <2>4, <3>1, <3>2 DEF ServiceTypeOK
  <2>5. CASE /\ producer /\ calls' = Append(calls, Call("producer", s, changes + 1))
             /\ board' = Report' /\ missed' = FALSE
    <3>1. calls' \in Seq(Calls)
      BY <1>0, <2>2, <2>5
    <3>2. \E t \in Statuses, n \in 0..changes' : board' = Told(t, n)
      BY <1>0, <2>1, <2>3, <2>5 DEF Report
    <3>3. QED
      BY <1>0, <2>1, <2>3, <2>5, <3>1, <3>2 DEF ServiceTypeOK, BoardIsCurrent
  <2>6. CASE ~observer /\ ~producer /\ UNCHANGED <<calls, board, missed>>
    BY <1>0, <2>1, <2>3, <2>6 DEF ServiceTypeOK, BoardIsCurrent
  <2>7. QED
    BY <1>2, <2>4, <2>5, <2>6 DEF UpdateStatus, EventOf
<1>3. CASE ObserverReturns
  <2>1. calls # <<>> /\ UNCHANGED <<status, observer, producer, answer, changes, since>>
    BY <1>3 DEF ObserverReturns
  <2>2. CASE producer /\ calls' = [calls EXCEPT ![Len(calls)].for = "producer"] /\ board' = Report /\ missed' = FALSE
    <3>1. Len(calls) \in DOMAIN calls /\ calls[Len(calls)] \in Calls
      BY <1>0, <2>1, OuterIs DEF Innermost
    <3>2. [calls[Len(calls)] EXCEPT !.for = "producer"] \in Calls
      BY <3>1 DEF Calls
    <3>3. calls' \in Seq(Calls)
      BY <1>0, <2>2, <3>1, <3>2
    <3>4. board' = Told(status', changes') /\ board' = Report'
      BY <2>1, <2>2 DEF Report
    <3>5. \E s \in Statuses, n \in 0..changes' : board' = Told(s, n)
      <4>1. status' \in Statuses /\ changes' \in 0..changes'
        BY <1>0, <2>1
      <4>2. QED
        BY <4>1, <3>4
    <3>6. missed' \in BOOLEAN
      BY <2>2, ZenonT(20)
    <3>7. \E s \in Statuses, n \in 0..changes' : answer' = Told(s, n)
      BY <1>0, <2>1
    <3>8. ServiceTypeOK'
      BY <1>0, <2>1, <3>3, <3>5, <3>6, <3>7 DEF ServiceTypeOK
    <3>9. QED
      BY <3>4, <3>8 DEF BoardIsCurrent
  <2>3. CASE ~producer /\ calls' = Outer /\ UNCHANGED <<board, missed>>
    BY <1>0, <2>1, <2>3, OuterIs DEF ServiceTypeOK, BoardIsCurrent
  <2>4. QED
    BY <1>3, <2>2, <2>3 DEF ObserverReturns, EventOf
<1>4. CASE Return
  <2>1. /\ calls # <<>> /\ Innermost.for # "observer" /\ calls' = Outer
        /\ UNCHANGED <<status, observer, producer, board, answer, changes, since, missed>>
    BY <1>4 DEF Return
  <2>2. (\A i \in DOMAIN calls' : calls'[i].for # "observer")
           => \A i \in DOMAIN calls : calls[i].for # "observer"
    BY <1>0, <2>1, OuterIs DEF Innermost
  <2>3. calls' \in Seq(Calls)
    BY <1>0, <2>1, OuterIs
  <2>4. QED
    BY <1>0, <2>1, <2>2, <2>3 DEF ServiceTypeOK, BoardIsCurrent, Report
<1>5. CASE HandleByMethod
  <2>1. /\ calls' = Append(calls, Call("method", status, changes))
        /\ UNCHANGED <<status, observer, producer, board, answer, changes, since, missed>>
    BY <1>5 DEF HandleByMethod
  <2>2. Call("method", status, changes) \in Calls
    BY <1>0 DEF Call, Calls
  <2>3. /\ calls' \in Seq(Calls)
        /\ \A i \in DOMAIN calls : i \in DOMAIN calls' /\ calls'[i] = calls[i]
    BY <1>0, <2>1, <2>2
  <2>4. QED
    BY <1>0, <2>1, <2>3 DEF ServiceTypeOK, BoardIsCurrent, Report
<1>6. CASE HandleReport
  BY <1>0, <1>6 DEF HandleReport, ServiceTypeOK, BoardIsCurrent, Report
<1>7. CASE SetObserver
  BY <1>0, <1>7 DEF SetObserver, ServiceTypeOK, BoardIsCurrent, Report
<1>8. CASE SetProducer
  BY <1>0, <1>8 DEF SetProducer, ServiceTypeOK, BoardIsCurrent, Report
<1>9. CASE Throw
  <2>1. PICK k \in 0..(Len(calls) - 1) :
            /\ calls' = SubSeq(calls, 1, k)
            /\ missed' = (missed \/ \E i \in (k + 1)..Len(calls) : calls[i].for = "observer")
            /\ UNCHANGED <<status, observer, producer, board, answer, changes, since>>
    BY <1>9 DEF Throw
  <2>2. /\ Len(calls) \in Nat /\ DOMAIN calls = 1..Len(calls) /\ k \in Nat /\ k < Len(calls)
        /\ calls' \in Seq(Calls) /\ DOMAIN calls' = 1..k
        /\ \A i \in 1..k : calls'[i] = calls[i]
    BY <1>0, <2>1
  <2>3. missed' \in BOOLEAN
    BY <1>0, <2>1
  <2>4. ~missed' /\ (\A i \in DOMAIN calls' : calls'[i].for # "observer")
           => ~missed /\ \A i \in DOMAIN calls : calls[i].for # "observer"
    <3>1. \A i \in DOMAIN calls : i \in 1..k \/ i \in (k + 1)..Len(calls)
      BY <2>2
    <3>2. SUFFICES ASSUME ~missed', \A i \in 1..k : calls'[i].for # "observer", NEW i \in DOMAIN calls
                   PROVE  ~missed /\ calls[i].for # "observer"
      BY <2>2
    <3>3. ~missed /\ ~(\E j \in (k + 1)..Len(calls) : calls[j].for = "observer")
      BY <2>1, <3>2
    <3>4. CASE i \in 1..k
      BY <2>2, <3>2, <3>3, <3>4
    <3>5. CASE i \in (k + 1)..Len(calls)
      BY <3>3, <3>5
    <3>6. QED
      BY <3>1, <3>4, <3>5
  <2>5. QED
    BY <1>0, <2>1, <2>2, <2>3, <2>4 DEF ServiceTypeOK, BoardIsCurrent, Report
<1>10. QED
  BY <1>1, <1>2, <1>3, <1>4, <1>5, <1>6, <1>7, <1>8, <1>9 DEF ServiceNext

\* The state of the service and of what it has reported is well-formed, and the
\* producer is never left behind, in every reachable state.
THEOREM ServiceInvariant == ServiceSpec => []ServiceInv
<1>1. ServiceInv /\ [ServiceNext]_serviceVars => ServiceInv'
  BY ServiceStep
<1>2. QED
  BY ServiceStarts, <1>1, PTL DEF ServiceSpec

\* UpdateStatus() (service_core.hpp:37-50) may be called again from its own observer
\* or producer, and either may throw: once no observer is being told, the producer has
\* been offered the status the service is in, unless the last report was given up.
THEOREM ProducerIsToldLast == ServiceSpec => []BoardIsCurrent
<1>1. ServiceInv => BoardIsCurrent
  BY DEF ServiceInv
<1>2. QED
  BY <1>1, ServiceInvariant, PTL

\* Because the event is made from Report() after the observer has returned, and not
\* from the argument, reports never go back in time.
THEOREM ReportsNeverGoBack == ServiceSpec => ReportsInOrder
<1>1. ASSUME ServiceInv, [ServiceNext]_serviceVars
      PROVE  [/\ board.change <= board'.change
              /\ answer.change <= answer'.change
              /\ answer' # answer => board.change <= answer'.change]_serviceVars
  <2>1. /\ board.change \in 0..changes /\ answer.change \in 0..changes /\ changes \in Nat
    BY <1>1 DEF ServiceInv, ServiceTypeOK, Told
  <2>2. board' = board \/ board' = Report \/ (board' = Report' /\ changes' = changes + 1)
    BY <1>1 DEF ServiceNext, serviceVars, UpdateStatus, EventOf, ObserverReturns, Return, Throw, HandleByMethod,
                HandleReport, SetObserver, SetProducer
  <2>3. answer' = answer \/ answer' = Report
    BY <1>1 DEF ServiceNext, serviceVars, UpdateStatus, EventOf, ObserverReturns, Return, Throw, HandleByMethod,
                HandleReport, SetObserver, SetProducer
  <2>4. Report.change = changes /\ Report'.change = changes'
    BY DEF Report, Told
  <2>5. QED
    BY <2>1, <2>2, <2>3, <2>4
<1>2. QED
  BY <1>1, ServiceInvariant, PTL DEF ServiceSpec, ReportsInOrder
=============================================================================
