---------------------------- MODULE ServiceCore ----------------------------
(***************************************************************************)
(* A Service and its ServiceCore, in the hands of one thread. UpdateStatus() *)
(* calls out twice, to the observer and then to the producer, and Handle()   *)
(* runs a method of the concrete service. What is called may call the        *)
(* service again before it returns: the model keeps the calls under way, and *)
(* between two actions it is the host's code that runs.                      *)
(***************************************************************************)
EXTENDS Naturals, Sequences

CONSTANTS
    Statuses,                  \* ServiceStatus
    NotInitialized, Running,   \* two of them
    MaxChanges, MaxDepth       \* bounds: the changes of status, the calls under way

ASSUME StatusAssumption == {NotInitialized, Running} \subseteq Statuses
ASSUME BoundAssumption == MaxChanges \in Nat /\ MaxDepth \in Nat

VARIABLES
    status,      \* status_
    observer,    \* observer != nullptr
    producer,    \* producer != nullptr
    calls,       \* the calls under way, innermost last, with what each waits for
    board,       \* the last report offered to a producer
    answer,      \* the last report given to a Report command
    changes,     \* history: how often the status has changed
    since,       \* history: how often it had when the producer was attached
    missed       \* history: a report was given up after the last event

serviceVars == <<status, observer, producer, calls, board, answer, changes, since, missed>>

\* A report, and the number of the change it tells of.
Told(s, n) == [status |-> s, running |-> s = Running, change |-> n]

Report == Told(status, changes)

\* An UpdateStatus() waits for its observer or for its producer's Send(); a
\* Handle() for the method it has called.
Call(waits, s, n) == [for |-> waits, status |-> s, change |-> n]

Calls == [for : {"observer", "producer", "method"}, status : Statuses, change : Nat]

ServiceInit ==
    /\ status = NotInitialized
    /\ observer = FALSE /\ producer = FALSE
    /\ calls = <<>>
    /\ board = Told(NotInitialized, 0) /\ answer = Told(NotInitialized, 0)
    /\ changes = 0 /\ since = 0 /\ missed = FALSE

-----------------------------------------------------------------------------
\* Mutant: the event is made from the call's own argument.
BugEventOfOwn(c) == Told(c.status, c.change)

\* The event that a call to UpdateStatus() makes once its observer is done.
EventOf(c) == Report

\* Nothing happens when the status is the one it has. An observer is called first.
UpdateStatus(s) ==
    /\ status # s /\ changes < MaxChanges /\ Len(calls) < MaxDepth
    /\ status' = s /\ changes' = changes + 1
    /\ \/ /\ observer
          /\ calls' = Append(calls, Call("observer", s, changes + 1))
          /\ UNCHANGED <<board, missed>>
       \/ /\ ~observer /\ producer
          /\ calls' = Append(calls, Call("producer", s, changes + 1))
          /\ board' = EventOf(Call("producer", s, changes + 1))' /\ missed' = FALSE
       \/ ~observer /\ ~producer /\ UNCHANGED <<calls, board, missed>>
    /\ UNCHANGED <<observer, producer, answer, since>>

Innermost == calls[Len(calls)]
Outer == SubSeq(calls, 1, Len(calls) - 1)

\* Mutant: the producer is only told when there is no observer.
BugObserverReturns ==
    /\ calls # <<>> /\ Innermost.for = "observer"
    /\ calls' = Outer
    /\ UNCHANGED <<status, observer, producer, board, answer, changes, since, missed>>

\* The observer is done: the event goes to whatever producer there is now.
ObserverReturns ==
    /\ calls # <<>> /\ Innermost.for = "observer"
    /\ \/ /\ producer
          /\ calls' = [calls EXCEPT ![Len(calls)].for = "producer"]
          /\ board' = EventOf(Innermost) /\ missed' = FALSE
       \/ ~producer /\ calls' = Outer /\ UNCHANGED <<board, missed>>
    /\ UNCHANGED <<status, observer, producer, answer, changes, since>>

\* Send() returns, whatever it says, or the method Handle() has called.
Return ==
    /\ calls # <<>> /\ Innermost.for # "observer"
    /\ calls' = Outer
    /\ UNCHANGED <<status, observer, producer, board, answer, changes, since, missed>>

\* What was called throws. Neither UpdateStatus() nor Handle() catches: the calls
\* are given up until some callback or method further out does, or all of them.
Throw ==
    \E k \in 0..(Len(calls) - 1) :
        /\ calls' = SubSeq(calls, 1, k)
        /\ missed' = (missed \/ \E i \in (k + 1)..Len(calls) : calls[i].for = "observer")
        /\ UNCHANGED <<status, observer, producer, board, answer, changes, since>>

\* Handle() of an envelope whose message some method of the service is for.
HandleByMethod ==
    /\ Len(calls) < MaxDepth
    /\ calls' = Append(calls, Call("method", status, changes))
    /\ UNCHANGED <<status, observer, producer, board, answer, changes, since, missed>>

\* Handle() of a Report command: the header "result".
HandleReport ==
    /\ answer' = Report
    /\ UNCHANGED <<status, observer, producer, calls, board, changes, since, missed>>

\* The host sets the public pointers whenever it likes.
SetObserver ==
    /\ observer' = ~observer
    /\ UNCHANGED <<status, producer, calls, board, answer, changes, since, missed>>

SetProducer ==
    /\ producer' = ~producer
    /\ since' = IF producer THEN since ELSE changes
    /\ UNCHANGED <<status, observer, calls, board, answer, changes, missed>>

ServiceNext ==
    \/ \E s \in Statuses : UpdateStatus(s)
    \/ ObserverReturns \/ Return \/ Throw
    \/ HandleByMethod \/ HandleReport
    \/ SetObserver \/ SetProducer

ServiceSpec == ServiceInit /\ [][ServiceNext]_serviceVars

-----------------------------------------------------------------------------
ServiceTypeOK ==
    /\ status \in Statuses /\ observer \in BOOLEAN /\ producer \in BOOLEAN
    /\ calls \in Seq(Calls) /\ changes \in Nat /\ since \in 0..changes /\ missed \in BOOLEAN
    /\ \E s \in Statuses, n \in 0..changes : board = Told(s, n)
    /\ \E s \in Statuses, n \in 0..changes : answer = Told(s, n)

\* Once no observer is being told, the producer was last offered the status the
\* service is in, however deep the updates were nested and whoever made them. (A
\* producer is told nothing of changes made before it was attached, and of one
\* whose observer threw only with the next event.)
BoardIsCurrent ==
    producer /\ changes > since /\ ~missed /\ (\A i \in DOMAIN calls : calls[i].for # "observer")
        => board = Report

\* Reports come in the order of the changes: no event is older than one offered
\* before, no answer is older than an event already offered or an answer already given.
ReportsInOrder ==
    [][/\ board.change <= board'.change
       /\ answer.change <= answer'.change
       /\ answer' # answer => board.change <= answer'.change]_serviceVars

ServiceInv == ServiceTypeOK /\ BoardIsCurrent
=============================================================================
