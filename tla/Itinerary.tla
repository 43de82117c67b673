----------------------------- MODULE Itinerary -----------------------------
(***************************************************************************)
(* What an envelope promises about its routes, in each copy of it: a route  *)
(* added is the next to be visited, a visit takes the first of those that   *)
(* remain, and a copy goes on from where the original was.                  *)
(***************************************************************************)
EXTENDS Sequences

CONSTANTS Holders, Routes

VARIABLES
    live,     \* the holders that have a copy
    todo,     \* the routes that remain, per holder
    visited   \* those visited, in order, per holder

Ends == <<todo, visited>>
vars == <<live, todo, visited>>

Init ==
    /\ live = {}
    /\ todo = [h \in Holders |-> <<>>] /\ visited = [h \in Holders |-> <<>>]

New(h) ==
    /\ h \notin live /\ live' = live \cup {h}
    /\ UNCHANGED Ends

Add(h, r) ==
    /\ h \in live
    /\ \A i \in DOMAIN todo[h] : todo[h][i] # r
    /\ \A i \in DOMAIN visited[h] : visited[h][i] # r
    /\ todo' = [todo EXCEPT ![h] = <<r>> \o @]
    /\ UNCHANGED <<live, visited>>

Visit(h) ==
    /\ h \in live /\ todo[h] # <<>>
    /\ visited' = [visited EXCEPT ![h] = Append(@, Head(todo[h]))]
    /\ todo' = [todo EXCEPT ![h] = Tail(@)]
    /\ UNCHANGED live

CopyTo(h, g) ==
    /\ h \in live /\ g \notin live /\ live' = live \cup {g}
    /\ todo' = [todo EXCEPT ![g] = todo[h]]
    /\ visited' = [visited EXCEPT ![g] = visited[h]]

Discard(h) ==
    /\ h \in live /\ live' = live \ {h}
    /\ todo' = [todo EXCEPT ![h] = <<>>]
    /\ visited' = [visited EXCEPT ![h] = <<>>]

Next ==
    \E h \in Holders :
        \/ New(h) \/ Visit(h) \/ Discard(h)
        \/ \E r \in Routes : Add(h, r)
        \/ \E g \in Holders : CopyTo(h, g)

Spec == Init /\ [][Next]_vars
=============================================================================
