-------------------------------- MODULE Nonce --------------------------------
(***************************************************************************)
(* ra::common::Nonce: rejects the ids it remembers. A set answers, a queue  *)
(* says what to forget first; when the queue has grown past its limit, the  *)
(* next call forgets the oldest part before it looks the id up.             *)
(***************************************************************************)
EXTENDS Integers, Sequences

CONSTANTS
    Ids,
    MaxSize,       \* max_size_
    PrunePercent,  \* prune_percent_, clamped
    MaxLog         \* bound: ids accepted in a behaviour

ASSUME ConfigAssumption ==
    /\ MaxSize \in Nat /\ PrunePercent \in 0..100 /\ MaxLog \in Nat

VARIABLES
    seen,   \* seen_
    order,  \* order_, oldest first
    log     \* every id accepted so far, a history the properties refer to

nonceVars == <<seen, order, log>>

\* Mutant: the Java original's integer division.
BugToPruneJava == MaxSize * (PrunePercent \div 100)

\* The product fits size_t for any number of ids that fits memory.
ToPrune == (MaxSize * PrunePercent) \div 100

\* Mutant: the loop runs once too often.
BugPruneCountOffByOne ==
    IF Len(order) <= MaxSize THEN 0
    ELSE IF PrunePercent = 100 \/ ToPrune + 1 > Len(order) THEN Len(order) ELSE ToPrune + 1

\* How many of the oldest ids Prune() forgets now.
PruneCount ==
    IF Len(order) <= MaxSize THEN 0
    ELSE IF PrunePercent = 100 \/ ToPrune > Len(order) THEN Len(order) ELSE ToPrune

\* Mutant: the queue is cut, the set is not.
BugPrunedSeenKept == seen

PrunedSeen ==
    IF Len(order) > MaxSize /\ PrunePercent = 100 THEN {}
    ELSE seen \ {order[i] : i \in 1..PruneCount}

PrunedOrder == SubSeq(order, PruneCount + 1, Len(order))

NonceInit == seen = {} /\ order = <<>> /\ log = <<>>

\* ContinueOn(id) returning true ...
Accept(id) ==
    /\ id \notin PrunedSeen /\ Len(log) < MaxLog
    /\ seen' = PrunedSeen \cup {id}
    /\ order' = Append(PrunedOrder, id)
    /\ log' = Append(log, id)

\* ... and false. The pruning is done all the same.
Reject(id) ==
    /\ id \in PrunedSeen
    /\ seen' = PrunedSeen /\ order' = PrunedOrder
    /\ UNCHANGED log

NonceNext == \E id \in Ids : Accept(id) \/ Reject(id)

NonceSpec == NonceInit /\ [][NonceNext]_nonceVars

-----------------------------------------------------------------------------
NonceTypeOK == seen \subseteq Ids /\ order \in Seq(Ids) /\ log \in Seq(Ids)

\* The set and the queue remember the same ids, each once: nothing stays in the
\* set that no later prune can remove.
SetMatchesQueue ==
    /\ seen = {order[i] : i \in DOMAIN order}
    /\ \A i, j \in DOMAIN order : order[i] = order[j] => i = j

\* What is remembered is the newest part of what was accepted, in order.
QueueIsSuffix ==
    /\ Len(order) <= Len(log)
    /\ \A i \in DOMAIN order : order[i] = log[Len(log) - Len(order) + i]

\* The memory is bounded, whatever is asked and however often.
Bounded == Len(order) <= MaxSize + 1

\* The ids a replay of which is always caught: the newest Window accepted.
Window == IF PrunePercent = 100 THEN 0 ELSE MaxSize + 1 - ToPrune

WindowKept == Len(order) = Len(log) \/ Len(order) >= Window

\* A replay of any of the newest Window ids is rejected by the call that brings
\* it, the pruning that call does first included.
RecentReplayRejected ==
    \A i \in DOMAIN log : i > Len(log) - Window => log[i] \in PrunedSeen

\* The inductive invariant.
NonceInv == NonceTypeOK /\ SetMatchesQueue /\ QueueIsSuffix /\ WindowKept

=============================================================================
