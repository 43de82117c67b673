---------------------------- MODULE Nonce_proofs ----------------------------
(***************************************************************************)
(* Proofs about Nonce, for any ids, size and percentage: the set and the    *)
(* queue agree for ever, the newest ids are never forgotten too early, and  *)
(* the memory is bounded whenever a prune forgets at least one id.          *)
(***************************************************************************)
EXTENDS Nonce, TLAPS

LEMMA ToPruneNat == ToPrune \in Nat
<1>1. MaxSize * PrunePercent \in Nat
  BY ConfigAssumption
<1>2. \A n \in Nat : n \div 100 \in Nat
  OBVIOUS
<1>3. QED
  BY <1>1, <1>2 DEF ToPrune

\* A prune forgets a prefix of the queue.
LEMMA PruneCountBounds ==
    ASSUME NonceTypeOK
    PROVE  /\ PruneCount \in 0..Len(order)
           /\ Len(order) <= MaxSize => PruneCount = 0
           /\ Len(order) > MaxSize =>
                \/ PruneCount = Len(order) /\ Window <= 0
                \/ PruneCount = ToPrune /\ Window = MaxSize + 1 - ToPrune
<1>1. Len(order) \in Nat
  BY DEF NonceTypeOK
<1>2. QED
  BY <1>1, ToPruneNat, ConfigAssumption DEF PruneCount, Window

\* After Prune() the queue is what was behind that prefix.
LEMMA PrunedOrderIs ==
    ASSUME NonceTypeOK
    PROVE  /\ PrunedOrder \in Seq(Ids)
           /\ Len(PrunedOrder) = Len(order) - PruneCount
           /\ \A i \in 1..Len(PrunedOrder) : PrunedOrder[i] = order[PruneCount + i]
BY PruneCountBounds DEF NonceTypeOK, PrunedOrder

\* Prune() keeps the set and the queue in step.
LEMMA PrunedSeenIs ==
    ASSUME NonceInv
    PROVE  /\ PrunedSeen = {PrunedOrder[i] : i \in DOMAIN PrunedOrder}
           /\ \A i, j \in DOMAIN PrunedOrder : PrunedOrder[i] = PrunedOrder[j] => i = j
<1> USE DEF NonceInv, SetMatchesQueue
<1>1. /\ DOMAIN order = 1..Len(order) /\ DOMAIN PrunedOrder = 1..Len(PrunedOrder)
      /\ Len(order) \in Nat /\ PruneCount \in 0..Len(order)
      /\ Len(PrunedOrder) = Len(order) - PruneCount
      /\ \A i \in 1..Len(PrunedOrder) : PrunedOrder[i] = order[PruneCount + i]
  BY PrunedOrderIs, PruneCountBounds DEF NonceTypeOK
<1>2. PrunedSeen = {order[i] : i \in (PruneCount + 1)..Len(order)}
  <2>1. PrunedSeen = seen \ {order[i] : i \in 1..PruneCount}
    <3>1. CASE Len(order) > MaxSize /\ PrunePercent = 100
      <4>1. PruneCount = Len(order)
        <5>1. ~(Len(order) <= MaxSize)
          BY <3>1, <1>1, ConfigAssumption
        <5>2. QED
          BY <3>1, <5>1 DEF PruneCount
      <4>2. QED
        BY <3>1, <4>1, <1>1 DEF PrunedSeen
    <3>2. CASE ~(Len(order) > MaxSize /\ PrunePercent = 100)
      BY <3>2 DEF PrunedSeen
    <3>3. QED
      BY <3>1, <3>2
  <2>2. \A x \in seen : (\E i \in 1..PruneCount : x = order[i])
                           <=> ~(\E i \in (PruneCount + 1)..Len(order) : x = order[i])
    <3>1. \A i \in 1..Len(order) : i \in 1..PruneCount \/ i \in (PruneCount + 1)..Len(order)
      BY <1>1
    <3>2. \A i \in 1..PruneCount, j \in (PruneCount + 1)..Len(order) :
              i \in DOMAIN order /\ j \in DOMAIN order /\ i # j
      BY <1>1
    <3>3. \A x \in seen : \E i \in 1..Len(order) : x = order[i]
      BY <1>1
    <3>4. \A i, j \in DOMAIN order : order[i] = order[j] => i = j
      OBVIOUS
    <3> HIDE <1>1 DEF NonceInv, SetMatchesQueue
    <3>5. QED
      BY <3>1, <3>2, <3>3, <3>4, Zenon
  <2>3. \A i \in (PruneCount + 1)..Len(order) : order[i] \in seen
    BY <1>1
  <2>4. QED
    BY <2>1, <2>2, <2>3
<1>3. {order[i] : i \in (PruneCount + 1)..Len(order)} = {PrunedOrder[i] : i \in 1..Len(PrunedOrder)}
  <2>1. \A i \in (PruneCount + 1)..Len(order) :
            i - PruneCount \in 1..Len(PrunedOrder) /\ PrunedOrder[i - PruneCount] = order[i]
    BY <1>1
  <2>2. \A i \in 1..Len(PrunedOrder) :
            PruneCount + i \in (PruneCount + 1)..Len(order) /\ order[PruneCount + i] = PrunedOrder[i]
    BY <1>1
  <2>3. QED
    BY <2>1, <2>2
<1>4. \A i, j \in DOMAIN PrunedOrder : PrunedOrder[i] = PrunedOrder[j] => i = j
  BY <1>1
<1>5. QED
  BY <1>1, <1>2, <1>3, <1>4

\* Prune() leaves the newest part of the log, and no less than Window of it.
LEMMA PrunedOrderIsSuffix ==
    ASSUME NonceInv
    PROVE  /\ Len(PrunedOrder) <= Len(log)
           /\ \A i \in DOMAIN PrunedOrder : PrunedOrder[i] = log[Len(log) - Len(PrunedOrder) + i]
           /\ Len(PrunedOrder) = Len(log) \/ Len(PrunedOrder) >= Window
<1> USE DEF NonceInv, QueueIsSuffix, WindowKept
<1>1. /\ DOMAIN order = 1..Len(order) /\ DOMAIN PrunedOrder = 1..Len(PrunedOrder)
      /\ Len(order) \in Nat /\ Len(log) \in Nat /\ PruneCount \in 0..Len(order)
      /\ Len(PrunedOrder) = Len(order) - PruneCount
      /\ \A i \in 1..Len(PrunedOrder) : PrunedOrder[i] = order[PruneCount + i]
  BY PrunedOrderIs, PruneCountBounds DEF NonceTypeOK
<1>2. \A i \in 1..Len(PrunedOrder) : PrunedOrder[i] = log[Len(log) - Len(order) + (PruneCount + i)]
  BY <1>1
<1>3. Len(PrunedOrder) = Len(log) \/ Len(PrunedOrder) >= Window
  <2>1. Window \in Int /\ ToPrune \in Nat /\ MaxSize \in Nat
    BY ToPruneNat, ConfigAssumption DEF Window
  <2>2. Len(order) = Len(log) \/ Len(order) >= Window
    OBVIOUS
  <2>3. CASE Len(order) <= MaxSize
    BY <1>1, <2>2, <2>3, PruneCountBounds
  <2>4. CASE Len(order) > MaxSize
    <3>1. \A n, k, m, p, w \in Int :
            n > m /\ ((k = n /\ w <= 0) \/ (k = p /\ w = m + 1 - p)) => n - k >= w
      OBVIOUS
    <3>2. \/ PruneCount = Len(order) /\ Window <= 0
          \/ PruneCount = ToPrune /\ Window = MaxSize + 1 - ToPrune
      BY <2>4, PruneCountBounds
    <3>3. PruneCount \in Int /\ Len(order) \in Int /\ ToPrune \in Int /\ MaxSize \in Int
      BY <1>1, <2>1
    <3>4. QED
      BY <1>1, <2>1, <2>4, <3>1, <3>2, <3>3, Zenon
  <2>5. Len(order) <= MaxSize \/ Len(order) > MaxSize
    BY <1>1, <2>1
  <2>6. QED
    BY <2>3, <2>4, <2>5
<1>4. Len(PrunedOrder) <= Len(log)
  BY <1>1
<1>5. \A i \in 1..Len(PrunedOrder) :
        Len(log) - Len(order) + (PruneCount + i) = Len(log) - Len(PrunedOrder) + i
  BY <1>1
<1>6. QED
  BY <1>1, <1>2, <1>3, <1>4, <1>5

\* The invariant is inductive.
LEMMA NonceStep ==
    ASSUME NonceInv, [NonceNext]_nonceVars
    PROVE  NonceInv'
<1>0. /\ PrunedOrder \in Seq(Ids) /\ PrunedSeen \subseteq Ids
      /\ Len(PrunedOrder) \in Nat /\ Len(log) \in Nat /\ Window \in Int
      /\ DOMAIN PrunedOrder = 1..Len(PrunedOrder)
  BY PrunedOrderIs, PrunedSeenIs, ToPruneNat, ConfigAssumption DEF NonceInv, NonceTypeOK, Window
<1>1. CASE UNCHANGED nonceVars
  BY <1>1 DEF nonceVars, NonceInv, NonceTypeOK, SetMatchesQueue, QueueIsSuffix, WindowKept
<1>2. ASSUME NEW id \in Ids, Reject(id) PROVE NonceInv'
  <2>1. seen' = PrunedSeen /\ order' = PrunedOrder /\ log' = log
    BY <1>2 DEF Reject
  <2>2. NonceTypeOK'
    BY <2>1, <1>0 DEF NonceInv, NonceTypeOK
  <2>3. SetMatchesQueue'
    BY <2>1, PrunedSeenIs DEF SetMatchesQueue
  <2>4. QueueIsSuffix' /\ WindowKept'
    BY <2>1, PrunedOrderIsSuffix DEF QueueIsSuffix, WindowKept, Window, ToPrune
  <2>5. QED
    BY <2>2, <2>3, <2>4 DEF NonceInv
<1>3. ASSUME NEW id \in Ids, Accept(id) PROVE NonceInv'
  <2>1. /\ seen' = PrunedSeen \cup {id} /\ order' = Append(PrunedOrder, id)
        /\ log' = Append(log, id) /\ id \notin PrunedSeen
    BY <1>3 DEF Accept
  <2>2. NonceTypeOK'
    BY <2>1, <1>0 DEF NonceInv, NonceTypeOK
  <2>3. /\ Len(order') = Len(PrunedOrder) + 1 /\ DOMAIN order' = 1..(Len(PrunedOrder) + 1)
        /\ \A i \in 1..Len(PrunedOrder) : order'[i] = PrunedOrder[i]
        /\ order'[Len(PrunedOrder) + 1] = id
    BY <2>1, <1>0
  <2>4. SetMatchesQueue'
    <3>1. seen' = {order'[i] : i \in DOMAIN order'}
      BY <2>1, <2>3, <1>0, PrunedSeenIs
    <3>2. \A i \in 1..Len(PrunedOrder) : order'[i] # id
      BY <2>1, <2>3, <1>0, PrunedSeenIs
    <3>3. \A i, j \in DOMAIN order' : order'[i] = order'[j] => i = j
      BY <2>3, <3>2, <1>0, PrunedSeenIs
    <3>4. QED
      BY <3>1, <3>3 DEF SetMatchesQueue
  <2>5. /\ log \in Seq(Ids) /\ Len(log') = Len(log) + 1
        /\ \A i \in 1..Len(log) : log'[i] = log[i]
        /\ log'[Len(log) + 1] = id
    BY <2>1, <1>0 DEF NonceInv, NonceTypeOK
  <2>6. QueueIsSuffix'
    <3>1. Len(PrunedOrder) <= Len(log)
      BY PrunedOrderIsSuffix
    <3>2. ASSUME NEW i \in 1..Len(PrunedOrder)
          PROVE  order'[i] = log'[Len(log') - Len(order') + i]
      <4>1. Len(log') - Len(order') + i = Len(log) - Len(PrunedOrder) + i
        BY <2>3, <2>5, <1>0
      <4>2. Len(log) - Len(PrunedOrder) + i \in 1..Len(log)
        BY <1>0, <3>1
      <4>3. PrunedOrder[i] = log[Len(log) - Len(PrunedOrder) + i]
        BY <1>0, PrunedOrderIsSuffix
      <4>4. QED
        BY <2>3, <2>5, <4>1, <4>2, <4>3
    <3>3. Len(log') - Len(order') + (Len(PrunedOrder) + 1) = Len(log) + 1
      BY <2>3, <2>5, <1>0
    <3>4. Len(order') <= Len(log')
      BY <2>3, <2>5, <1>0, <3>1
    <3>5. QED
      BY <2>3, <2>5, <3>2, <3>3, <3>4, <1>0 DEF QueueIsSuffix
  <2>7. WindowKept'
    BY <2>3, <2>5, <1>0, PrunedOrderIsSuffix DEF WindowKept, Window, ToPrune
  <2>8. QED
    BY <2>2, <2>4, <2>6, <2>7 DEF NonceInv
<1>4. QED
  BY <1>1, <1>2, <1>3 DEF NonceNext

\* The set and the queue agree, and hold the newest ids, in every reachable state.
THEOREM NonceInvariant == NonceSpec => []NonceInv
<1>1. NonceInit => NonceInv
  BY ConfigAssumption DEF NonceInit, NonceInv, NonceTypeOK, SetMatchesQueue, QueueIsSuffix, WindowKept
<1>2. NonceInv /\ [NonceNext]_nonceVars => NonceInv'
  BY NonceStep
<1>3. QED
  BY <1>1, <1>2, PTL DEF NonceSpec

\* A replay of one of the newest MaxSize + 1 - ToPrune ids is always rejected.
THEOREM ReplayCaught == NonceSpec => []RecentReplayRejected
<1>1. NonceInv => RecentReplayRejected
  <2>1. SUFFICES ASSUME NonceInv, NEW i \in DOMAIN log, i > Len(log) - Window
                 PROVE  log[i] \in PrunedSeen
    BY DEF RecentReplayRejected
  <2>2. /\ Len(PrunedOrder) \in Nat /\ Len(log) \in Nat /\ Window \in Int /\ i \in 1..Len(log)
        /\ DOMAIN PrunedOrder = 1..Len(PrunedOrder)
    BY <2>1, PrunedOrderIs, ToPruneNat, ConfigAssumption DEF NonceInv, NonceTypeOK, Window
  <2>3. i - (Len(log) - Len(PrunedOrder)) \in DOMAIN PrunedOrder
    BY <2>1, <2>2, PrunedOrderIsSuffix
  <2>4. PrunedOrder[i - (Len(log) - Len(PrunedOrder))] = log[i]
    BY <2>1, <2>2, <2>3, PrunedOrderIsSuffix
  <2>5. QED
    BY <2>1, <2>3, <2>4, PrunedSeenIs
<1>2. QED
  BY <1>1, NonceInvariant, PTL

\* When a prune forgets at least one id, at most MaxSize + 1 are ever held.
THEOREM MemoryBounded ==
    ASSUME ToPrune >= 1 \/ PrunePercent = 100
    PROVE  NonceSpec => []Bounded
<1>1. NonceInit => Bounded
  BY ConfigAssumption DEF NonceInit, Bounded
<1>2. NonceInv /\ Bounded /\ [NonceNext]_nonceVars => Bounded'
  <2>1. SUFFICES ASSUME NonceInv, Bounded, [NonceNext]_nonceVars PROVE Bounded'
    OBVIOUS
  <2>2. Len(PrunedOrder) \in Nat /\ Len(PrunedOrder) <= MaxSize /\ PrunedOrder \in Seq(Ids)
    BY <2>1, PrunedOrderIs, PruneCountBounds, ToPruneNat, ConfigAssumption
    DEF NonceInv, NonceTypeOK, Bounded, PruneCount
  <2>3. CASE UNCHANGED nonceVars
    BY <2>1, <2>3 DEF nonceVars, Bounded
  <2>4. ASSUME NEW id \in Ids, Accept(id) \/ Reject(id) PROVE Bounded'
    BY <2>2, <2>4, ConfigAssumption DEF Accept, Reject, Bounded
  <2>5. QED
    BY <2>1, <2>3, <2>4 DEF NonceNext
<1>3. QED
  BY <1>1, <1>2, NonceInvariant, PTL DEF NonceSpec
=============================================================================
