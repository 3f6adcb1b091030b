------------------------- MODULE UpstreamPoolProofs -------------------------
(* The slot accounting of UpstreamPool, for every number of exchanges and     *)
(* every pool option.  The inductive invariant is the conjunction of the      *)
(* safety invariants the runs check: none of them is inductive alone, since   *)
(* the bounds need the counter to be exact and the counter needs the queue to *)
(* hold only waiting exchanges.                                               *)
EXTENDS UpstreamPool, SequenceLemmas, FiniteSetTheorems, TLAPS

\* The inductive invariant.
PoolInv ==
    /\ PoolTypeOK
    /\ SlotsAccounted
    /\ SlotsBounded
    /\ ConnectionsBounded
    /\ NoSlotWasted
    /\ QueueSound

-----------------------------------------------------------------------------

\* What erasing a waiter (std::deque::erase) leaves of a queue.
LEMMA Erases ==
    ASSUME NEW S, NEW q \in Seq(S), NEW i \in 1 .. Len(q)
    PROVE  erase(q, i) \in Seq(S) /\ (Distinct(q) => ErasedFrom(q, i, erase(q, i)))
<1>1. erase(q, i) = Without(q, i)
    BY DEF erase, Without
<1>. QED  BY <1>1, WithoutProperties, WithoutDistinct

\* Lending a kept connection takes it off the list; only when none is lent is
\* the list left empty.
LEMMA LeftIdleProperties ==
    ASSUME NEW list \in Seq(Nat), NEW left \in LeftIdle(list)
    PROVE  /\ left \in Seq(Nat)
           /\ Len(left) <= Len(list)
           /\ list = <<>> \/ Len(left) < Len(list)
           /\ \A n \in 1 .. Len(left) : left[n] = list[n]
<1>1. CASE left = <<>>
  <2>1. left \in Seq(Nat) /\ Len(left) = 0
    BY <1>1, EmptySeq
  <2>2. list = <<>> \/ Len(list) > 0
    BY EmptySeq
  <2> QED BY <2>1, <2>2
<1>2. ASSUME NEW n \in 1 .. Len(list), left = SubSeq(list, 1, n - 1)
      PROVE  /\ left \in Seq(Nat)
             /\ Len(left) < Len(list)
             /\ \A k \in 1 .. Len(left) : left[k] = list[k]
  <2>1. \A k \in 1 .. n - 1 : list[k] \in Nat
    BY ElementOfSeq
  <2> QED BY <1>2, <2>1, SubSeqProperties
<1> QED BY <1>1, <1>2 DEF LeftIdle

LEMMA LimitType ==
    /\ MaxConnections \in Nat
    /\ OrdinaryLimit \in 0 .. MaxConnections
    /\ \A x : limit_for(x) \in Nat
BY PoolAssumption DEF limit_for, OrdinaryLimit

\* The holders are a finite set, so the counter can be exact.
LEMMA HoldingFinite ==
    /\ IsFiniteSet(Holding)
    /\ Cardinality(Holding) \in Nat
    /\ IsFiniteSet(Holding \ Priority)
    /\ Cardinality(Holding \ Priority) \in Nat
    /\ Cardinality(Holding \ Priority) <= Cardinality(Holding)
<1>1. Holding \in SUBSET Exchanges /\ Holding \ Priority \in SUBSET Holding
  BY DEF Holding
<1> QED BY <1>1, PoolAssumption, FS_Subset, FS_CardinalityType

-----------------------------------------------------------------------------

LEMMA InitPool == PoolInit => PoolInv
<1> SUFFICES ASSUME PoolInit PROVE PoolInv
  OBVIOUS
<1>1. Holding = {} /\ Holding \ Priority = {}
  BY DEF PoolInit, Holding
<1>2. queue = <<>> /\ Len(queue) = 0 /\ idle = <<>> /\ Len(idle) = 0 /\ DOMAIN queue = {}
  BY DEF PoolInit
<1>3. PoolTypeOK
  BY Zenon, EmptySeq DEF PoolInit, PoolTypeOK
<1>4. SlotsAccounted /\ SlotsBounded /\ ConnectionsBounded
  BY <1>1, <1>2, FS_EmptySet, LimitType, PoolAssumption
     DEF PoolInit, SlotsAccounted, SlotsBounded, ConnectionsBounded
<1>5. NoSlotWasted /\ QueueSound
  BY <1>2, PoolAssumption DEF PoolInit, NoSlotWasted, QueueSound
<1> QED BY <1>3, <1>4, <1>5 DEF PoolInv

\* One more exchange holds a slot: the counter and both bounds follow it.
LEMMA GrantCounts ==
    ASSUME PoolInv, NEW x \in Exchanges, place[x] # "holding",
           place' = [place EXCEPT ![x] = "holding"],
           active < limit_for(x)
    PROVE  /\ active + 1 = Cardinality(Holding')
           /\ active + 1 <= MaxConnections
           /\ Cardinality(Holding' \ Priority) <= OrdinaryLimit
<1> USE DEF PoolInv
<1>1. Holding' = Holding \cup {x} /\ x \notin Holding
  BY DEF Holding, PoolTypeOK
<1>2. Cardinality(Holding') = Cardinality(Holding) + 1
  BY Zenon, <1>1, HoldingFinite, FS_AddElement
<1>3. CASE x \in Priority
  <2>1. Holding' \ Priority = Holding \ Priority
    BY <1>1, <1>3
  <2>2. active < MaxConnections
    BY <1>3 DEF limit_for
  <2>3. active + 1 <= MaxConnections
    BY <2>2, PoolAssumption DEF PoolTypeOK
  <2>4. active + 1 = Cardinality(Holding')
    BY <1>2 DEF SlotsAccounted
  <2>5. Cardinality(Holding' \ Priority) <= OrdinaryLimit
    BY <2>1 DEF SlotsBounded
  <2> QED BY <2>3, <2>4, <2>5
<1>4. CASE x \notin Priority
  <2>1. Holding' \ Priority = (Holding \ Priority) \cup {x} /\ x \notin Holding \ Priority
    BY <1>1, <1>4
  <2>2. Cardinality(Holding' \ Priority) = Cardinality(Holding \ Priority) + 1
    BY Zenon, <2>1, HoldingFinite, FS_AddElement
  <2>3. active < OrdinaryLimit
    BY <1>4 DEF limit_for
  <2> QED BY <1>2, <2>2, <2>3, LimitType, HoldingFinite, PoolAssumption
          DEF PoolTypeOK, SlotsAccounted
<1> QED BY <1>3, <1>4

LEMMA AcquirePreserves ==
    ASSUME PoolInv, NEW x \in Exchanges, acquire(x)
    PROVE  PoolInv'
<1> USE DEF PoolInv
<1>1. place[x] = "out" /\ ticking' = TRUE
  BY DEF acquire
<1>2. CASE active < limit_for(x) /\ grant(x, idle) /\ UNCHANGED queue
  <2>1. /\ place' = [place EXCEPT ![x] = "holding"]
        /\ active' = active + 1
        /\ idle' \in LeftIdle(idle)
        /\ queue' = queue
    BY <1>2 DEF grant
  <2>2. /\ idle' \in Seq(Nat)
        /\ Len(idle') <= Len(idle)
        /\ idle = <<>> \/ Len(idle') < Len(idle)
    BY <2>1, LeftIdleProperties DEF PoolTypeOK
  <2>3. PoolTypeOK'
    BY <1>1, <2>1, <2>2 DEF PoolTypeOK
  <2>4. SlotsAccounted' /\ SlotsBounded'
    BY Zenon, <1>1, <1>2, <2>1, GrantCounts DEF SlotsAccounted, SlotsBounded
  <2>5. ConnectionsBounded'
    <3>1. CASE idle = <<>>
      BY <3>1, <2>1, <2>2, <2>4, EmptySeq, LenProperties, PoolAssumption
         DEF ConnectionsBounded, SlotsBounded, PoolTypeOK
    <3>2. CASE Len(idle') < Len(idle)
      <4>1. Len(idle') \in Nat /\ Len(idle) \in Nat
        BY <2>2, LenProperties DEF PoolTypeOK
      <4> QED BY <3>2, <4>1, <2>1, PoolAssumption DEF ConnectionsBounded, PoolTypeOK
    <3> QED BY <2>2, <3>1, <3>2
  <2>6. NoSlotWasted'
    BY <2>1, LimitType DEF NoSlotWasted, PoolTypeOK
  <2>7. QueueSound'
    BY <1>1, <2>1 DEF QueueSound, PoolTypeOK
  <2> QED BY <2>3, <2>4, <2>5, <2>6, <2>7
<1>3. CASE UNCHANGED <<place, active, queue, idle>>
  BY <1>1, <1>3 DEF PoolTypeOK, SlotsAccounted, SlotsBounded, ConnectionsBounded, NoSlotWasted,
     QueueSound, Holding
<1>4. CASE /\ active >= limit_for(x)
           /\ Len(queue) < QueueDepth
           /\ place' = [place EXCEPT ![x] = "queued"]
           /\ queue' = Append(queue, x)
           /\ UNCHANGED <<active, idle>>
  <2>1. /\ queue' \in Seq(Exchanges)
        /\ Len(queue') = Len(queue) + 1
        /\ Len(queue) \in Nat
        /\ DOMAIN queue = 1 .. Len(queue)
        /\ DOMAIN queue' = 1 .. Len(queue) + 1
        /\ \A i \in 1 .. Len(queue) : queue'[i] = queue[i]
        /\ queue'[Len(queue) + 1] = x
    BY <1>4, AppendProperties, LenProperties DEF PoolTypeOK
  <2>2. PoolTypeOK'
    BY <1>1, <1>4, <2>1 DEF PoolTypeOK
  <2>3. Holding' = Holding
    BY <1>1, <1>4 DEF Holding, PoolTypeOK
  <2>4. SlotsAccounted' /\ SlotsBounded' /\ ConnectionsBounded'
    BY <1>4, <2>3 DEF SlotsAccounted, SlotsBounded, ConnectionsBounded
  <2>5. NoSlotWasted'
    BY <1>4, <2>1 DEF NoSlotWasted
  <2>6. QueueSound'
    <3>1. Len(queue') <= QueueDepth
      BY <1>4, <2>1, PoolAssumption
    <3>2. \A i \in DOMAIN queue : queue[i] # x
      BY <1>1 DEF QueueSound, PoolTypeOK
    <3>3. \A i, j \in DOMAIN queue' : queue'[i] = queue'[j] => i = j
      BY <2>1, <3>2 DEF QueueSound
    <3>4. ASSUME NEW y \in Exchanges
          PROVE  place'[y] = "queued" <=> \E i \in DOMAIN queue' : queue'[i] = y
      <4>1. CASE y = x
        <5>1. place'[y] = "queued"
          BY <1>4, <4>1 DEF PoolInv, PoolTypeOK
        <5>2. Len(queue) + 1 \in DOMAIN queue' /\ queue'[Len(queue) + 1] = y
          BY <2>1, <4>1
        <5> QED BY <5>1, <5>2
      <4>2. CASE y # x
        BY <1>4, <2>1, <4>2 DEF PoolTypeOK, QueueSound
      <4> QED BY <4>1, <4>2
    <3> QED BY <3>1, <3>3, <3>4 DEF QueueSound
  <2> QED BY <2>2, <2>4, <2>5, <2>6
<1> QED BY <1>2, <1>3, <1>4 DEF acquire

\* A released connection joins the idle list, or not.
LEMMA KeptList ==
    ASSUME PoolInv, NEW open \in BOOLEAN, NEW x \in Exchanges, place[x] = "holding"
    PROVE  LET list == IF Kept(open) THEN Append(idle, 0) ELSE idle
           IN /\ list \in Seq(Nat)
              /\ Len(list) \in Nat
              /\ Len(list) <= Len(idle) + 1
              /\ active >= 1
              /\ active + Len(list) <= MaxConnections + 1
<1> DEFINE list == IF Kept(open) THEN Append(idle, 0) ELSE idle
<1>1. idle \in Seq(Nat) /\ Len(idle) \in Nat
  BY LenProperties DEF PoolInv, PoolTypeOK
<1>2. Append(idle, 0) \in Seq(Nat) /\ Len(Append(idle, 0)) = Len(idle) + 1
  BY <1>1, AppendProperties
<1>3. list \in Seq(Nat) /\ Len(list) \in Nat /\ Len(list) <= Len(idle) + 1
  BY <1>1, <1>2
<1>4. x \in Holding
  BY DEF Holding
<1>5. Cardinality(Holding) # 0
  BY <1>4, HoldingFinite, FS_EmptySet
<1>6. active \in Nat /\ active >= 1
  BY <1>5, HoldingFinite DEF PoolInv, PoolTypeOK, SlotsAccounted
<1>7. active + Len(list) <= MaxConnections + 1
  BY <1>1, <1>3, <1>6, LimitType DEF PoolInv, ConnectionsBounded
<1> QED BY <1>3, <1>6, <1>7

\* The slot of x goes to a waiter that the limit allows, or to nobody when it
\* allows none.
LEMMA ReleasePreserves ==
    ASSUME PoolInv, NEW x \in Exchanges, NEW open \in BOOLEAN, release(x, open)
    PROVE  PoolInv'
<1> DEFINE list == IF Kept(open) THEN Append(idle, 0) ELSE idle
<1>0. /\ place[x] = "holding"
      /\ ticking' \in BOOLEAN
      /\ ticking \in BOOLEAN
  BY DEF release, PoolInv, PoolTypeOK
<1>1. /\ list \in Seq(Nat)
      /\ Len(list) \in Nat
      /\ Len(list) <= Len(idle) + 1
      /\ active >= 1
      /\ active + Len(list) <= MaxConnections + 1
  BY <1>0, KeptList
<1> HIDE DEF list
<1>t. /\ place \in [Exchanges -> {"out", "queued", "holding"}]
      /\ active \in Nat
      /\ queue \in Seq(Exchanges)
      /\ Len(queue) \in Nat
      /\ DOMAIN queue = 1 .. Len(queue)
      /\ idle \in Seq(Nat)
      /\ Len(idle) \in Nat
  BY LenProperties DEF PoolInv, PoolTypeOK
<1>2. ASSUME NEW i \in 1 .. Len(queue),
             active - 1 < limit_for(queue[i]),
             Handover(x, i, list)
      PROVE  PoolInv'
  <2> DEFINE w == queue[i]
  <2>1. w \in Exchanges /\ w # x /\ place[w] = "queued"
    BY <1>0, <1>t DEF PoolInv, QueueSound
  <2> HIDE DEF w
  <2>2. /\ place' = [place EXCEPT ![x] = "out", ![w] = "holding"]
        /\ queue' = erase(queue, i)
        /\ idle' \in LeftIdle(list)
        /\ active' = active
    BY <1>2 DEF Handover, w
  <2>3. /\ queue' \in Seq(Exchanges)
        /\ Len(queue') = Len(queue) - 1
        /\ \A j, k \in DOMAIN queue' : queue'[j] = queue'[k] => j = k
        /\ \A j \in DOMAIN queue' : \E k \in DOMAIN queue : queue'[j] = queue[k]
        /\ \A y : (\E j \in DOMAIN queue' : queue'[j] = y)
                  <=> (y # w /\ \E k \in DOMAIN queue : queue[k] = y)
    <3>1. Distinct(queue)
      BY <1>t DEF PoolInv, QueueSound, Distinct
    <3>2. queue' \in Seq(Exchanges) /\ ErasedFrom(queue, i, queue')
      BY <1>t, <2>2, <3>1, Erases
    <3> QED BY <1>t, <3>2, Zenon DEF w, ErasedFrom
  <2>4. /\ idle' \in Seq(Nat)
        /\ Len(idle') \in Nat
        /\ Len(idle') <= Len(list)
        /\ list = <<>> \/ Len(idle') < Len(list)
    BY <1>1, <2>2, LeftIdleProperties, LenProperties
  <2>5. PoolTypeOK'
    BY Zenon, <1>0, <1>t, <2>1, <2>2, <2>3, <2>4 DEF PoolTypeOK
  <2>6. Holding' = (Holding \ {x}) \cup {w} /\ x \in Holding /\ w \notin Holding
    BY <1>0, <1>t, <2>1, <2>2 DEF Holding
  <2>7. Cardinality(Holding \ {x}) = Cardinality(Holding) - 1 /\ IsFiniteSet(Holding \ {x})
    BY <2>6, HoldingFinite, FS_RemoveElement
  <2>8. Cardinality(Holding') = Cardinality(Holding)
    <3>1. w \notin Holding \ {x}
      BY <2>6
    <3>2. Cardinality((Holding \ {x}) \cup {w}) = Cardinality(Holding \ {x}) + 1
      BY Zenon, <2>7, <3>1, FS_AddElement
    <3> QED BY <2>6, <2>7, <3>2, HoldingFinite
  <2>9. SlotsAccounted'
    BY <2>2, <2>8 DEF PoolInv, SlotsAccounted
  <2>10. SlotsBounded'
    <3>1. active' <= MaxConnections
      BY <2>2 DEF PoolInv, SlotsBounded
    <3>2. CASE w \in Priority
      <4>1. Holding' \ Priority \in SUBSET (Holding \ Priority)
        BY <2>6, <3>2
      <4>2. Cardinality(Holding' \ Priority) <= Cardinality(Holding \ Priority)
        BY <4>1, HoldingFinite, FS_Subset
      <4>3. Cardinality(Holding' \ Priority) \in Nat
        BY <4>1, HoldingFinite, FS_Subset, FS_CardinalityType
      <4> QED BY <3>1, <4>2, <4>3, HoldingFinite, LimitType DEF PoolInv, SlotsBounded
    <3>3. CASE w \notin Priority
      <4>1. active - 1 < OrdinaryLimit
        BY <1>2, <3>3 DEF limit_for, w
      <4>2. Holding' \ Priority \in SUBSET Holding'
        OBVIOUS
      <4>3. IsFiniteSet(Holding')
        BY <2>6, <2>7, FS_AddElement
      <4>4. /\ Cardinality(Holding' \ Priority) <= Cardinality(Holding')
            /\ Cardinality(Holding' \ Priority) \in Nat
        BY <4>2, <4>3, FS_Subset, FS_CardinalityType
      <4>5. Cardinality(Holding') = active
        BY <2>8 DEF PoolInv, SlotsAccounted
      <4> QED BY <1>t, <3>1, <4>1, <4>4, <4>5, LimitType DEF SlotsBounded
    <3> QED BY <3>2, <3>3
  <2>11. ConnectionsBounded'
    <3>1. CASE list = <<>>
      BY <1>t, <2>2, <2>4, <2>10, <3>1, LimitType, EmptySeq DEF ConnectionsBounded, SlotsBounded
    <3>2. CASE Len(idle') < Len(list)
      BY <1>1, <1>t, <2>2, <2>4, <3>2, LimitType DEF ConnectionsBounded
    <3> QED BY <2>4, <3>1, <3>2
  <2>12. NoSlotWasted'
    BY <1>t, <2>2, <2>3 DEF PoolInv, NoSlotWasted
  <2>13. QueueSound'
    <3>1. Len(queue') <= QueueDepth
      BY <1>t, <2>3, PoolAssumption DEF PoolInv, QueueSound
    <3>2. ASSUME NEW y \in Exchanges
          PROVE  place'[y] = "queued" <=> \E j \in DOMAIN queue' : queue'[j] = y
      <4>1. place'[y] = "queued" <=> (y # w /\ place[y] = "queued")
        BY <1>0, <1>t, <2>1, <2>2
      <4> QED BY Zenon, <2>3, <4>1 DEF PoolInv, QueueSound
    <3> QED BY <2>3, <3>1, <3>2 DEF QueueSound
  <2> QED BY <2>5, <2>9, <2>10, <2>11, <2>12, <2>13 DEF PoolInv
<1>3. ASSUME IF PriorityWaits THEN active - 1 >= MaxConnections
             ELSE queue = <<>> \/ active - 1 >= OrdinaryLimit,
             place' = [place EXCEPT ![x] = "out"],
             active' = active - 1,
             idle' = list,
             queue' = queue
      PROVE  PoolInv'
  <2>1. PoolTypeOK'
    BY <1>0, <1>1, <1>t, <1>3 DEF PoolTypeOK
  <2>2. Holding' = Holding \ {x} /\ x \in Holding
    BY <1>0, <1>t, <1>3 DEF Holding
  <2>3. Cardinality(Holding') = Cardinality(Holding) - 1
    BY Zenon, <2>2, HoldingFinite, FS_RemoveElement
  <2>4. SlotsAccounted'
    BY <1>3, <2>3 DEF PoolInv, SlotsAccounted
  <2>5. SlotsBounded'
    <3>1. Holding' \ Priority \in SUBSET (Holding \ Priority)
      BY <2>2
    <3>2. /\ Cardinality(Holding' \ Priority) <= Cardinality(Holding \ Priority)
          /\ Cardinality(Holding' \ Priority) \in Nat
      BY <3>1, HoldingFinite, FS_Subset, FS_CardinalityType
    <3> QED BY <1>t, <1>3, <3>2, HoldingFinite, LimitType DEF PoolInv, SlotsBounded
  <2>6. ConnectionsBounded'
    BY <1>1, <1>t, <1>3, LimitType DEF ConnectionsBounded
  <2>7. NoSlotWasted'
    <3> SUFFICES ASSUME NEW i \in 1 .. Len(queue)
                 PROVE  active - 1 >= limit_for(queue[i])
      BY <1>t, <1>3 DEF NoSlotWasted
    <3>1. queue # <<>>
      BY <1>t
    <3>2. CASE PriorityWaits
      BY <1>t, <1>3, <3>2, LimitType DEF limit_for
    <3>3. CASE ~PriorityWaits
      BY Zenon, <1>t, <1>3, <3>1, <3>3 DEF limit_for, PriorityWaits
    <3> QED BY <3>2, <3>3
  <2>8. QueueSound'
    BY <1>0, <1>t, <1>3 DEF PoolInv, QueueSound
  <2> QED BY <2>1, <2>4, <2>5, <2>6, <2>7, <2>8 DEF PoolInv
<1>4. \/ \E i \in DOMAIN queue :
            /\ active - 1 < limit_for(queue[i])
            /\ Handover(x, i, list)
      \/ /\ IF PriorityWaits THEN active - 1 >= MaxConnections
            ELSE queue = <<>> \/ active - 1 >= OrdinaryLimit
         /\ place' = [place EXCEPT ![x] = "out"]
         /\ active' = active - 1
         /\ idle' = list
         /\ queue' = queue
  <2>1. \/ /\ active - 1 < MaxConnections
           /\ \E i \in DOMAIN queue : queue[i] \in Priority /\ Handover(x, i, list)
        \/ /\ ~PriorityWaits
           /\ queue # <<>>
           /\ active - 1 < OrdinaryLimit
           /\ Handover(x, 1, list)
        \/ /\ IF PriorityWaits THEN active - 1 >= MaxConnections
              ELSE queue = <<>> \/ active - 1 >= OrdinaryLimit
           /\ place' = [place EXCEPT ![x] = "out"]
           /\ active' = active - 1
           /\ idle' = list
           /\ queue' = queue
    BY DEF release, list
  <2>2. ASSUME queue # <<>>, ~PriorityWaits, active - 1 < OrdinaryLimit
        PROVE  1 \in DOMAIN queue /\ active - 1 < limit_for(queue[1])
    <3>1. 1 \in DOMAIN queue
      BY <1>t, <2>2, EmptySeq
    <3> QED BY <2>2, <3>1 DEF PriorityWaits, limit_for
  <2>3. ASSUME NEW i \in DOMAIN queue, queue[i] \in Priority, active - 1 < MaxConnections
        PROVE  active - 1 < limit_for(queue[i])
    BY <2>3 DEF limit_for
  <2> QED BY <2>1, <2>2, <2>3
<1> QED BY <1>t, <1>2, <1>3, <1>4

LEMMA DequeuePreserves ==
    ASSUME PoolInv, NEW x \in Exchanges, dequeue(x)
    PROVE  PoolInv'
<1>t. /\ place \in [Exchanges -> {"out", "queued", "holding"}]
      /\ queue \in Seq(Exchanges)
      /\ Len(queue) \in Nat
      /\ DOMAIN queue = 1 .. Len(queue)
  BY LenProperties DEF PoolInv, PoolTypeOK
<1> PICK i \in 1 .. Len(queue) : /\ queue[i] = x
                                 /\ queue' = erase(queue, i)
                                 /\ place' = [place EXCEPT ![x] = "out"]
                                 /\ UNCHANGED <<active, idle, ticking>>
  BY <1>t DEF dequeue
<1>1. place[x] = "queued"
  BY <1>t DEF PoolInv, QueueSound
<1>2. /\ queue' \in Seq(Exchanges)
      /\ Len(queue') = Len(queue) - 1
      /\ \A j, k \in DOMAIN queue' : queue'[j] = queue'[k] => j = k
      /\ \A j \in DOMAIN queue' : \E k \in DOMAIN queue : queue'[j] = queue[k]
      /\ \A y : (\E j \in DOMAIN queue' : queue'[j] = y)
                <=> (y # x /\ \E k \in DOMAIN queue : queue[k] = y)
  <2>1. Distinct(queue)
    BY <1>t DEF PoolInv, QueueSound, Distinct
  <2>2. queue' \in Seq(Exchanges) /\ ErasedFrom(queue, i, queue')
    BY <1>t, <2>1, Erases
  <2> QED BY <1>t, <2>2, Zenon DEF ErasedFrom
<1>3. PoolTypeOK'
  BY <1>t, <1>2 DEF PoolInv, PoolTypeOK
<1>4. Holding' = Holding
  BY <1>t, <1>1 DEF Holding
<1>5. SlotsAccounted' /\ SlotsBounded' /\ ConnectionsBounded'
  BY <1>4 DEF PoolInv, SlotsAccounted, SlotsBounded, ConnectionsBounded
<1>6. NoSlotWasted'
  BY <1>t, <1>2 DEF PoolInv, NoSlotWasted
<1>7. QueueSound'
  <2>1. Len(queue') <= QueueDepth
    BY <1>t, <1>2, PoolAssumption DEF PoolInv, QueueSound
  <2>2. ASSUME NEW y \in Exchanges
        PROVE  place'[y] = "queued" <=> \E j \in DOMAIN queue' : queue'[j] = y
    <3>1. place'[y] = "queued" <=> (y # x /\ place[y] = "queued")
      BY <1>t
    <3> QED BY Zenon, <1>2, <3>1 DEF PoolInv, QueueSound
  <2> QED BY <1>2, <2>1, <2>2 DEF QueueSound
<1> QED BY <1>3, <1>5, <1>6, <1>7 DEF PoolInv

\* Sweeping drops connections from the front of the list.
LEMMA SweptList ==
    ASSUME NEW list \in Seq(Nat), NEW rest \in SweptIdle(list)
    PROVE  rest \in Seq(Nat) /\ Len(rest) <= Len(list)
<1>1. CASE IdleTimeout = 0
  <2>1. rest = list /\ Len(list) \in Nat
    BY <1>1, LenProperties DEF SweptIdle
  <2> QED BY <2>1
<1>2. CASE IdleTimeout # 0
  <2>1. PICK n \in 0 .. Len(list) : rest = SubSeq(list, n + 1, Len(list))
    BY <1>2 DEF SweptIdle
  <2>2. Len(list) \in Nat /\ n + 1 \in 1 .. Len(list) + 1
    BY LenProperties
  <2>3. /\ rest \in Seq(Nat)
        /\ Len(rest) = IF n + 1 <= Len(list) THEN Len(list) - (n + 1) + 1 ELSE 0
    BY <2>1, <2>2, SubSeqProperties
  <2> QED BY <2>2, <2>3
<1> QED BY <1>1, <1>2

LEMMA TickPreserves ==
    ASSUME PoolInv, tick
    PROVE  PoolInv'
<1> DEFINE aged == [n \in DOMAIN idle |-> Older(idle[n])]
<1>1. UNCHANGED <<place, active, queue>>
  BY DEF tick
<1>2. idle \in Seq(Nat) /\ Len(idle) \in Nat /\ DOMAIN idle = 1 .. Len(idle)
  BY LenProperties DEF PoolInv, PoolTypeOK
<1>3. aged \in Seq(Nat) /\ Len(aged) = Len(idle)
  <2>1. \A n \in 1 .. Len(idle) : Older(idle[n]) \in Nat
    BY <1>2, ElementOfSeq, PoolAssumption DEF Older
  <2> QED BY <1>2, <2>1
<1>4. idle' \in SweptIdle(aged) \/ idle' = aged
  BY DEF tick
<1> HIDE DEF aged
<1>5. idle' \in Seq(Nat) /\ Len(idle') <= Len(idle) /\ Len(idle') \in Nat
  <2>1. CASE idle' \in SweptIdle(aged)
    BY <1>3, <2>1, SweptList, LenProperties
  <2>2. CASE idle' = aged
    BY <1>2, <1>3, <2>2
  <2> QED BY <1>4, <2>1, <2>2
<1>6. ticking' \in BOOLEAN
  BY Zenon DEF tick, PoolInv, PoolTypeOK
<1>7. PoolTypeOK'
  BY <1>1, <1>5, <1>6 DEF PoolInv, PoolTypeOK
<1>8. ConnectionsBounded'
  BY <1>1, <1>2, <1>5, PoolAssumption DEF PoolInv, PoolTypeOK, ConnectionsBounded
<1>9. SlotsAccounted' /\ SlotsBounded' /\ NoSlotWasted' /\ QueueSound'
  BY <1>1 DEF PoolInv, Holding, SlotsAccounted, SlotsBounded, NoSlotWasted, QueueSound, limit_for
<1> QED BY <1>7, <1>8, <1>9 DEF PoolInv

LEMMA ArmPreserves ==
    ASSUME PoolInv, arm_tick
    PROVE  PoolInv'
  BY DEF arm_tick, PoolInv, PoolTypeOK, Holding, SlotsAccounted, SlotsBounded,
         ConnectionsBounded, NoSlotWasted, QueueSound, limit_for

LEMMA NextPreserves ==
    ASSUME PoolInv, [PoolNext]_pool_vars
    PROVE  PoolInv'
<1>1. CASE UNCHANGED pool_vars
  BY <1>1 DEF pool_vars, PoolInv, PoolTypeOK, Holding, SlotsAccounted, SlotsBounded,
              ConnectionsBounded, NoSlotWasted, QueueSound, limit_for
<1>2. CASE PoolNext
  BY <1>2, AcquirePreserves, ReleasePreserves, DequeuePreserves, TickPreserves,
         ArmPreserves DEF PoolNext
<1> QED BY <1>1, <1>2

\* For every number of exchanges, slots and queue places, in every interleaving
\* of acquire, release, dequeue and tick: the counter matches the holders, the
\* limit and the priority reserve hold, the connections stay within the limit,
\* and the queue is exactly the exchanges waiting.
THEOREM PoolSafety ==
    PoolSpec => [](/\ PoolTypeOK
               /\ SlotsAccounted
               /\ SlotsBounded
               /\ ConnectionsBounded
               /\ QueueSound)
<1>1. PoolInit => PoolInv
  BY InitPool
<1>2. PoolInv /\ [PoolNext]_pool_vars => PoolInv'
  BY NextPreserves
<1>3. PoolInv => PoolTypeOK /\ SlotsAccounted /\ SlotsBounded /\ ConnectionsBounded /\ QueueSound
  BY DEF PoolInv
<1> QED BY <1>1, <1>2, <1>3, PTL DEF PoolSpec, PoolSafetySpec

\* release() hands a slot to one waiter at most, and yet no exchange is ever
\* left waiting beside a slot that its class may take.
THEOREM PoolNoSlotWasted == PoolSpec => []NoSlotWasted
<1>1. PoolInit => PoolInv
  BY InitPool
<1>2. PoolInv /\ [PoolNext]_pool_vars => PoolInv'
  BY NextPreserves
<1>3. PoolInv => NoSlotWasted
  BY DEF PoolInv
<1> QED BY <1>1, <1>2, <1>3, PTL DEF PoolSpec, PoolSafetySpec

-----------------------------------------------------------------------------

\* Only release() gives a slot to a waiter, and it serves the first of those
\* its class lets it choose from.
LEMMA StepInTurn ==
    ASSUME PoolInv, PoolNext
    PROVE  InTurn
<1> SUFFICES ASSUME NEW i \in DOMAIN queue, NEW j \in DOMAIN queue,
                    place'[queue[j]] = "holding", place'[queue[i]] = "queued"
             PROVE  /\ queue[i] \notin Priority \/ (queue[j] \in Priority /\ j < i)
                    /\ queue[j] \in Priority \/ j < i
  BY DEF InTurn
<1>1. /\ Len(queue) \in Nat /\ DOMAIN queue = 1 .. Len(queue)
      /\ queue[i] \in Exchanges /\ queue[j] \in Exchanges
      /\ place \in [Exchanges -> {"out", "queued", "holding"}]
  BY ElementOfSeq, LenProperties DEF PoolInv, PoolTypeOK
<1>2. place[queue[i]] = "queued" /\ place[queue[j]] = "queued"
  BY <1>1 DEF PoolInv, QueueSound
<1>3. i # j
  OBVIOUS
<1>4. ASSUME NEW x \in Exchanges, NEW k \in DOMAIN queue, place[x] = "holding",
             place' = [place EXCEPT ![x] = "out", ![queue[k]] = "holding"]
      PROVE  k = j
  <2>1. queue[k] \in Exchanges
    BY <1>1, ElementOfSeq DEF PoolInv, PoolTypeOK
  <2>2. queue[j] = queue[k]
    BY <1>1, <1>2, <1>4, <2>1
  <2> QED BY <1>1, <2>2 DEF PoolInv, QueueSound
<1>5. ASSUME NEW x \in Exchanges, acquire(x) PROVE FALSE
  BY <1>1, <1>2, <1>5 DEF acquire, grant
<1>6. ASSUME NEW x \in Exchanges, NEW open \in BOOLEAN, release(x, open)
      PROVE  /\ queue[i] \notin Priority \/ (queue[j] \in Priority /\ j < i)
             /\ queue[j] \in Priority \/ j < i
  <2>1. CASE \E k \in DOMAIN queue :
                /\ queue[k] \in Priority
                /\ \A l \in 1 .. k - 1 : queue[l] \notin Priority
                /\ place' = [place EXCEPT ![x] = "out", ![queue[k]] = "holding"]
    <3>1. PICK k \in DOMAIN queue :
                /\ queue[k] \in Priority
                /\ \A l \in 1 .. k - 1 : queue[l] \notin Priority
                /\ place' = [place EXCEPT ![x] = "out", ![queue[k]] = "holding"]
      BY <2>1
    <3>2. k = j
      BY <1>4, <1>6, <3>1 DEF release
    <3> QED BY <1>1, <1>3, <3>1, <3>2
  <2>2. CASE /\ ~PriorityWaits /\ queue # <<>>
             /\ place' = [place EXCEPT ![x] = "out", ![queue[1]] = "holding"]
    <3>1. 1 \in DOMAIN queue
      BY <1>1
    <3>2. j = 1
      BY <1>4, <1>6, <2>2, <3>1 DEF release
    <3> QED BY <1>1, <1>3, <2>2, <3>2 DEF PriorityWaits
  <2>3. CASE place' = [place EXCEPT ![x] = "out"]
    BY <1>1, <1>2, <2>3
  <2> QED BY <1>6, <2>1, <2>2, <2>3 DEF release, Handover
<1>7. ASSUME NEW x \in Exchanges, dequeue(x) PROVE FALSE
  BY <1>1, <1>2, <1>7 DEF dequeue
<1>8. ASSUME tick \/ arm_tick PROVE FALSE
  BY <1>2, <1>8 DEF tick, arm_tick
<1> QED BY <1>5, <1>6, <1>7, <1>8 DEF PoolNext

\* For every queue and every mix of classes: no slot goes past an older waiter
\* of the same class or past a waiting priority request (release()).
THEOREM PoolNoOvertaking == PoolSpec => NoOvertaking
<1>1. PoolInit => PoolInv
  BY InitPool
<1>2. PoolInv /\ [PoolNext]_pool_vars => PoolInv'
  BY NextPreserves
<1>3. PoolInv /\ [PoolNext]_pool_vars => [InTurn]_pool_vars
  BY StepInTurn
<1> QED BY <1>1, <1>2, <1>3, PTL DEF PoolSpec, PoolSafetySpec, NoOvertaking
=============================================================================
