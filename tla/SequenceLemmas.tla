--------------------------- MODULE SequenceLemmas ---------------------------
(* What the proofs keep needing of the program's containers: a std::deque of   *)
(* waiters from which one is erased, and a count that has a first.             *)
EXTENDS Integers, Sequences, SequenceTheorems, WellFoundedInduction, TLAPS

\* A set of natural numbers has a least one.
LEMMA LeastNat ==
    ASSUME NEW S, S \subseteq Nat, S # {}
    PROVE  \E n \in S : \A m \in S : n <= m
<1>1. PICK n \in S : \A m \in S : ~(<<m, n>> \in OpToRel(<, Nat))
    BY NatLessThanWellFounded, WFMin, Zenon
<1>2. \A m \in S : ~(m < n)
    BY <1>1 DEF OpToRel
<1>. QED  BY <1>2

\* A sequence without its i-th element.
Without(q, i) == SubSeq(q, 1, i - 1) \o SubSeq(q, i + 1, Len(q))

\* What std::deque::erase leaves: the others, in their order.
LEMMA WithoutProperties ==
    ASSUME NEW S, NEW q \in Seq(S), NEW i \in 1 .. Len(q)
    PROVE  /\ Without(q, i) \in Seq(S)
           /\ Len(Without(q, i)) = Len(q) - 1
           /\ \A j \in 1 .. Len(q) - 1 :
                 Without(q, i)[j] = IF j < i THEN q[j] ELSE q[j + 1]
<1> DEFINE l == SubSeq(q, 1, i - 1)
           r == SubSeq(q, i + 1, Len(q))
<1>1. /\ l \in Seq(S)
      /\ Len(l) = i - 1
      /\ \A j \in 1 .. i - 1 : l[j] = q[j]
  <2>1. \A j \in 1 .. i - 1 : q[j] \in S
    BY ElementOfSeq
  <2> QED BY <2>1, SubSeqProperties
<1>2. /\ r \in Seq(S)
      /\ Len(r) = Len(q) - i
      /\ \A j \in 1 .. Len(q) - i : r[j] = q[j + i]
  <2>1. \A j \in i + 1 .. Len(q) : q[j] \in S
    BY ElementOfSeq
  <2> QED BY <2>1, SubSeqProperties
<1> HIDE DEF l, r
<1>3. /\ l \o r \in Seq(S)
      /\ Len(l \o r) = Len(q) - 1
      /\ \A j \in 1 .. Len(q) - 1 : (l \o r)[j] = IF j < i THEN q[j] ELSE q[j + 1]
  <2>1. Len(q) \in Nat
    BY LenProperties
  <2>2. /\ l \o r \in Seq(S)
        /\ Len(l \o r) = Len(l) + Len(r)
        /\ \A j \in 1 .. Len(l) + Len(r) :
              (l \o r)[j] = IF j <= Len(l) THEN l[j] ELSE r[j - Len(l)]
    BY Zenon, <1>1, <1>2, ConcatProperties
  <2>3. ASSUME NEW j \in 1 .. Len(q) - 1
        PROVE  (l \o r)[j] = IF j < i THEN q[j] ELSE q[j + 1]
    <3>1. CASE j < i
      BY <1>1, <1>2, <2>1, <2>2, <3>1
    <3>2. CASE ~(j < i)
      <4>1. j - Len(l) \in 1 .. Len(q) - i
        BY <1>1, <2>1, <3>2
      <4>2. r[j - Len(l)] = q[(j - Len(l)) + i]
        BY Zenon, <1>2, <4>1
      <4> QED BY <1>1, <1>2, <2>1, <2>2, <3>2, <4>2
    <3> QED BY Zenon, <3>1, <3>2
  <2> QED BY <1>1, <1>2, <2>1, <2>2, <2>3
<1> QED BY Zenon, <1>3 DEF Without, l, r

\* Erasing the i-th of distinct waiters: the rest stay distinct, and exactly
\* the erased one is gone.
Distinct(q) == \A j, k \in 1 .. Len(q) : q[j] = q[k] => j = k

ErasedFrom(q, i, r) ==
    /\ Len(r) = Len(q) - 1
    /\ DOMAIN r = 1 .. Len(q) - 1
    /\ \A j, k \in DOMAIN r : r[j] = r[k] => j = k
    /\ \A j \in DOMAIN r : \E k \in 1 .. Len(q) : r[j] = q[k]
    /\ \A y : (\E j \in DOMAIN r : r[j] = y)
              <=> (y # q[i] /\ \E k \in 1 .. Len(q) : q[k] = y)

LEMMA WithoutDistinct ==
    ASSUME NEW S, NEW q \in Seq(S), NEW i \in 1 .. Len(q), Distinct(q)
    PROVE  Without(q, i) \in Seq(S) /\ ErasedFrom(q, i, Without(q, i))
<1> DEFINE r == Without(q, i)
           at(j) == IF j < i THEN j ELSE j + 1
<1>0. Len(q) \in Nat
  BY LenProperties
<1>1. /\ r \in Seq(S)
      /\ Len(r) = Len(q) - 1
      /\ DOMAIN r = 1 .. Len(q) - 1
  BY WithoutProperties, LenProperties
<1>2. \A j \in 1 .. Len(q) - 1 : r[j] = q[at(j)]
  BY WithoutProperties
<1> HIDE DEF r
<1>3. \A j \in 1 .. Len(q) - 1 : at(j) \in 1 .. Len(q) /\ at(j) # i
  BY <1>0
<1>4. \A j, k \in 1 .. Len(q) - 1 : at(j) = at(k) => j = k
  BY <1>0
<1>5. ASSUME NEW k \in 1 .. Len(q), k # i
      PROVE  \E j \in 1 .. Len(q) - 1 : at(j) = k
  <2>1. CASE k < i
    <3>1. k \in 1 .. Len(q) - 1 /\ at(k) = k
      BY <1>0, <2>1
    <3> QED BY <3>1
  <2>2. CASE k > i
    <3>1. k - 1 \in 1 .. Len(q) - 1 /\ at(k - 1) = k
      BY <1>0, <2>2
    <3> QED BY Zenon, <3>1
  <2> QED BY <1>0, <1>5, <2>1, <2>2
<1> HIDE DEF at
<1>6. \A j, k \in DOMAIN r : r[j] = r[k] => j = k
  <2> SUFFICES ASSUME NEW j \in 1 .. Len(q) - 1, NEW k \in 1 .. Len(q) - 1, r[j] = r[k]
               PROVE  j = k
    BY <1>1
  <2>1. q[at(j)] = q[at(k)]
    BY <1>2
  <2>2. at(j) \in 1 .. Len(q) /\ at(k) \in 1 .. Len(q)
    BY <1>3
  <2>3. at(j) = at(k)
    BY <2>1, <2>2 DEF Distinct
  <2> QED BY <1>4, <2>3
<1>7. \A j \in DOMAIN r : \E k \in 1 .. Len(q) : r[j] = q[k]
  BY <1>1, <1>2, <1>3
<1>8. ASSUME NEW y
      PROVE  (\E j \in DOMAIN r : r[j] = y)
             <=> (y # q[i] /\ \E k \in 1 .. Len(q) : q[k] = y)
  <2>1. ASSUME NEW j \in DOMAIN r, r[j] = y
        PROVE  y # q[i] /\ \E k \in 1 .. Len(q) : q[k] = y
    <3>1. j \in 1 .. Len(q) - 1
      BY <1>1, <2>1
    <3>2. at(j) \in 1 .. Len(q) /\ at(j) # i /\ q[at(j)] = y
      BY <1>2, <1>3, <2>1, <3>1
    <3>3. q[at(j)] # q[i]
      BY <3>2 DEF Distinct
    <3> QED BY <3>2, <3>3
  <2>2. ASSUME y # q[i], NEW k \in 1 .. Len(q), q[k] = y
        PROVE  \E j \in DOMAIN r : r[j] = y
    BY Zenon, <1>1, <1>2, <1>5, <2>2
  <2> QED BY <2>1, <2>2
<1>9. ErasedFrom(q, i, r)
  BY <1>1, <1>6, <1>7, <1>8 DEF ErasedFrom
<1> QED BY <1>1, <1>9 DEF r
=============================================================================
