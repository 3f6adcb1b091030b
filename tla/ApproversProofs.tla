-------------------------- MODULE ApproversProofs --------------------------
(* For every number of approvers, secrets and time steps: no approval code is *)
(* accepted twice, and wrong ones are bounded in any ten minutes.             *)
EXTENDS Approvers, SequenceTheorems, FiniteSetTheorems, SequenceLemmas, TLAPS

\* The part of TypeOK that the argument needs.
Types ==
    /\ secret \in [Approvers -> Secrets]
    /\ last_step \in [Approvers -> Int]
    /\ uses \in [Codes -> Nat]

\* Why a used code is not accepted again: its secret was replaced, or its file
\* is gone and a new one holds a new secret, or its step is not above the last
\* one used.
Spent(c) ==
    \/ c.secret < secret[c.by]
    \/ c.secret = secret[c.by] /\ (c.by \in present => c.step <= last_step[c.by])

\* The strengthening of CodeOnce that every step preserves.
UsedIsSpent == \A c \in Codes : uses[c] = 0 \/ (uses[c] = 1 /\ Spent(c))

IInv == Types /\ UsedIsSpent

-----------------------------------------------------------------------------
\* A code's parts are an approver and integers.
LEMMA CodeParts ==
    ASSUME NEW c \in Codes
    PROVE  c.by \in Approvers /\ c.secret \in Int /\ c.step \in Int
<1>1. step_of(MaxTime) \in Int
    BY ApproversAssumption DEF step_of
<1>. QED  BY <1>1, ApproversAssumption DEF Codes, Secrets, Steps

LEMMA CodeOnceInit == Init => IInv
<1>1. 0 \in Secrets  BY ApproversAssumption DEF Secrets
<1>. QED  BY <1>1 DEF Init, IInv, Types, UsedIsSpent

LEMMA CodeOnceStep == IInv /\ [Next]_vars => IInv'
<1>. SUFFICES ASSUME IInv, [Next]_vars PROVE IInv'  OBVIOUS
<1>. USE DEF IInv
<1>1. ASSUME NEW a \in Approvers, add(a) PROVE IInv'
    <2>1. Types'
        BY <1>1, ApproversAssumption DEF add, Types, Secrets
    <2>2. ASSUME NEW c \in Codes, uses[c] = 1, Spent(c) PROVE Spent(c)'
        BY <1>1, <2>2, CodeParts, ApproversAssumption DEF add, Types, Secrets, Spent
    <2>3. UNCHANGED uses  BY <1>1 DEF add
    <2>. QED  BY <2>1, <2>2, <2>3 DEF UsedIsSpent
<1>2. ASSUME NEW a \in Approvers, remove(a) PROVE IInv'
    <2>1. Types'
        BY <1>2 DEF remove, Types
    <2>2. ASSUME NEW c \in Codes, uses[c] = 1, Spent(c) PROVE Spent(c)'
        BY <1>2, <2>2, CodeParts DEF remove, Types, Spent
    <2>3. UNCHANGED uses  BY <1>2 DEF remove
    <2>. QED  BY <2>1, <2>2, <2>3 DEF UsedIsSpent
<1>3. ASSUME NEW c \in Codes, accept(c) PROVE IInv'
    <2>. USE <1>3, CodeParts
    <2>1. /\ c.by \in present /\ c.secret = secret[c.by] /\ c.step > last_step[c.by]
          /\ last_step' = [last_step EXCEPT ![c.by] = c.step]
          /\ uses' = [uses EXCEPT ![c] = @ + 1]
          /\ UNCHANGED <<secret, present>>
        BY DEF accept, match
    <2>2. Types'
        BY <2>1 DEF Types
    <2>3. ~Spent(c)
        BY <2>1 DEF Spent, Types, Secrets
    <2>4. uses[c] = 0
        BY <2>3 DEF UsedIsSpent
    <2>5. ASSUME NEW d \in Codes, Spent(d) \/ d = c PROVE Spent(d)'
        BY <2>1, <2>5, ApproversAssumption DEF Spent, Types, Secrets
    <2>6. uses'[c] = 1 /\ \A d \in Codes : d # c => uses'[d] = uses[d]
        BY <2>1, <2>4 DEF Types
    <2>. QED  BY <2>2, <2>5, <2>6 DEF UsedIsSpent
<1>4. ASSUME UNCHANGED <<files, uses>> PROVE IInv'
    BY <1>4 DEF files, Types, UsedIsSpent, Spent
<1>5. ASSUME NEW c \in Codes \cup {WrongCode}, refuse(c) PROVE IInv'
    BY <1>4, <1>5 DEF refuse
<1>6. CASE Restart
    BY <1>4, <1>6 DEF Restart
<1>7. CASE Tick
    BY <1>4, <1>7 DEF Tick
<1>8. CASE UNCHANGED vars
    BY <1>4, <1>8 DEF vars
<1>. QED
    BY <1>1, <1>2, <1>3, <1>5, <1>6, <1>7, <1>8 DEF Next

\* No code is accepted twice, through new secrets, removals and restarts of the
\* process that checks (Checker::check with totp::match).
THEOREM CodesAcceptedOnce == Spec => []CodeOnce
<1>1. IInv => CodeOnce
    BY DEF IInv, UsedIsSpent, CodeOnce
<1>. QED
    BY <1>1, CodeOnceInit, CodeOnceStep, PTL DEF Spec

-----------------------------------------------------------------------------
(* GuessesBounded                                                             *)

GuessTypes ==
    /\ now \in Nat /\ locked_until_ \in Nat
    /\ failures_ \in Seq(Nat) /\ wrong \in Seq(Nat)

\* The wrong codes that Checker no longer counts.
Dismissed == 1 .. Len(wrong) - Len(failures_)

\* Why the bound holds: what Checker counts are the last of the wrong codes, and
\* each one before them is a window old, or will be when the lock ends.
GuessInv ==
    /\ GuessTypes
    /\ Len(failures_) < MaxFailures /\ Len(failures_) <= Len(wrong)
    /\ \A i \in 1 .. Len(failures_) : failures_[i] = wrong[Len(wrong) - Len(failures_) + i]
    /\ \A i, j \in 1 .. Len(wrong) : i <= j => wrong[i] <= wrong[j]
    /\ \A i \in 1 .. Len(wrong) : wrong[i] <= now
    /\ \A i \in Dismissed : wrong[i] + Window <= now \/ wrong[i] + Window <= locked_until_
    /\ GuessesBounded

\* push_back.
LEMMA OneMore ==
    ASSUME NEW q \in Seq(Nat), NEW t \in Nat
    PROVE  /\ Append(q, t) \in Seq(Nat)
           /\ Len(Append(q, t)) = Len(q) + 1
           /\ Append(q, t)[Len(q) + 1] = t
           /\ \A i \in 1 .. Len(q) : Append(q, t)[i] = q[i]
    BY AppendProperties

\* remove_if on times in order leaves a suffix of the young ones.
LEMMA RecentProperties ==
    ASSUME NEW fs \in Seq(Nat), now \in Nat,
           \A i, j \in 1 .. Len(fs) : i <= j => fs[i] <= fs[j]
    PROVE  \E p \in 0 .. Len(fs) :
              /\ Recent(fs) \in Seq(Nat) /\ Len(Recent(fs)) = Len(fs) - p
              /\ \A i \in 1 .. Len(fs) - p : Recent(fs)[i] = fs[p + i]
              /\ \A i \in 1 .. p : fs[i] + Window <= now
<1>. DEFINE old == {i \in DOMAIN fs : fs[i] <= now - Window}
            young == {i \in DOMAIN fs : fs[i] > now - Window}
<1>1. /\ Len(fs) \in Nat /\ DOMAIN fs = 1 .. Len(fs) /\ Window \in Nat
      /\ \A i \in 1 .. Len(fs) : fs[i] \in Nat
    BY LenProperties, ElementOfSeq, ApproversAssumption
<1>2. \E p \in 0 .. Len(fs) : old = 1 .. p
    <2>1. CASE young = {}
        <3>1. old = 1 .. Len(fs)
            BY <1>1, <2>1
        <3>. QED  BY <1>1, <3>1
    <2>2. CASE young # {}
        <3>1. young \subseteq Nat
            BY <1>1
        <3>2. PICK n \in young : \A m \in young : n <= m
            BY <2>2, <3>1, LeastNat
        <3>3. ASSUME NEW i \in 1 .. Len(fs) PROVE fs[i] <= now - Window <=> i < n
            <4>1. n \in 1 .. Len(fs) /\ fs[n] > now - Window /\ fs[i] \in Nat /\ fs[n] \in Nat
                BY <1>1
            <4>2. i < n => i \notin young
                BY <1>1, <3>2, <4>1
            <4>3. n <= i => fs[n] <= fs[i]
                BY <4>1
            <4>. QED  BY <1>1, <4>1, <4>2, <4>3
        <3>5. old = 1 .. n - 1
            BY <1>1, <3>3
        <3>4. n - 1 \in 0 .. Len(fs)
            BY <1>1
        <3>. QED  BY <3>4, <3>5
    <2>. QED  BY <2>1, <2>2
<1>3. PICK p \in 0 .. Len(fs) : old = 1 .. p
    BY <1>2
<1>4. Cardinality(old) = p
    <2>1. p \in Int /\ p >= 0
        BY <1>1
    <2>2. Cardinality(1 .. p) = IF 1 > p THEN 0 ELSE p - 1 + 1
        BY <2>1, FS_Interval
    <2>3. Cardinality(1 .. p) = p
        BY <2>1, <2>2
    <2>. QED  BY <1>3, <2>3
<1>5. Recent(fs) = SubSeq(fs, p + 1, Len(fs))
    BY <1>4 DEF Recent
<1>6. /\ Recent(fs) \in Seq(Nat) /\ Len(Recent(fs)) = Len(fs) - p
      /\ \A i \in 1 .. Len(fs) - p : Recent(fs)[i] = fs[p + i]
    <2>1. /\ \A i \in p + 1 .. Len(fs) : fs[i] \in Nat
          /\ p + 1 \in 1 .. Len(fs) + 1 /\ Len(fs) \in p + 1 - 1 .. Len(fs)
          /\ Len(fs) - (p + 1) + 1 = Len(fs) - p
        BY <1>1
    <2>2. /\ Recent(fs) \in Seq(Nat)
          /\ Len(Recent(fs)) = IF p + 1 <= Len(fs) THEN Len(fs) - (p + 1) + 1 ELSE 0
          /\ \A i \in 1 .. Len(fs) - (p + 1) + 1 : Recent(fs)[i] = fs[p + 1 + i - 1]
        BY <1>5, <2>1, SubSeqProperties
    <2>3. ASSUME NEW i \in 1 .. Len(fs) - p PROVE Recent(fs)[i] = fs[p + i]
        <3>1. i \in 1 .. Len(fs) - (p + 1) + 1 /\ p + 1 + i - 1 = p + i
            BY <1>1
        <3>. QED  BY <2>2, <3>1
    <2>4. Len(Recent(fs)) = Len(fs) - p
        <3>1. Len(Recent(fs)) = IF p + 1 <= Len(fs) THEN Len(fs) - (p + 1) + 1 ELSE 0
            BY <2>2
        <3>2. CASE p + 1 <= Len(fs)
            BY <1>1, <3>1, <3>2
        <3>3. CASE ~(p + 1 <= Len(fs))
            <4>1. p \in Int /\ Len(fs) \in Int /\ p <= Len(fs)
                BY <1>1
            <4>2. Len(fs) - p = 0
                BY <3>3, <4>1
            <4>. QED  BY <3>1, <3>3, <4>2
        <3>. QED  BY <3>2, <3>3
    <2>. QED  BY <2>2, <2>3, <2>4
<1>7. \A i \in 1 .. p : fs[i] + Window <= now
    BY <1>1, <1>3
<1>. QED  BY <1>6, <1>7

LEMMA GuessInit == Init => GuessInv
<1>. SUFFICES ASSUME Init PROVE GuessInv  OBVIOUS
<1>1. /\ now = 0 /\ locked_until_ = 0 /\ failures_ = <<>> /\ wrong = <<>>
      /\ Len(failures_) = 0 /\ Len(wrong) = 0
    BY DEF Init
<1>2. GuessTypes
    BY <1>1 DEF GuessTypes
<1>. QED  BY <1>1, <1>2, ApproversAssumption DEF GuessInv, Dismissed, GuessesBounded

\* Checker::check with a wrong code.
LEMMA GuessRefuse ==
    ASSUME GuessInv, NEW c, refuse(c)
    PROVE  GuessInv'
<1>. DEFINE n == Len(failures_)
            m == Len(wrong)
            counted == Append(Recent(failures_), now)
<1>1. /\ n \in Nat /\ m \in Nat /\ n <= m /\ n < MaxFailures /\ Window \in Nat /\ MaxFailures \in Nat
      /\ now \in Nat /\ locked_until_ \in Nat /\ locked_until_ <= now /\ now' = now
      /\ \A i \in 1 .. m : wrong[i] \in Nat
    BY LenProperties, ElementOfSeq, ApproversAssumption DEF GuessInv, GuessTypes, refuse, Open
<1>2. /\ wrong' \in Seq(Nat) /\ Len(wrong') = m + 1 /\ wrong'[m + 1] = now
      /\ \A i \in 1 .. m : wrong'[i] = wrong[i]
    BY <1>1, AppendProperties DEF GuessInv, GuessTypes, refuse
<1>3. /\ \A i \in 1 .. n : failures_[i] = wrong[m - n + i]
      /\ \A i, j \in 1 .. m : i <= j => wrong[i] <= wrong[j]
      /\ \A i \in 1 .. m : wrong[i] <= now
      /\ \A k \in 1 .. m - MaxFailures : wrong[k + MaxFailures] - wrong[k] >= Window
    BY DEF GuessInv, GuessesBounded
<1>4. \A i \in 1 .. m - n : wrong[i] + Window <= now
    BY <1>1 DEF GuessInv, Dismissed
<1>5. \A i, j \in 1 .. n : i <= j => failures_[i] <= failures_[j]
    <2>. SUFFICES ASSUME NEW i \in 1 .. n, NEW j \in 1 .. n, i <= j
                  PROVE  failures_[i] <= failures_[j]
        OBVIOUS
    <2>. HIDE DEF n, m
    <2>1. m - n + i \in 1 .. m /\ m - n + j \in 1 .. m /\ m - n + i <= m - n + j
        BY <1>1
    <2>. QED  BY <1>3, <2>1
<1>6. PICK p \in 0 .. n :
          /\ Recent(failures_) \in Seq(Nat) /\ Len(Recent(failures_)) = n - p
          /\ \A i \in 1 .. n - p : Recent(failures_)[i] = failures_[p + i]
          /\ \A i \in 1 .. p : failures_[i] + Window <= now
    BY <1>1, <1>5, RecentProperties DEF GuessInv, GuessTypes
<1>. HIDE DEF n, m
<1>7. /\ counted \in Seq(Nat) /\ Len(counted) = n - p + 1 /\ counted[n - p + 1] = now
      /\ \A i \in 1 .. n - p : counted[i] = failures_[p + i]
    <2>1. /\ counted \in Seq(Nat) /\ Len(counted) = Len(Recent(failures_)) + 1
          /\ counted[Len(Recent(failures_)) + 1] = now
          /\ \A i \in 1 .. Len(Recent(failures_)) : counted[i] = Recent(failures_)[i]
        <3>1. Recent(failures_) \in Seq(Nat) /\ now \in Nat
            BY <1>1, <1>6
        <3>. QED  BY <3>1, OneMore
    <2>. HIDE DEF counted
    <2>. QED  BY <1>1, <1>6, <2>1
<1>. HIDE DEF counted
<1>8. \A i \in 1 .. m - n + p : wrong[i] + Window <= now
    <2>. SUFFICES ASSUME NEW i \in 1 .. m - n + p, ~(i \in 1 .. m - n)
                  PROVE  wrong[i] + Window <= now
        BY <1>4
    <2>1. i - (m - n) \in 1 .. p /\ i - (m - n) \in 1 .. n /\ m - n + (i - (m - n)) = i
        BY <1>1
    <2>2. failures_[i - (m - n)] = wrong[i]
        BY <1>3, <2>1
    <2>. QED  BY <1>6, <2>1, <2>2
<1>9. /\ \A i, j \in 1 .. m + 1 : i <= j => wrong'[i] <= wrong'[j]
      /\ \A i \in 1 .. m + 1 : wrong'[i] <= now
    <2>1. ASSUME NEW i \in 1 .. m + 1 PROVE wrong'[i] <= now
        BY <1>1, <1>2, <1>3
    <2>2. ASSUME NEW i \in 1 .. m + 1, NEW j \in 1 .. m + 1, i <= j PROVE wrong'[i] <= wrong'[j]
        <3>1. CASE j = m + 1
            BY <1>2, <2>1, <3>1
        <3>2. CASE j # m + 1
            <4>1. i \in 1 .. m /\ j \in 1 .. m
                BY <1>1, <2>2, <3>2
            <4>. QED  BY <1>2, <1>3, <2>2, <4>1
        <3>. QED  BY <3>1, <3>2
    <2>. QED  BY <2>1, <2>2
<1>a. \A k \in 1 .. m + 1 - MaxFailures : wrong'[k + MaxFailures] - wrong'[k] >= Window
    <2>. SUFFICES ASSUME NEW k \in 1 .. m + 1 - MaxFailures
                  PROVE  wrong'[k + MaxFailures] - wrong'[k] >= Window
        OBVIOUS
    <2>1. CASE k + MaxFailures = m + 1
        <3>1. k \in 1 .. m - n /\ k \in 1 .. m
            BY <1>1, <2>1
        <3>2. wrong'[k + MaxFailures] = now /\ wrong'[k] = wrong[k] /\ wrong[k] \in Nat
            BY <1>1, <1>2, <2>1, <3>1
        <3>. QED  BY <1>1, <1>4, <3>1, <3>2
    <2>2. CASE k + MaxFailures # m + 1
        <3>1. k \in 1 .. m - MaxFailures /\ k \in 1 .. m /\ k + MaxFailures \in 1 .. m
            BY <1>1, <2>2
        <3>2. wrong'[k + MaxFailures] = wrong[k + MaxFailures] /\ wrong'[k] = wrong[k]
            BY <1>2, <3>1
        <3>. QED  BY <1>3, <3>1, <3>2
    <2>. QED  BY <2>1, <2>2
<1>b. /\ GuessesBounded'
      /\ \A i, j \in 1 .. Len(wrong') : i <= j => wrong'[i] <= wrong'[j]
      /\ \A i \in 1 .. Len(wrong') : wrong'[i] <= now'
    BY <1>1, <1>2, <1>9, <1>a DEF GuessesBounded
<1>c. CASE Len(counted) >= MaxFailures
    <2>1. locked_until_' = now + Window /\ failures_' = <<>> /\ Len(failures_') = 0
        BY <1>c DEF refuse, counted
    <2>2. GuessTypes'
        BY <1>1, <1>2, <2>1 DEF GuessTypes
    <2>3. \A i \in 1 .. m + 1 : wrong'[i] + Window <= locked_until_'
        <3>1. ASSUME NEW i \in 1 .. m + 1 PROVE wrong'[i] \in Nat
            BY <1>1, <1>2
        <3>. QED  BY <1>1, <1>9, <2>1, <3>1
    <2>4. Dismissed' = 1 .. m + 1
        BY <1>1, <1>2, <2>1 DEF Dismissed
    <2>5. Len(failures_') < MaxFailures /\ Len(failures_') <= Len(wrong')
        BY <1>1, <1>2, <2>1
    <2>. QED
        BY <1>b, <2>1, <2>2, <2>3, <2>4, <2>5 DEF GuessInv
<1>d. CASE ~(Len(counted) >= MaxFailures)
    <2>1. failures_' = counted /\ locked_until_' = locked_until_
        BY <1>d DEF refuse, counted
    <2>2. GuessTypes'
        BY <1>1, <1>2, <1>7, <2>1 DEF GuessTypes
    <2>3. Len(wrong') - Len(failures_') = m - n + p
        <3>1. Len(failures_') = n - p + 1
            BY <1>7, <2>1
        <3>. QED  BY <1>1, <1>2, <3>1
    <2>4. ASSUME NEW i \in 1 .. n - p + 1 PROVE counted[i] = wrong'[m - n + p + i]
        <3>1. CASE i = n - p + 1
            <4>1. m - n + p + i = m + 1
                BY <1>1, <3>1
            <4>. QED  BY <1>2, <1>7, <3>1, <4>1
        <3>2. CASE i # n - p + 1
            <4>1. /\ i \in 1 .. n - p /\ p + i \in 1 .. n /\ m - n + p + i \in 1 .. m
                  /\ m - n + p + i = m - n + (p + i)
                BY <1>1, <3>2
            <4>2. failures_[p + i] = wrong[m - n + p + i]
                BY <1>3, <4>1
            <4>. QED  BY <1>2, <1>7, <4>1, <4>2
        <3>. QED  BY <3>1, <3>2
    <2>5. \A i \in 1 .. Len(failures_') : failures_'[i] = wrong'[Len(wrong') - Len(failures_') + i]
        BY <1>7, <2>1, <2>3, <2>4
    <2>6. \A i \in Dismissed' : wrong'[i] + Window <= now'
        <3>1. Dismissed' = 1 .. m - n + p
            BY <2>3 DEF Dismissed
        <3>2. \A i \in 1 .. m - n + p : i \in 1 .. m
            BY <1>1
        <3>. QED  BY <1>1, <1>2, <1>8, <3>1, <3>2
    <2>7. Len(failures_') < MaxFailures /\ Len(failures_') <= Len(wrong')
        BY <1>1, <1>2, <1>7, <1>d, <2>1
    <2>. QED
        BY <1>b, <2>2, <2>5, <2>6, <2>7 DEF GuessInv
<1>. QED  BY <1>c, <1>d

LEMMA GuessStep == GuessInv /\ [Next]_vars => GuessInv'
<1>. SUFFICES ASSUME GuessInv, [Next]_vars PROVE GuessInv'  OBVIOUS
<1>1. ASSUME UNCHANGED <<now, checker, wrong>> PROVE GuessInv'
    BY <1>1 DEF checker, GuessInv, GuessTypes, Dismissed, GuessesBounded
<1>2. ASSUME NEW a \in Approvers, add(a) \/ remove(a) PROVE GuessInv'
    BY <1>1, <1>2 DEF add, remove
<1>3. ASSUME failures_' = <<>>, wrong' = <<>>, now' = now, locked_until_' \in Nat PROVE GuessInv'
    <2>1. Len(failures_') = 0 /\ Len(wrong') = 0
        BY <1>3
    <2>2. GuessTypes'
        BY <1>3 DEF GuessInv, GuessTypes
    <2>. QED  BY <2>1, <2>2, ApproversAssumption DEF GuessInv, Dismissed, GuessesBounded
<1>4. ASSUME NEW c \in Codes, accept(c) PROVE GuessInv'
    BY <1>3, <1>4 DEF accept, GuessInv, GuessTypes
<1>5. CASE Restart
    BY <1>3, <1>5 DEF Restart
<1>6. CASE Tick
    <2>1. now' = now + 1 /\ UNCHANGED <<failures_, locked_until_, wrong>> /\ now \in Nat /\ Window \in Nat
        BY <1>6, ApproversAssumption DEF Tick, checker, GuessInv, GuessTypes
    <2>2. GuessTypes' /\ GuessesBounded' /\ Dismissed' = Dismissed
        BY <2>1 DEF GuessInv, GuessTypes, Dismissed, GuessesBounded
    <2>3. /\ \A i \in 1 .. Len(wrong) : wrong[i] \in Nat
          /\ Len(wrong) \in Nat /\ Len(failures_) \in Nat /\ Len(failures_) <= Len(wrong)
        BY ElementOfSeq, LenProperties DEF GuessInv, GuessTypes
    <2>4. \A i \in 1 .. Len(wrong) : wrong[i] <= now + 1
        BY <2>1, <2>3 DEF GuessInv
    <2>5. \A i \in Dismissed : wrong[i] + Window <= now + 1 \/ wrong[i] + Window <= locked_until_
        BY <2>1, <2>3 DEF GuessInv, Dismissed
    <2>. QED  BY <2>1, <2>2, <2>4, <2>5 DEF GuessInv
<1>7. CASE UNCHANGED vars
    BY <1>1, <1>7 DEF vars
<1>. QED
    BY <1>2, <1>4, <1>5, <1>6, <1>7, GuessRefuse DEF Next

\* However wrong codes and waits follow each other: between two accepted codes
\* any kMaxFailures + 1 wrong ones span at least kWindow (Checker::check).
THEOREM WrongCodesBounded == Spec => []GuessesBounded
<1>1. GuessInv => GuessesBounded
    BY DEF GuessInv
<1>. QED
    BY <1>1, GuessInit, GuessStep, PTL DEF Spec
=============================================================================
