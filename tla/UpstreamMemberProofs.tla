------------------------ MODULE UpstreamMemberProofs ------------------------
(* Each address of a group is used as UpstreamPool says of a pool: every step *)
(* of the exchanges is one step, or none, of the pool of setting.here.        *)
EXTENDS UpstreamMember, UpstreamOnceProofs, UpstreamStepProofs

-----------------------------------------------------------------------------
(* What the pool of one address sees of a step, continued.                    *)

\* A slot given back, at h or elsewhere, and whom the pool of h sees end.
LEMMA GivesBackSeen ==
    ASSUME ExchangeAssumption, Inv, TickInv, NEW h \in Addresses,
           NEW x \in Exchanges, NEW e, NEW open \in BOOLEAN, NEW r, GivesBack(x, e, open, r)
    PROVE  FreedAt(h, x, open) \/ (StillAt(h) /\ ticking' = ticking)
<1>1. PICK a \in Addresses : a = ex[x].member
    BY DEF Inv, StateInv, ExchangeType
<1>2. /\ ex[x].phase \in Active /\ e.member = a /\ e.phase \in Ended /\ r \in release(pools[a], open)
      /\ Passed(x, e, r) /\ ticking' = ticking /\ pools' = [pools EXCEPT ![a] = r.pool]
    BY <1>1 DEF GivesBack, Like
<1>3. pools \in [Addresses -> PoolType]
    BY DEF Inv, StateInv
<1>4. Where(e, h) = "out"
    BY <1>2 DEF Where, Ended, Active
<1>5. CASE a = h
  <2>1. pools'[h] = r.pool /\ r \in release(pools[h], open) /\ ex[x].member = h
      BY <1>1, <1>2, <1>3, <1>5
  <2>. QED  BY Zenon, <1>2, <1>4, <2>1, FreesSeen
<1>6. CASE a # h
  <2>1. pools'[h] = pools[h] /\ pools[a] \in PoolType
      BY <1>2, <1>3, <1>6
  <2>2. GivenTo(pools[a], r)
      BY Zenon, <1>2, <2>1, Releases
  <2>3. Handed(x, e, a, r)
      BY Zenon, <1>2, <2>2, PassedPlaces
  <2>4. Where(ex[x], h) = "out" /\ Where(ex'[x], h) = "out"
      BY <1>1, <1>4, <1>6, <2>3 DEF Where, Handed
  <2>5. \A y \in Exchanges : Where(ex'[y], h) = Where(ex[y], h)
      BY <1>6, <2>3, <2>4 DEF Handed
  <2>. QED  BY <1>2, <2>1, <2>5 DEF StillAt, PlacesOf
<1>. QED  BY <1>5, <1>6

\* The address left is not the one asked next, while tried_ remembers it.
LEMMA MovesOnSeen ==
    ASSUME ExchangeAssumption, MaskHoldsGroup, Inv, TickInv, NEW h \in Addresses,
           NEW x \in Exchanges, NEW e, NEW b, NEW r, NEW g, MovesOn(x, e, b, r, g)
    PROVE  FreedAt(h, x, FALSE) \/ TookAt(h, x) \/ (StillAt(h) /\ ticking' = ticking)
<1>1. PICK a \in Addresses : a = ex[x].member
    BY DEF Inv, StateInv, ExchangeType
<1> DEFINE ps == [pools EXCEPT ![a] = r.pool]
<1>2. /\ ex[x].phase \in Active /\ b \in Addresses \ ex[x].tried /\ r \in release(pools[a], FALSE)
      /\ e.member = b /\ Asked(e, g.got) /\ Passed(x, e, r) /\ ticking' = ticking
      /\ g \in acquire(ps[b], x) /\ pools' = [ps EXCEPT ![b] = g.pool]
    BY Zenon, <1>1 DEF MovesOn
<1>3. a # b
  <2>1. InMask(a) \subseteq ex[x].tried
      BY <1>1, <1>2 DEF TickInv, Watch, Watched
  <2>2. GroupSize \in Nat /\ GroupSize <= MaskBits /\ MaskBits \in Nat
      BY DEF Inv, MaskHoldsGroup, ExchangeAssumption, GroupSize
  <2>3. a \in InMask(a)
      BY <2>2 DEF InMask, Addresses
  <2>. QED  BY <1>2, <2>1, <2>3
<1>4. pools \in [Addresses -> PoolType] /\ ticking = TRUE
    BY <1>2 DEF Inv, StateInv, TickInv, Watch, Watched
<1>5. pools'[a] = r.pool /\ pools'[b] = g.pool /\ ps[b] = pools[b]
      /\ \A c \in Addresses \ {a, b} : pools'[c] = pools[c]
    BY <1>2, <1>3, <1>4
<1> HIDE DEF ps
<1>6. GivenTo(pools[a], r)
    BY Zenon, <1>2, <1>4, Releases
<1>7. Handed(x, e, a, r)
    BY Zenon, <1>2, <1>6, PassedPlaces
<1>8. CASE h = a
  <2>1. Where(e, h) = "out"
      BY <1>2, <1>3, <1>8 DEF Where
  <2>2. pools'[h] = r.pool /\ r \in release(pools[h], FALSE) /\ ex[x].member = h
      BY Zenon, <1>1, <1>2, <1>5, <1>8
  <2>. QED  BY Zenon, <1>2, <2>1, <2>2, FreesSeen
<1>9. CASE h = b
  <2>1. Where(ex[x], h) = "out"
      BY <1>1, <1>3, <1>9 DEF Where
  <2>2. pools'[h] = g.pool /\ g \in acquire(pools[h], x) /\ e.member = h /\ ex'[x] = e
      BY <1>2, <1>5, <1>7, <1>9 DEF Handed
  <2>3. \A y \in Exchanges \ {x} : Where(ex'[y], h) = Where(ex[y], h)
      BY <1>3, <1>7, <1>9 DEF Handed
  <2>4. ticking' = TRUE
      BY <1>2, <1>4
  <2>. QED  BY Zenon, <1>2, <2>1, <2>2, <2>3, <2>4, AsksSeen
<1>10. CASE h # a /\ h # b
  <2>1. Where(ex[x], h) = "out" /\ Where(ex'[x], h) = "out"
      BY <1>1, <1>2, <1>7, <1>10 DEF Where, Handed
  <2>2. \A y \in Exchanges : Where(ex'[y], h) = Where(ex[y], h)
      BY <1>7, <1>10, <2>1 DEF Handed
  <2>3. pools'[h] = pools[h]
      BY <1>5, <1>10
  <2>. QED  BY <1>2, <2>2, <2>3 DEF StillAt, PlacesOf
<1>. QED  BY Zenon, <1>8, <1>9, <1>10

\* x begins, at h or elsewhere: watch() arms the tick.
LEMMA ComesSeen ==
    ASSUME ExchangeAssumption, Inv, NEW h \in Addresses,
           NEW x \in Exchanges, NEW e, NEW b, NEW g, Comes(x, e, b, g)
    PROVE  TookAt(h, x) \/ (StillAt(h) /\ ticking' = TRUE)
<1>1. ex \in [Exchanges -> ExchangeType] /\ pools \in [Addresses -> PoolType]
    BY DEF Inv, StateInv
<1>2. ex'[x] = e /\ \A y \in Exchanges \ {x} : ex'[y] = ex[y]
    BY <1>1 DEF Comes
<1>3. Where(ex[x], h) = "out"
    BY DEF Comes, Where, Active
<1>4. CASE b = h
  <2>1. g \in acquire(pools[h], x) /\ pools'[h] = g.pool /\ e.member = h /\ Asked(e, g.got)
        /\ ticking' = TRUE
      BY <1>1, <1>4 DEF Comes
  <2>2. \A y \in Exchanges \ {x} : Where(ex'[y], h) = Where(ex[y], h)
      BY <1>2
  <2>. QED  BY Zenon, <1>2, <1>3, <2>1, <2>2, AsksSeen
<1>5. CASE b # h
  <2>1. pools'[h] = pools[h] /\ e.member = b /\ ticking' = TRUE
      BY <1>1, <1>5 DEF Comes
  <2>2. Where(ex'[x], h) = "out"
      BY <1>2, <1>5, <2>1 DEF Where
  <2>3. \A y \in Exchanges : Where(ex'[y], h) = Where(ex[y], h)
      BY <1>2, <1>3, <2>2
  <2>. QED  BY <2>1, <2>3 DEF StillAt, PlacesOf
<1>. QED  BY <1>4, <1>5

\* x stops waiting: its queue_wait is over, or its client went away.
LEMMA LeavesSeen ==
    ASSUME Inv, NEW h \in Addresses, NEW x \in Exchanges, NEW e, NEW p, Leaves(x, e, p)
    PROVE  LeftAt(h, x) \/ (StillAt(h) /\ ticking' = ticking)
<1>1. ex \in [Exchanges -> ExchangeType] /\ pools \in [Addresses -> PoolType]
    BY DEF Inv, StateInv
<1>2. PICK a \in Addresses : a = ex[x].member
    BY <1>1 DEF ExchangeType
<1>3. /\ ex'[x] = e /\ \A y \in Exchanges \ {x} : ex'[y] = ex[y]
      /\ e.member = a /\ e.phase \in Ended /\ ex[x].phase = "queued" /\ ticking' = ticking
      /\ p \in dequeue(pools[a], x) /\ pools' = [pools EXCEPT ![a] = p]
    BY <1>1, <1>2 DEF Leaves, Like
<1>4. Where(ex'[x], h) = "out" /\ \A y \in Exchanges \ {x} : Where(ex'[y], h) = Where(ex[y], h)
    BY <1>3 DEF Where, Ended, Active
<1>5. CASE a = h
  <2> DEFINE q == pools[h].queue
  <2>1. q \in Seq(Exchanges) /\ Queued(a, q, ex) /\ pools[h] \in PoolType
      BY <1>1, <1>5 DEF Inv, StateInv, PoolType
  <2>2. PICK i \in DOMAIN q : q[i] = x /\ p = [pools[h] EXCEPT !.queue = erase(@, i)]
    <3>1. \E i \in DOMAIN q : q[i] = x
        BY <1>2, <1>3, <2>1 DEF Queued
    <3>. QED  BY <1>3, <1>5, <3>1, <2>1 DEF dequeue, Queued
  <2>3. pools'[h] = p /\ p.queue = erase(q, i) /\ p.active = pools[h].active /\ p.idle = pools[h].idle
      BY <1>1, <1>3, <1>5, <2>1, <2>2 DEF PoolType
  <2>4. PlacesOf(ex', h) = [PlacesOf(ex, h) EXCEPT ![x] = "out"]
      BY <1>4 DEF PlacesOf
  <2>. QED  BY Zenon, <1>3, <2>2, <2>3, <2>4 DEF LeftAt
<1>6. CASE a # h
  <2>1. Where(ex[x], h) = "out"
      BY <1>2, <1>6 DEF Where
  <2>2. pools'[h] = pools[h]
      BY <1>1, <1>3, <1>6
  <2>. QED  BY <1>3, <1>4, <2>1, <2>2 DEF StillAt, PlacesOf
<1>. QED  BY <1>5, <1>6

\* The worker's one tick is the tick of each of its pools.
LEMMA TickSeen ==
    ASSUME ExchangeAssumption, Inv, TickInv, NEW h \in Addresses, tick
    PROVE  TickAt(h)
<1> DEFINE idle == pools[h].idle
           kept == IF ticking THEN sweep_idle(Aged(idle)) ELSE Aged(idle)
<1>1. /\ pools \in [Addresses -> PoolType] /\ pools[h] \in PoolType /\ ticking \in BOOLEAN
      /\ \A y \in Exchanges : ex[y] \in ExchangeType
    BY DEF Inv, StateInv, TickInv
<1>2. pools'[h] = [pools[h] EXCEPT !.idle = kept]
    BY DEF tick, Aged
<1>3. Aged(idle) \in Seq(Nat)
  <2>1. idle \in Seq(Nat)
      BY <1>1 DEF PoolType
  <2>2. DOMAIN idle = 1 .. Len(idle) /\ Len(idle) \in Nat /\ \A n \in 1 .. Len(idle) : idle[n] \in Nat
      BY <2>1, LenProperties, ElementOfSeq
  <2>3. \A n \in 1 .. Len(idle) : Older(idle[n]) \in Nat
      BY <2>2 DEF Older
  <2>. QED  BY <2>2, <2>3 DEF Aged
<1> HIDE DEF kept
<1>4. pools'[h].idle = kept /\ pools'[h].active = pools[h].active /\ pools'[h].queue = pools[h].queue
    BY <1>1, <1>2 DEF PoolType
<1>5. \A y \in Exchanges : ex'[y].phase = ex[y].phase /\ ex'[y].member = ex[y].member
    BY <1>1 DEF tick, ExchangeType
<1>6. \A y \in Exchanges : Where(ex'[y], h) = Where(ex[y], h)
    BY <1>5 DEF Where
<1>7. PlacesOf(ex', h) = PlacesOf(ex, h)
    BY <1>6 DEF PlacesOf
<1>8. \A y \in Exchanges : PlacesOf(ex, h)[y] # "out" => ex[y].phase \in Watched
    BY DEF PlacesOf, Where, Watched
<1>9. ticking' = /\ ticking
                 /\ \/ \E x \in Exchanges : ex[x].phase \in Watched
                    \/ IdleTimeout > 0 /\ \E a \in Addresses : pools'[a].idle # <<>>
    BY DEF tick
<1>10. /\ ticking' \in BOOLEAN /\ (ticking' => ticking)
       /\ (ticking /\ \/ \E x \in Exchanges : PlacesOf(ex, h)[x] # "out"
                      \/ pools'[h].idle # <<>> /\ IdleTimeout > 0) => ticking'
    BY <1>1, <1>8, <1>9
<1>. QED  BY Zenon, <1>1, <1>3, <1>4, <1>7, <1>10 DEF TickAt, kept

-----------------------------------------------------------------------------
(* Its steps as steps of UpstreamPool.                                        *)

\* The two modules' names for erase, a limit, an age and where the exchanges are.
LEMMA SameNames ==
    /\ \A q, i : Pool!erase(q, i) = erase(q, i)
    /\ \A x : Pool!limit_for(x) = limit_for(x)
    /\ \A n : Pool!Older(n) = Older(n)
    /\ Pool!OrdinaryLimit = Ordinary
    BY DEF Pool!erase, erase, Pool!limit_for, limit_for, Pool!OrdinaryLimit, Pool!Older, Older, Ordinary

\* Place, before and after a step.
LEMMA Places ==
    ASSUME setting' = setting
    PROVE  Place = PlacesOf(ex, here) /\ Place' = PlacesOf(ex', here) /\ here' = here
    BY DEF Place, PlacesOf, Where, here

\* The kept connections that grant() leaves are those UpstreamPool leaves.
LEMMA LentLeaves ==
    ASSUME NEW list \in Seq(Nat), NEW l \in Lent(list)
    PROVE  l.idle \in Pool!LeftIdle(list)
<1>1. PICK n \in 0 .. Len(list) : /\ l = [idle |-> SubSeq(list, 1, n - 1), reused |-> n > 0]
                                  /\ \A k \in n + 1 .. Len(list) : list[k] > 0
    BY DEF Lent
<1>2. l.idle = SubSeq(list, 1, n - 1) /\ Pool!LendAt(list, n)
    BY <1>1 DEF Pool!LendAt
<1>3. Len(list) \in Nat
    BY LenProperties
<1>4. CASE n = 0
  <2>1. SubSeq(list, 1, 0 - 1) = <<>>
    BY <1>3
  <2>. QED  BY <1>2, <1>4, <2>1 DEF Pool!LeftIdle
<1>5. CASE n # 0
  <2>1. n \in {m \in 1 .. Len(list) : Pool!LendAt(list, m)}
      BY SMTT(30), <1>1, <1>2, <1>3, <1>5
  <2>. QED  BY <1>2, <2>1 DEF Pool!LeftIdle
<1>. QED  BY <1>4, <1>5

\* A slot taken, waited for or refused.
LEMMA TookRefines ==
    ASSUME Inv, setting' = setting, here \in Addresses, NEW x \in Exchanges, TookAt(here, x)
    PROVE  Pool!acquire(x)
<1>1. pools[here] \in PoolType /\ pools[here].idle \in Seq(Nat)
    BY DEF Inv, StateInv, PoolType
<1>2. \A l \in Lent(pools[here].idle) : l.idle \in Pool!LeftIdle(pools[here].idle)
    BY Zenon, <1>1, LentLeaves
<1>. QED  BY Zenon, <1>2, Places, SameNames DEF TookAt, Pool!acquire, Pool!grant

\* A slot given back.
LEMMA FreedRefines ==
    ASSUME Inv, setting' = setting, here \in Addresses, NEW x \in Exchanges,
           NEW open \in BOOLEAN, FreedAt(here, x, open)
    PROVE  Pool!release(x, open)
<1> DEFINE p == pools[here]
           q == pools'[here]
<1>1. p.idle \in Seq(Nat) /\ Listed(p, open) \in Seq(Nat)
  <2>1. p.idle \in Seq(Nat)
      BY DEF Inv, StateInv, PoolType
  <2>. QED  BY <2>1, AppendProperties DEF Listed
<1>2. /\ Listed(p, open) = IF Pool!Kept(open) THEN Append(p.idle, 0) ELSE p.idle
      /\ ticking' = (ticking \/ (Pool!Kept(open) /\ IdleTimeout > 0))
    BY Zenon DEF FreedAt, Listed, Pool!Kept
<1>3. Pool!PriorityWaits = \E i \in DOMAIN p.queue : p.queue[i] \in Priority
    BY DEF Pool!PriorityWaits
<1>4. /\ Place[x] = "holding" /\ Place = PlacesOf(ex, here) /\ Place' = PlacesOf(ex', here) /\ here' = here
    BY Zenon, Places DEF FreedAt
<1>5. CASE StaysFree(p, open, q) /\ PlacesOf(ex', here) = [PlacesOf(ex, here) EXCEPT ![x] = "out"]
    BY Zenon, <1>2, <1>3, <1>4, <1>5, SameNames DEF StaysFree, Unclaimed, Pool!release
<1>6. ASSUME NEW i \in DOMAIN p.queue, GoesTo(p, open, i, q),
             PlacesOf(ex', here) = [PlacesOf(ex, here) EXCEPT ![x] = "out", ![p.queue[i]] = "holding"]
      PROVE  Pool!release(x, open)
  <2>1. q.idle \in Pool!LeftIdle(Listed(p, open))
      BY Zenon, <1>1, <1>6, LentLeaves DEF GoesTo
  <2>2. Pool!Handover(x, i, Listed(p, open))
      BY Zenon, <1>4, <1>6, <2>1, SameNames DEF GoesTo, Pool!Handover
  <2>. QED  BY Zenon, <1>2, <1>3, <1>4, <1>6, <2>2, SameNames DEF GoesTo, TurnOf, Pool!release
<1>. QED  BY Zenon, <1>5, <1>6 DEF FreedAt

\* A waiter gone.
LEMMA LeftRefines ==
    ASSUME setting' = setting, NEW x \in Exchanges, LeftAt(here, x) PROVE Pool!dequeue(x)
    BY Zenon, Places, SameNames DEF LeftAt, Pool!dequeue

\* Nothing of the pool.
LEMMA StillRefines ==
    ASSUME setting' = setting, StillAt(here)
    PROVE  /\ ticking' = ticking => UNCHANGED Pool!pool_vars
           /\ ticking' = TRUE => Pool!arm_tick
    BY Zenon, Places DEF StillAt, Pool!pool_vars, Pool!arm_tick

\* The tick.
LEMMA TickRefines ==
    ASSUME ExchangeAssumption, setting' = setting, TickAt(here)
    PROVE  Pool!tick
<1> DEFINE aged == Aged(pools[here].idle)
           kept == pools'[here].idle
<1>1. /\ aged \in Seq(Nat) /\ kept = (IF ticking THEN sweep_idle(aged) ELSE aged)
      /\ pools'[here].active = pools[here].active /\ pools'[here].queue = pools[here].queue
    BY Zenon DEF TickAt
<1>2. aged = [n \in DOMAIN pools[here].idle |-> Pool!Older(pools[here].idle[n])]
    BY Zenon, SameNames DEF Aged
<1> HIDE DEF aged
<1>3. kept \in IF ticking THEN Pool!SweptIdle(aged) ELSE {aged}
  <2>1. CASE ~ticking
      BY <1>1, <2>1
  <2>2. CASE ticking /\ IdleTimeout = 0
      BY <1>1, <2>2 DEF sweep_idle, Pool!SweptIdle
  <2>3. CASE ticking /\ IdleTimeout # 0
    <3> DEFINE n == Expired(aged)
    <3>1. /\ n \in 0 .. Len(aged)
          /\ \A k \in 1 .. n : aged[k] > IdleTimeout
          /\ n < Len(aged) => aged[n + 1] <= IdleTimeout
        BY Zenon, <1>1, ExpiredFirst
    <3>2. kept = SubSeq(aged, n + 1, Len(aged))
        BY Zenon, <1>1, <2>3 DEF sweep_idle
    <3> HIDE DEF n
    <3>. QED  BY SMTT(30), <2>3, <3>1, <3>2 DEF Pool!SweptIdle
  <2>. QED  BY <2>1, <2>2, <2>3
<1>4. Place' = Place /\ here' = here /\ Place = PlacesOf(ex, here)
    BY Zenon, Places DEF TickAt
<1>5. ticking' \in IF ticking /\ (\/ \E x \in Exchanges : Place[x] # "out"
                                  \/ kept # <<>> /\ IdleTimeout > 0)
                   THEN {TRUE} ELSE {FALSE, ticking}
    BY Zenon, <1>4 DEF TickAt
<1>. QED  BY Zenon, <1>1, <1>2, <1>3, <1>4, <1>5 DEF Pool!tick

\* A step of a handler is one of the pool, or none.
LEMMA StepsRefine ==
    ASSUME ExchangeAssumption, MaskHoldsGroup, Inv, TickInv, setting' = setting, here \in Addresses,
           NEW x \in Exchanges, Steps(x)
    PROVE  Pool!PoolNext \/ UNCHANGED Pool!pool_vars
<1>1. PICK h \in Addresses : h = here
    OBVIOUS
<1>2. \/ \E open \in BOOLEAN : FreedAt(h, x, open)
      \/ TookAt(h, x) \/ LeftAt(h, x) \/ (StillAt(h) /\ (ticking' = ticking \/ ticking' = TRUE))
    BY Zenon, StaysSeen, GivesBackSeen, MovesOnSeen, ComesSeen, LeavesSeen DEF Steps
<1>3. \/ \E open \in BOOLEAN : FreedAt(here, x, open)
      \/ TookAt(here, x) \/ LeftAt(here, x) \/ (StillAt(here) /\ (ticking' = ticking \/ ticking' = TRUE))
    BY Zenon, <1>1, <1>2
<1>. QED  BY Zenon, <1>3, FreedRefines, TookRefines, LeftRefines, StillRefines DEF Pool!PoolNext

\* Every step of the worker is one of the pool, or none, and keeps the tick's invariant.
LEMMA NextRefines ==
    ASSUME ExchangeAssumption, MaskHoldsGroup, Inv, TickInv, [Next]_vars
    PROVE  TickInv' /\ (here \in Addresses => Pool!PoolNext \/ UNCHANGED Pool!pool_vars)
<1>1. CASE UNCHANGED vars
  <2>1. UNCHANGED Pool!pool_vars
      BY SMTT(30), <1>1 DEF vars, Pool!pool_vars, Place, here
  <2>2. TickInv'
      BY <1>1 DEF vars, TickInv, Watch, InMask
  <2>. QED  BY Zenon, <2>1, <2>2
<1>2. CASE Next
  <2>1. setting' = setting
      BY <1>2 DEF Next
  <2>2. ASSUME NEW x \in Exchanges, Steps(x)
        PROVE  TickInv' /\ (here \in Addresses => Pool!PoolNext \/ UNCHANGED Pool!pool_vars)
      BY Zenon, <2>1, <2>2, StepsRefine, StepsWatched
  <2>3. ASSUME NEW x \in Exchanges, begin(x) \/ cancel(x) \/ on_tick(x) \/ pull(x) PROVE Steps(x)
      BY Zenon, <2>3, BeginSteps, CancelSteps, OverdueSteps, PullSteps
  <2>4. ASSUME NEW o \in ops, \/ on_connect(o) \/ on_handshake(o) \/ on_head_written(o)
                              \/ on_pulled(o) \/ on_body_written(o) \/ on_read(o)
        PROVE  o.x \in Exchanges /\ Steps(o.x)
    <3>1. o.x \in Exchanges
        BY Found
    <3>. QED  BY Zenon, <2>4, <3>1, ConnectSteps, HandshakeSteps, HeadSteps, PulledSteps, BodySteps, ReadSteps
  <2>5. ASSUME tick PROVE here \in Addresses => Pool!tick
    <3>1. ASSUME NEW h \in Addresses PROVE TickAt(h)
        BY Zenon, <2>5, TickSeen
    <3>. QED  BY Zenon, <2>1, <3>1, TickRefines
  <2>6. CASE tick
      BY Zenon, <2>5, <2>6, TickWatched DEF Pool!PoolNext
  <2>7. ASSUME NEW a \in Addresses, Recover(a)
        PROVE  TickInv' /\ UNCHANGED Pool!pool_vars
    <3>1. UNCHANGED <<ex, pools, ticking>>
        BY SMTT(30), <2>7 DEF Recover
    <3>2. UNCHANGED Pool!pool_vars
        BY <2>1, <3>1 DEF Pool!pool_vars, Place, here
    <3>. QED  BY SMTT(30), <3>1, <3>2 DEF TickInv, Watch, InMask
  <2>. QED  BY Zenon, <1>2, <2>2, <2>3, <2>4, <2>6, <2>7 DEF Next
<1>. QED  BY Zenon, <1>1, <1>2

\* A worker's first state is one of the pool.
LEMMA PoolsBegin == ASSUME Init PROVE PoolBegins /\ TickInv
<1>1. ex = [x \in Exchanges |-> NewExchange] /\ NewExchange.phase = "new" /\ ticking = FALSE
    BY DEF Init, NewExchange
<1>2. Place = [x \in Exchanges |-> "out"]
    BY SMTT(30), <1>1 DEF Place, Active
<1>3. here \in Addresses => /\ pools[here].active = 0 /\ pools[here].queue = <<>>
                            /\ pools[here].idle = <<>>
    BY DEF Init
<1>4. TickInv
    BY Zenon, <1>1 DEF TickInv, Watch, Watched, Active
<1>. QED  BY <1>1, <1>2, <1>3, <1>4 DEF PoolBegins, Pool!PoolInit

\* Across failovers, cancels, timeouts and late handlers, each address of a group is used as
\* UpstreamPool says of a pool, for every number of requests, group within the mask, pool and
\* schedule of handlers: no slot is lost, taken twice or given to one out of turn (begin,
\* release, dequeue, on_tick).
THEOREM MemberImplementsPool == ASSUME ExchangeAssumption, MaskHoldsGroup PROVE Spec => PoolsImplemented
<1>1. Init => Inv /\ TickInv /\ PoolBegins
    BY SMTT(30), InvInit, PoolsBegin
<1>2. Inv /\ TickInv /\ [Next]_vars => Inv' /\ TickInv' /\ PoolGoesOn
    BY Zenon, InvStep, NextRefines DEF PoolGoesOn
<1>3. Inv /\ TickInv /\ [Next]_vars => [PoolGoesOn]_vars
    BY <1>2
<1>. QED  BY <1>1, <1>2, <1>3, PTL DEF Spec, PoolsImplemented
=============================================================================
