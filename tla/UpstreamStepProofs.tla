------------------------- MODULE UpstreamStepProofs -------------------------
(* What each handler of an exchange does to the pools: it stays at its slot,   *)
(* gives it back, moves on to another member, comes or leaves the line.       *)
EXTENDS UpstreamExchangeProofs

\* tried_ has a bit for every member: the code takes larger groups too, and then a
\* member past the mask may be left and asked again in one step.
MaskHoldsGroup == \A s \in Settings : s.size <= MaskBits

\* The tick is armed while an exchange is watched, and tried_ has its member.
Watch(e, t) == e.phase \in Watched => t /\ InMask(e.member) \subseteq e.tried

TickInv == ticking \in BOOLEAN /\ \A x \in Exchanges : Watch(ex[x], ticking)

\* f is at the member where e is, and has tried the same.
Like(e, f) == f.member = e.member /\ f.tried = e.tried

\* The exchanges when x goes on as e and whom r names begins.
Passed(x, e, r) ==
    ex' = [y \in Exchanges |-> IF y = x THEN e
                               ELSE IF y \in r.to THEN on_slot(ex[y], r.reused) ELSE ex[y]]

\* What asking for a slot makes of e.
Asked(e, got) ==
    /\ got = "slot" => e.phase \in Active
    /\ got = "queued" => e.phase = "queued"
    /\ got = "refused" => e.phase = "failed"

\* x stays where it is.
Stays(x, e) ==
    /\ Like(ex[x], e) /\ (e.phase = ex[x].phase \/ (e.phase \in Active /\ ex[x].phase \in Active))
    /\ ex' = [ex EXCEPT ![x] = e] /\ pools' = pools /\ ticking' = ticking

\* x ends and gives its slot back.
GivesBack(x, e, open, r) ==
    /\ ex[x].phase \in Active /\ Like(ex[x], e) /\ e.phase \in Ended
    /\ r \in release(pools[ex[x].member], open)
    /\ pools' = [pools EXCEPT ![ex[x].member] = r.pool]
    /\ Passed(x, e, r) /\ ticking' = ticking

\* x gives its slot back and asks for one at b, which it has not tried.
MovesOn(x, e, b, r, g) ==
    /\ ex[x].phase \in Active /\ b \in Addresses \ ex[x].tried
    /\ r \in release(pools[ex[x].member], FALSE)
    /\ e.member = b /\ e.tried = ex[x].tried \cup InMask(b) /\ Asked(e, g.got)
    /\ LET ps == [pools EXCEPT ![ex[x].member] = r.pool]
       IN g \in acquire(ps[b], x) /\ pools' = [ps EXCEPT ![b] = g.pool]
    /\ Passed(x, e, r) /\ ticking' = ticking

\* x begins, at b.
Comes(x, e, b, g) ==
    /\ ex[x].phase = "new" /\ b \in Addresses
    /\ g \in acquire(pools[b], x) /\ pools' = [pools EXCEPT ![b] = g.pool]
    /\ e.member = b /\ InMask(b) \subseteq e.tried /\ Asked(e, g.got)
    /\ ex' = [ex EXCEPT ![x] = e] /\ ticking' = TRUE

\* x ends while it waits.
Leaves(x, e, p) ==
    /\ ex[x].phase = "queued" /\ Like(ex[x], e) /\ e.phase \in Ended
    /\ p \in dequeue(pools[ex[x].member], x) /\ pools' = [pools EXCEPT ![ex[x].member] = p]
    /\ ex' = [ex EXCEPT ![x] = e] /\ ticking' = ticking

\* One of these.
Steps(x) ==
    \/ \E e : Stays(x, e)
    \/ \E e, r : \E open \in BOOLEAN : GivesBack(x, e, open, r)
    \/ \E e, b, r, g : MovesOn(x, e, b, r, g)
    \/ \E e, b, g : Comes(x, e, b, g)
    \/ \E e, p : Leaves(x, e, p)

\* on_slot() leaves an exchange at its member.
LEMMA SlotHolds ==
    ASSUME NEW e \in ExchangeType, NEW reused
    PROVE  LET f == on_slot(e, reused) IN f.member = e.member /\ f.tried = e.tried /\ f.phase \in Active
<1>1. CASE reused
  <2> DEFINE f == on_slot(e, reused)
  <2>1. f = [send_head(e) EXCEPT !.attempts = @ + 1, !.reused = TRUE]
      BY <1>1 DEF on_slot
  <2>2. f.member = e.member /\ f.tried = e.tried /\ f.phase = "sending"
      BY <2>1 DEF send_head, arm, ExchangeType
  <2>. QED  BY <2>2 DEF Active
<1>2. CASE ~reused
  <2> DEFINE f == on_slot(e, reused)
  <2>1. f = connect(e)
      BY <1>2 DEF on_slot
  <2>2. f.member = e.member /\ f.tried = e.tried /\ f.phase = "connecting"
      BY <2>1 DEF connect, arm, ExchangeType
  <2>. QED  BY <2>2 DEF Active
<1>. QED  BY <1>1, <1>2

\* Who is handed a slot was watched already.
LEMMA PassedWatched ==
    ASSUME Inv, TickInv, NEW x \in Exchanges, ex[x].phase \in Active, NEW e, NEW a \in Addresses, NEW r,
           GivenTo(pools[a], r), Passed(x, e, r), Watch(e, ticking), ticking' = ticking
    PROVE  TickInv'
<1>1. StateInv(ex, ops, pools) /\ \A y \in Exchanges : ex[y] \in ExchangeType
    BY Parts DEF Inv
<1>2. ex'[x] = e /\ \A y \in Exchanges \ {x} : ex'[y] = IF y \in r.to THEN on_slot(ex[y], r.reused) ELSE ex[y]
    BY SMTT(30) DEF Passed
<1>3. \A y \in r.to : y \in Exchanges /\ ex[y].phase = "queued" /\ ex[y].member = a
    BY SMTT(30), <1>1, GivenWaits
<1>4. ASSUME NEW y \in Exchanges PROVE Watch(ex'[y], ticking)
  <2>1. CASE y = x
      BY SMTT(30), <1>2, <2>1
  <2>2. CASE y # x /\ y \notin r.to
      BY SMTT(30), <1>2, <2>2 DEF TickInv
  <2>3. CASE y # x /\ y \in r.to
    <3>1. ex'[y] = on_slot(ex[y], r.reused) /\ ex[y].phase = "queued"
        BY SMTT(30), <1>2, <1>3, <2>3
    <3>2. ex'[y].member = ex[y].member /\ ex'[y].tried = ex[y].tried
        BY SMTT(30), <1>1, <3>1, SlotHolds
    <3>3. ticking /\ InMask(ex[y].member) \subseteq ex[y].tried
        BY <3>1 DEF TickInv, Watch, Watched
    <3>. QED  BY SMTT(30), <3>2, <3>3 DEF Watch
  <2>. QED  BY SMTT(30), <2>1, <2>2, <2>3
<1>. QED  BY <1>4 DEF TickInv, Watch, InMask

\* What the handlers do keeps it.
LEMMA StepsWatched ==
    ASSUME Inv, TickInv, NEW x \in Exchanges, Steps(x)
    PROVE  TickInv'
<1>1. ex \in [Exchanges -> ExchangeType] /\ pools \in [Addresses -> PoolType]
    BY DEF Inv, StateInv
<1>2. ASSUME NEW e, Stays(x, e) \/ (\E p : Leaves(x, e, p)) PROVE TickInv'
  <2>1. ex'[x] = e /\ (\A y \in Exchanges \ {x} : ex'[y] = ex[y]) /\ ticking' = ticking
      BY SMTT(30), <1>1, <1>2 DEF Stays, Leaves
  <2>2. Watch(e, ticking)
      BY <1>2 DEF Stays, Leaves, Like, Watch, Watched, TickInv, Ended, Active
  <2>. QED  BY SMTT(30), <2>1, <2>2 DEF TickInv, Watch, InMask
<1>3. ASSUME NEW e, NEW r, NEW open \in BOOLEAN, GivesBack(x, e, open, r) PROVE TickInv'
  <2>1. PICK a \in Addresses : a = ex[x].member
      BY <1>1 DEF ExchangeType
  <2>2. ex[x].phase \in Active /\ Passed(x, e, r) /\ r \in release(pools[a], open) /\ e.phase \in Ended
        /\ ticking' = ticking
      BY SMTT(30), <1>3, <2>1 DEF GivesBack
  <2>3. GivenTo(pools[a], r) /\ Watch(e, ticking)
      BY <1>1, <2>2, Releases DEF Watch, Watched, Ended, Active
  <2>. QED  BY Zenon, <2>2, <2>3, PassedWatched
<1>4. ASSUME NEW e, NEW b, NEW r, NEW g, MovesOn(x, e, b, r, g) PROVE TickInv'
  <2>1. PICK a \in Addresses : a = ex[x].member
      BY SMTT(30), <1>1 DEF ExchangeType
  <2>2. ex[x].phase \in Active /\ Passed(x, e, r) /\ r \in release(pools[a], FALSE)
        /\ e.member = b /\ e.tried = ex[x].tried \cup InMask(b) /\ ticking' = ticking
      BY Zenon, <1>4, <2>1 DEF MovesOn
  <2>3. GivenTo(pools[a], r)
      BY Zenon, <1>1, <2>2, Releases
  <2>4. Watch(e, ticking)
      BY <2>2 DEF Watch, Watched, TickInv
  <2>. QED  BY Zenon, <2>2, <2>3, <2>4, PassedWatched
<1>5. ASSUME NEW e, NEW b, NEW g, Comes(x, e, b, g) PROVE TickInv'
  <2>1. ex'[x] = e /\ (\A y \in Exchanges \ {x} : ex'[y] = ex[y]) /\ ticking' = TRUE
      BY SMTT(30), <1>1, <1>5 DEF Comes
  <2>2. Watch(e, TRUE)
      BY <1>5 DEF Comes, Watch
  <2>. QED  BY <2>1, <2>2 DEF TickInv, Watch, InMask
<1>. QED  BY SMTT(30), <1>2, <1>3, <1>4, <1>5 DEF Steps

\* A tick stops when nobody is watched.
LEMMA TickWatched == ASSUME Inv, TickInv, tick PROVE TickInv'
<1>1. \A y \in Exchanges : ex[y] \in ExchangeType
    BY DEF Inv, StateInv
<1>2. \A y \in Exchanges : ex'[y].phase = ex[y].phase /\ ex'[y].member = ex[y].member
                           /\ ex'[y].tried = ex[y].tried
    BY <1>1 DEF tick, ExchangeType
<1>3. ticking' \in BOOLEAN /\ \A y \in Exchanges : ticking /\ ex[y].phase \in Watched => ticking'
    BY DEF tick, TickInv
<1>. QED  BY <1>2, <1>3 DEF TickInv, Watch, InMask

\* pick() answers a member that was not tried.
LEMMA PicksUntried ==
    ASSUME ExchangeAssumption, setting \in Settings, NEW h, NEW order, NEW start \in Nat, NEW tried
    PROVE  pick(h, order, start, tried) \subseteq Addresses \ tried
<1>1. pick(h, order, start, tried) \subseteq Addresses
    BY Picks
<1>2. ASSUME NEW a \in pick(h, order, start, tried) PROVE a \notin tried
    BY SMTT(30) DEF pick
<1>. QED  BY <1>1, <1>2

\* x alone goes on.
LEMMA GoesSteps ==
    ASSUME Inv, NEW x \in Exchanges, NEW e, NEW os, Goes(x, e, os), Like(ex[x], e),
           e.phase = ex[x].phase \/ (e.phase \in Active /\ ex[x].phase \in Active)
    PROVE  Steps(x)
<1>1. Stays(x, e)
    BY SMTT(30) DEF Goes, Stays
<1>. QED  BY <1>1 DEF Steps

\* x ends (finish, cancel, fail).
LEMMA EndSteps ==
    ASSUME NEW x \in Exchanges, ex[x].phase \in Active, NEW e, Like(ex[x], e), e.phase \in Ended,
           NEW open \in BOOLEAN, NEW os, release_connection(x, e, open, os), ticking' = ticking
    PROVE  Steps(x)
<1>1. PICK r \in release(pools[e.member], open) :
          /\ pools' = [pools EXCEPT ![e.member] = r.pool]
          /\ Passed(x, e, r)
    BY Zenon DEF release_connection, Passed
<1>2. GivesBack(x, e, open, r)
    BY <1>1 DEF GivesBack, Like
<1>. QED  BY <1>2 DEF Steps

\* Its end leaves an exchange at its member.
LEMMA EndsThere ==
    ASSUME NEW e \in ExchangeType, NEW phase
    PROVE  LET f == deliver_head([e EXCEPT !.phase = phase]) IN Like(e, f) /\ f.phase = phase
    BY SMTT(30) DEF deliver_head, Like, ExchangeType

\* What Begun makes of e.
AtSlot(e, b, g) ==
    LET q == [arm(e) EXCEPT !.phase = "queued", !.member = b, !.tried = @ \cup InMask(b)]
    IN CASE g.got = "slot" -> on_slot(q, g.reused)
         [] g.got = "queued" -> q
         [] g.got = "refused" -> Failed(q)

\* It is at b, which it has tried, and as acquire() says.
LEMMA BegunAsks ==
    ASSUME NEW e \in ExchangeType, NEW b \in Addresses, NEW p \in PoolType, NEW x \in Exchanges,
           NEW g \in acquire(p, x)
    PROVE  LET f == AtSlot(e, b, g)
           IN f.member = b /\ f.tried = e.tried \cup InMask(b) /\ Asked(f, g.got)
<1> DEFINE q == [arm(e) EXCEPT !.phase = "queued", !.member = b, !.tried = @ \cup InMask(b)]
           f == AtSlot(e, b, g)
<1>1. e.tried \cup InMask(b) \subseteq Addresses
    BY DEF InMask, ExchangeType
<1>2. q \in ExchangeType /\ q.phase = "queued" /\ q.member = b /\ q.tried = e.tried \cup InMask(b)
  <2> DEFINE tried == e.tried \cup InMask(b)
             s == [e EXCEPT !.late = FALSE, !.phase = "queued", !.member = b, !.tried = tried]
  <2>1. q = s
      BY DEF arm, ExchangeType
  <2>2. tried \in SUBSET Addresses
      BY <1>1
  <2> HIDE DEF tried
  <2>3. s \in ExchangeType /\ s.phase = "queued" /\ s.member = b /\ s.tried = tried
      BY Zenon, <2>2 DEF ExchangeType, Phases
  <2>. QED  BY Zenon, <2>1, <2>3 DEF tried
<1>3. f = CASE g.got = "slot" -> on_slot(q, g.reused) [] g.got = "queued" -> q [] g.got = "refused" -> Failed(q)
    BY DEF AtSlot
<1>4. g.got \in {"slot", "queued", "refused"}
    BY SMTT(30), Acquires
<1> HIDE DEF q, f
<1>5. CASE g.got = "slot"
  <2>1. f = on_slot(q, g.reused)
      BY SMTT(30), <1>3, <1>5
  <2>2. f.member = q.member /\ f.tried = q.tried /\ f.phase \in Active
      BY SMTT(30), <1>2, <2>1, SlotHolds
  <2>. QED  BY <1>2, <1>5, <2>2 DEF Asked, f
<1>6. CASE g.got = "queued"
  <2>1. f = q
      BY SMTT(30), <1>3, <1>6
  <2>. QED  BY <1>2, <1>6, <2>1 DEF Asked, f
<1>7. CASE g.got = "refused"
  <2>1. f = deliver_head([q EXCEPT !.phase = "failed"])
      BY <1>3, <1>7 DEF Failed
  <2>2. Like(q, f) /\ f.phase = "failed"
      BY <1>2, <2>1, EndsThere
  <2>. QED  BY <1>2, <1>7, <2>2 DEF Asked, Like, f
<1>. QED  BY SMTT(30), <1>4, <1>5, <1>6, <1>7

\* fail(): the exchange ends, or goes on at a member it has not tried.
LEMMA FailSteps ==
    ASSUME ExchangeAssumption, Inv, NEW x \in Exchanges, ex[x].phase \in Active,
           NEW e \in ExchangeType, Like(ex[x], e), NEW counted, NEW os, fail(x, e, counted, os)
    PROVE  Steps(x)
<1> DEFINE a == e.member
<1>1. a \in Addresses /\ a = ex[x].member
    BY DEF ExchangeType, Like
<1>2. e.member = a /\ e.tried = ex[x].tried /\ ticking' = ticking /\ a \in Nat
  <2>1. ticking' = ticking
      BY Zenon DEF fail
  <2>2. e.member = a /\ e.tried = ex[x].tried
      BY Zenon, <1>1 DEF Like
  <2>3. GroupSize \in Nat
      BY GroupType DEF Inv
  <2>. QED  BY <1>1, <2>1, <2>2, <2>3 DEF Addresses
<1> DEFINE h == IF counted THEN mark_failure(health, a) ELSE health
           order == IF counted THEN MarkOrder(a) ELSE marks
           next == IF MayMove(x, e) THEN pick(h, order, a, e.tried) ELSE {}
<1>3. CASE release_connection(x, Failed(e), FALSE, os)
  <2>1. Like(e, Failed(e)) /\ Failed(e).phase = "failed"
      BY SMTT(30), EndsThere DEF Failed
  <2>2. Like(ex[x], Failed(e)) /\ Failed(e).phase \in Ended
      BY <2>1 DEF Like, Ended
  <2>. QED  BY Zenon, <1>2, <1>3, <2>2, EndSteps
<1>4. ASSUME NEW b \in next, NEW r \in release(pools[a], FALSE),
             Begun(x, Moved(e), b,
                   [pools EXCEPT ![a] = r.pool],
                   [y \in Exchanges |-> IF y \in r.to THEN on_slot(ex[y], r.reused) ELSE ex[y]],
                   Closed(x, os) \cup {SlotOp(w, a, r.reused) : w \in r.to})
      PROVE  Steps(x)
  <2> DEFINE es == [y \in Exchanges |-> IF y \in r.to THEN on_slot(ex[y], r.reused) ELSE ex[y]]
             ps == [pools EXCEPT ![a] = r.pool]
  <2>1. setting \in Settings /\ pools \in [Addresses -> PoolType] /\ StateInv(ex, ops, pools)
      BY SMTT(30) DEF Inv, StateInv
  <2>2. b \in Addresses \ ex[x].tried
    <3>1. b \in pick(h, order, a, e.tried)
        BY Zenon, <1>4
    <3>2. pick(h, order, a, e.tried) \subseteq Addresses \ e.tried
        BY Zenon, <1>2, <2>1, PicksUntried
    <3>. QED  BY Zenon, <1>2, <3>1, <3>2
  <2>3. r.pool \in PoolType /\ GivenTo(pools[a], r)
      BY Zenon, <1>1, <1>4, <2>1, Releases
  <2>4. PICK g \in acquire(ps[b], x) : /\ pools' = [ps EXCEPT ![b] = g.pool]
                                       /\ ex' = [es EXCEPT ![x] = AtSlot(Moved(e), b, g)]
      BY Zenon, <1>4 DEF Begun, AtSlot
  <2>5. ps[b] \in PoolType
    <3>1. ps \in [Addresses -> PoolType]
        BY Zenon, <2>1, <2>3
    <3>. QED  BY Zenon, <2>2, <3>1
  <2>6. Moved(e) \in ExchangeType /\ Moved(e).tried = e.tried
      BY Zenon DEF Moved, ExchangeType
  <2> DEFINE f == AtSlot(Moved(e), b, g)
  <2>7. f.member = b /\ f.tried = Moved(e).tried \cup InMask(b) /\ Asked(f, g.got)
      BY Zenon, <2>2, <2>4, <2>5, <2>6, BegunAsks
  <2> HIDE DEF f
  <2>8. x \notin r.to
    <3>1. \A w \in r.to : ex[w].phase = "queued"
        BY <1>1, <2>1, <2>3, GivenWaits
    <3>. QED  BY Zenon, <3>1 DEF Active
  <2>9. Passed(x, f, r)
    <3>1. ex' = [es EXCEPT ![x] = f]
        BY Zenon, <2>4 DEF f
    <3>. QED  BY Zenon, <2>8, <3>1 DEF Passed
  <2>10. MovesOn(x, f, b, r, g)
      BY Zenon, <1>1, <1>2, <1>4, <2>2, <2>4, <2>6, <2>7, <2>9 DEF MovesOn
  <2>. QED  BY Zenon, <2>10 DEF Steps
<1>. QED  BY Zenon, <1>2, <1>3, <1>4 DEF fail

\* A handler that fails its exchange.
LEMMA FailedBySteps ==
    ASSUME ExchangeAssumption, Inv, NEW o \in ops, ex[o.x].phase \in Active,
           NEW e \in ExchangeType, Like(ex[o.x], e), FailedBy(o, e, ops \ {o})
    PROVE  Steps(o.x)
<1>1. o.x \in Exchanges
    BY Found
<1>2. fail(o.x, e, TRUE, ops \ {o})
    BY Zenon DEF FailedBy
<1>. QED  BY Zenon, <1>1, <1>2, FailSteps

\* The clock, a phase and the counts of an exchange are not where it is.
LEMMA StaysLike ==
    ASSUME NEW e \in ExchangeType
    PROVE  /\ Like(e, e) /\ Like(e, arm(e)) /\ arm(e).phase = e.phase
           /\ \A s : Like(e, [arm(e) EXCEPT !.phase = s]) /\ [arm(e) EXCEPT !.phase = s].phase = s
           /\ Like(e, send_head(e)) /\ send_head(e).phase = "sending"
           /\ Like(e, connect(e)) /\ connect(e).phase = "connecting"
           /\ Like(e, [arm(e) EXCEPT !.reading = TRUE]) /\ [arm(e) EXCEPT !.reading = TRUE].phase = e.phase
           /\ Like(e, [arm(e) EXCEPT !.left = @ - 1]) /\ [arm(e) EXCEPT !.left = @ - 1].phase = e.phase
<1>1. Like(e, e) /\ Like(e, arm(e)) /\ arm(e).phase = e.phase
    BY DEF Like, arm, ExchangeType
<1>2. \A s : Like(e, [arm(e) EXCEPT !.phase = s]) /\ [arm(e) EXCEPT !.phase = s].phase = s
    BY DEF Like, arm, ExchangeType
<1>3. Like(e, send_head(e)) /\ send_head(e).phase = "sending"
    BY DEF Like, arm, send_head, ExchangeType
<1>4. Like(e, connect(e)) /\ connect(e).phase = "connecting"
    BY DEF Like, arm, connect, ExchangeType
<1>5. Like(e, [arm(e) EXCEPT !.reading = TRUE]) /\ [arm(e) EXCEPT !.reading = TRUE].phase = e.phase
    BY DEF Like, arm, ExchangeType
<1>6. Like(e, [arm(e) EXCEPT !.left = @ - 1]) /\ [arm(e) EXCEPT !.left = @ - 1].phase = e.phase
    BY DEF Like, arm, ExchangeType
<1>. QED  BY Zenon, <1>1, <1>2, <1>3, <1>4, <1>5, <1>6

\* read_more: x is read from, or left until its client has taken more.
LEMMA ReadMoreSteps ==
    ASSUME Inv, NEW x \in Exchanges, ex[x].phase \in Active, NEW e \in ExchangeType, Like(ex[x], e),
           e.phase \in Active, NEW os, read_more(x, e, os)
    PROVE  Steps(x)
<1>1. CASE Goes(x, e, os)
    BY Zenon, <1>1, GoesSteps
<1>2. CASE Goes(x, [arm(e) EXCEPT !.reading = TRUE], os \cup {Op(x, e.member, "read")})
  <2> DEFINE f == [arm(e) EXCEPT !.reading = TRUE]
  <2>1. Like(e, f) /\ f.phase = e.phase
      BY Zenon, StaysLike
  <2> HIDE DEF f
  <2>2. Like(ex[x], f) /\ f.phase \in Active
      BY <2>1 DEF Like
  <2>3. Goes(x, f, os \cup {Op(x, e.member, "read")})
      BY <1>2 DEF f
  <2>. QED  BY Zenon, <2>2, <2>3, GoesSteps
<1>. QED  BY <1>1, <1>2 DEF read_more

\* body_sent.
LEMMA BodySentSteps ==
    ASSUME Inv, MaxChunks \in Nat, NEW x \in Exchanges, ex[x].phase \in Active, NEW os, body_sent(x, ex[x], os)
    PROVE  Steps(x)
<1> DEFINE f == [ex[x] EXCEPT !.phase = "receiving", !.left = MaxChunks]
<1>1. ex[x] \in ExchangeType
    BY DEF Inv, StateInv
<1>2. f \in ExchangeType /\ Like(ex[x], f) /\ f.phase = "receiving"
    BY Zenon, <1>1 DEF ExchangeType, Phases, Like
<1>3. read_more(x, f, os)
    BY DEF body_sent
<1> HIDE DEF f
<1>4. f.phase \in Active
    BY <1>2 DEF Active
<1>. QED  BY Zenon, <1>2, <1>3, <1>4, ReadMoreSteps

\* try_retry.
LEMMA RetrySteps ==
    ASSUME Inv, NEW x \in Exchanges, ex[x].phase \in Active, NEW e \in ExchangeType, Like(ex[x], e),
           NEW os, try_retry(x, e, os)
    PROVE  Steps(x)
<1>1. Like(e, connect(e)) /\ connect(e).phase = "connecting"
    BY Zenon, StaysLike
<1>2. Like(ex[x], connect(e)) /\ connect(e).phase \in Active
    BY <1>1 DEF Like, Active
<1>3. Goes(x, connect(e), os \cup {Op(x, e.member, "connect")})
    BY DEF try_retry
<1>. QED  BY Zenon, <1>2, <1>3, GoesSteps

\* The handlers of the connection: connect, handshake, head and body.
LEMMA ConnectSteps == ASSUME ExchangeAssumption, Inv, NEW o \in ops, on_connect(o) PROVE Steps(o.x)
<1> DEFINE x == o.x
           e == ex[x]
           os == ops \ {o}
<1>1. x \in Exchanges /\ e \in ExchangeType /\ Like(e, e)
    BY Found DEF Like
<1>2. CASE e.phase # "connecting"
  <2>1. Goes(x, e, os)
      BY <1>2 DEF on_connect
  <2>. QED  BY Zenon, <1>1, <2>1, GoesSteps
<1>3. CASE e.phase = "connecting"
  <2>1. e.phase \in Active
      BY <1>3 DEF Active
  <2>2. CASE FailedBy(o, e, os)
      BY Zenon, <1>1, <2>1, <2>2, FailedBySteps
  <2>3. ASSUME NEW f, Goes(x, f, os \cup {Op(x, e.member, "head")}) \/ Goes(x, f, os \cup {Op(x, e.member, "handshake")}),
               Like(e, f), f.phase = "sending"
        PROVE  Steps(x)
    <3>1. f.phase \in Active
        BY <2>3 DEF Active
    <3>. QED  BY Zenon, <1>1, <2>1, <2>3, <3>1, GoesSteps
  <2>4. /\ Like(e, send_head(e)) /\ send_head(e).phase = "sending"
        /\ Like(e, [arm(e) EXCEPT !.phase = "sending"]) /\ [arm(e) EXCEPT !.phase = "sending"].phase = "sending"
    <3>1. Like(e, send_head(e)) /\ send_head(e).phase = "sending"
        BY Zenon, <1>1, StaysLike
    <3>2. Like(e, [arm(e) EXCEPT !.phase = "sending"]) /\ [arm(e) EXCEPT !.phase = "sending"].phase = "sending"
        BY <1>1 DEF Like, arm, ExchangeType
    <3>. QED  BY Zenon, <3>1, <3>2
  <2>5. \/ FailedBy(o, e, os)
        \/ Goes(x, send_head(e), os \cup {Op(x, e.member, "head")})
        \/ Goes(x, [arm(e) EXCEPT !.phase = "sending"], os \cup {Op(x, e.member, "handshake")})
      BY Zenon, <1>3 DEF on_connect
  <2>. QED  BY Zenon, <2>2, <2>3, <2>4, <2>5
<1>. QED  BY <1>2, <1>3

\* The TLS handshake of a new connection ended.
LEMMA HandshakeSteps == ASSUME ExchangeAssumption, Inv, NEW o \in ops, on_handshake(o) PROVE Steps(o.x)
<1> DEFINE x == o.x
           e == ex[x]
           os == ops \ {o}
<1>1. x \in Exchanges /\ e \in ExchangeType /\ Like(e, e)
    BY Found DEF Like
<1>2. CASE e.phase # "sending"
  <2>1. Goes(x, e, os)
      BY <1>2 DEF on_handshake
  <2>. QED  BY Zenon, <1>1, <2>1, GoesSteps
<1>3. CASE e.phase = "sending"
  <2>1. e.phase \in Active
      BY SMTT(30), <1>3 DEF Active
  <2>2. CASE FailedBy(o, e, os)
      BY Zenon, <1>1, <2>1, <2>2, FailedBySteps
  <2>3. CASE Goes(x, send_head(e), os \cup {Op(x, e.member, "head")})
    <3>1. Like(e, send_head(e)) /\ send_head(e).phase = "sending"
        BY Zenon, <1>1, StaysLike
    <3>2. send_head(e).phase \in Active
        BY <3>1 DEF Active
    <3>. QED  BY Zenon, <1>1, <2>1, <2>3, <3>1, <3>2, GoesSteps
  <2>. QED  BY Zenon, <1>3, <2>2, <2>3 DEF on_handshake
<1>. QED  BY SMTT(30), <1>2, <1>3

\* The request head was written.
LEMMA HeadSteps == ASSUME ExchangeAssumption, Inv, NEW o \in ops, on_head_written(o) PROVE Steps(o.x)
<1> DEFINE x == o.x
           e == ex[x]
           os == ops \ {o}
<1>1. x \in Exchanges /\ e \in ExchangeType /\ Like(e, e)
    BY Found DEF Like
<1>2. CASE e.phase # "sending"
  <2>1. Goes(x, e, os)
      BY <1>2 DEF on_head_written
  <2>. QED  BY Zenon, <1>1, <2>1, GoesSteps
<1>3. CASE e.phase = "sending"
  <2>1. e.phase \in Active
      BY <1>3 DEF Active
  <2>2. CASE try_retry(x, e, os)
      BY Zenon, <1>1, <2>1, <2>2, RetrySteps
  <2>3. CASE FailedBy(o, e, os)
      BY Zenon, <1>1, <2>1, <2>3, FailedBySteps
  <2>4. CASE Goes(x, [arm(e) EXCEPT !.phase = "sending_body"], os \cup {BodyOp(x, e)})
    <3> DEFINE f == [arm(e) EXCEPT !.phase = "sending_body"]
    <3>1. Like(e, f) /\ f.phase = "sending_body"
        BY <1>1 DEF Like, arm, ExchangeType
    <3> HIDE DEF f
    <3>2. f.phase \in Active
        BY <3>1 DEF Active
    <3>3. Goes(x, f, os \cup {BodyOp(x, e)})
        BY <2>4 DEF f
    <3>. QED  BY Zenon, <1>1, <2>1, <3>1, <3>2, <3>3, GoesSteps
  <2>5. CASE fail(x, e, FALSE, os)
      BY Zenon, <1>1, <2>1, <2>5, FailSteps
  <2>6. CASE body_sent(x, e, os)
    <3>1. MaxChunks \in Nat
        BY GroupType DEF Inv
    <3>. QED  BY Zenon, <1>1, <2>1, <2>6, <3>1, BodySentSteps
  <2>. QED  BY Zenon, <1>3, <2>2, <2>3, <2>4, <2>5, <2>6 DEF on_head_written
<1>. QED  BY <1>2, <1>3

\* The next piece of the request body arrived.
LEMMA PulledSteps == ASSUME ExchangeAssumption, Inv, NEW o \in ops, on_pulled(o) PROVE Steps(o.x)
<1> DEFINE x == o.x
           e == ex[x]
           os == ops \ {o}
<1>1. x \in Exchanges /\ e \in ExchangeType /\ Like(e, e)
    BY Found DEF Like
<1>2. CASE e.phase # "sending_body"
  <2>1. Goes(x, e, os)
      BY <1>2 DEF on_pulled
  <2>. QED  BY Zenon, <1>1, <2>1, GoesSteps
<1>3. CASE e.phase = "sending_body"
  <2>1. e.phase \in Active
      BY SMTT(30), <1>3 DEF Active
  <2>2. CASE FailedBy(o, e, os)
      BY Zenon, <1>1, <2>1, <2>2, FailedBySteps
  <2>3. CASE Goes(x, arm(e), os \cup {Op(x, e.member, "body")})
    <3>1. Like(e, arm(e)) /\ arm(e).phase = e.phase
        BY Zenon, <1>1, StaysLike
    <3>. QED  BY Zenon, <1>1, <2>3, <3>1, GoesSteps
  <2>. QED  BY Zenon, <1>3, <2>2, <2>3 DEF on_pulled
<1>. QED  BY SMTT(30), <1>2, <1>3

\* A piece of the request body was written.
LEMMA BodySteps == ASSUME ExchangeAssumption, Inv, NEW o \in ops, on_body_written(o) PROVE Steps(o.x)
<1> DEFINE x == o.x
           e == ex[x]
           os == ops \ {o}
<1>1. x \in Exchanges /\ e \in ExchangeType /\ Like(e, e)
    BY Found DEF Like
<1>2. CASE e.phase # "sending_body"
  <2>1. Goes(x, e, os)
      BY <1>2 DEF on_body_written
  <2>. QED  BY Zenon, <1>1, <2>1, GoesSteps
<1>3. CASE e.phase = "sending_body"
  <2>1. e.phase \in Active
      BY <1>3 DEF Active
  <2>2. CASE FailedBy(o, e, os)
      BY Zenon, <1>1, <2>1, <2>2, FailedBySteps
  <2>3. CASE Goes(x, [arm(e) EXCEPT !.left = @ - 1], os \cup {BodyOp(x, e)})
    <3> DEFINE f == [arm(e) EXCEPT !.left = @ - 1]
    <3>1. Like(e, f) /\ f.phase = e.phase
        BY Zenon, <1>1, StaysLike
    <3> HIDE DEF f
    <3>2. Goes(x, f, os \cup {BodyOp(x, e)})
        BY SMTT(30), <2>3 DEF f
    <3>. QED  BY Zenon, <1>1, <3>1, <3>2, GoesSteps
  <2>4. CASE fail(x, e, FALSE, os)
      BY Zenon, <1>1, <2>1, <2>4, FailSteps
  <2>5. CASE body_sent(x, e, os)
    <3>1. MaxChunks \in Nat
        BY GroupType DEF Inv
    <3>. QED  BY Zenon, <1>1, <2>1, <2>5, <3>1, BodySentSteps
  <2>. QED  BY Zenon, <1>3, <2>2, <2>3, <2>4, <2>5 DEF on_body_written
<1>. QED  BY <1>2, <1>3

\* A read of the origin's answer: what it brings is not where the exchange is.
LEMMA ReadSteps == ASSUME ExchangeAssumption, Inv, NEW o \in ops, on_read(o) PROVE Steps(o.x)
<1> DEFINE x == o.x
           e == [ex[x] EXCEPT !.reading = FALSE]
           os == ops \ {o}
<1>1. x \in Exchanges /\ ex[x] \in ExchangeType
    BY Found
<1>2. e \in ExchangeType /\ Like(ex[x], e) /\ e.phase = ex[x].phase
    BY Zenon, <1>1 DEF ExchangeType, Like
<1>3. \/ e.phase # "receiving" /\ Goes(x, e, os)
      \/ e.phase = "receiving" /\ (try_retry(x, e, os) \/ FailedBy(o, e, os))
      \/ e.phase = "receiving" /\ \E d \in Progress(x, e) :
            \/ /\ e.left > 0
               /\ read_more(x, Delivered(x, [d EXCEPT !.left = @ - 1]), os)
            \/ FailedBy(o, Delivered(x, d), os)
            \/ d.seen = "head" /\ \E open \in BOOLEAN : finish(x, d, open, os)
            \/ d.seen = "head" /\ x \notin WithBody /\ finish_upgraded(x, d, os)
    BY Zenon DEF on_read
<1> HIDE DEF e
<1>4. CASE e.phase # "receiving" /\ Goes(x, e, os)
    BY Zenon, <1>1, <1>2, <1>4, GoesSteps
<1>5. e.phase = "receiving" => ex[x].phase \in Active /\ e.phase \in Active
    BY <1>2 DEF Active
<1>6. CASE e.phase = "receiving" /\ try_retry(x, e, os)
    BY Zenon, <1>1, <1>2, <1>5, <1>6, RetrySteps
<1>7. CASE e.phase = "receiving" /\ FailedBy(o, e, os)
    BY Zenon, <1>1, <1>2, <1>5, <1>7, FailedBySteps
<1>8. ASSUME NEW d \in Progress(x, e)
      PROVE  d \in ExchangeType /\ Like(e, d) /\ d.phase = e.phase /\ d.left = e.left
    BY <1>2 DEF Progress, ExchangeType, Like
<1>9. ASSUME NEW f \in ExchangeType
      PROVE  Delivered(x, f) \in ExchangeType /\ Like(f, Delivered(x, f)) /\ Delivered(x, f).phase = f.phase
  <2>1. CASE Delivered(x, f) = f
      BY <2>1 DEF Like
  <2>2. CASE Delivered(x, f) = [f EXCEPT !.delivered = TRUE, !.answers = @ + 1]
    <3> DEFINE n == f.answers + 1
               g == [f EXCEPT !.delivered = TRUE, !.answers = n]
    <3>1. n \in Nat /\ Delivered(x, f) = g
        BY <2>2 DEF ExchangeType
    <3> HIDE DEF n
    <3>2. g \in ExchangeType /\ Like(f, g) /\ g.phase = f.phase
        BY Zenon, <3>1 DEF ExchangeType, Like
    <3>. QED  BY Zenon, <3>1, <3>2
  <2>. QED  BY SMTT(30), <2>1, <2>2 DEF Delivered, deliver_head
<1>10. ASSUME e.phase = "receiving", e.left > 0, NEW d \in Progress(x, e),
              read_more(x, Delivered(x, [d EXCEPT !.left = @ - 1]), os)
       PROVE  Steps(x)
  <2> DEFINE f == [d EXCEPT !.left = @ - 1]
  <2>1. f \in ExchangeType /\ Like(d, f) /\ f.phase = d.phase
      BY SMTT(30), <1>8, <1>10 DEF ExchangeType, Like
  <2> HIDE DEF f
  <2> DEFINE g == Delivered(x, f)
  <2>2. g \in ExchangeType /\ Like(f, g) /\ g.phase = f.phase
      BY SMTT(30), <1>9, <2>1
  <2>3. read_more(x, g, os)
      BY <1>10 DEF f
  <2> HIDE DEF g
  <2>4. Like(ex[x], g) /\ g.phase \in Active
      BY SMTT(30), <1>2, <1>5, <1>8, <1>10, <2>1, <2>2 DEF Like
  <2>. QED  BY Zenon, <1>1, <1>5, <1>10, <2>2, <2>3, <2>4, ReadMoreSteps
<1>11. ASSUME e.phase = "receiving", NEW d \in Progress(x, e), FailedBy(o, Delivered(x, d), os)
       PROVE  Steps(x)
  <2> DEFINE g == Delivered(x, d)
  <2>1. g \in ExchangeType /\ Like(d, g)
      BY SMTT(30), <1>8, <1>9
  <2>2. Like(ex[x], g)
      BY SMTT(30), <1>2, <1>8, <2>1 DEF Like
  <2>. QED  BY Zenon, <1>5, <1>11, <2>1, <2>2, FailedBySteps
<1>12. ASSUME e.phase = "receiving", NEW d \in Progress(x, e), NEW open \in BOOLEAN,
              release_connection(x, deliver_head([d EXCEPT !.phase = "finished"]), open, os), ticking' = ticking
       PROVE  Steps(x)
  <2> DEFINE f == deliver_head([d EXCEPT !.phase = "finished"])
  <2>1. Like(d, f) /\ f.phase = "finished"
      BY Zenon, <1>8, EndsThere
  <2>2. Like(ex[x], f) /\ f.phase \in Ended
      BY <1>2, <1>8, <2>1 DEF Like, Ended
  <2> HIDE DEF f
  <2>3. release_connection(x, f, open, os)
      BY <1>12 DEF f
  <2>. QED  BY Zenon, <1>1, <1>5, <1>12, <2>2, <2>3, EndSteps
<1>13. ASSUME e.phase = "receiving", NEW d \in Progress(x, e), NEW open \in BOOLEAN, finish(x, d, open, os)
       PROVE  Steps(x)
  <2>1. release_connection(x, deliver_head([d EXCEPT !.phase = "finished"]), open, os) /\ ticking' = ticking
      BY <1>13 DEF finish
  <2>. QED  BY Zenon, <1>12, <1>13, <2>1
<1>14. ASSUME e.phase = "receiving", NEW d \in Progress(x, e), finish_upgraded(x, d, os)
       PROVE  Steps(x)
  <2>1. release_connection(x, deliver_head([d EXCEPT !.phase = "finished"]), FALSE, os) /\ ticking' = ticking
      BY Zenon, <1>14 DEF finish_upgraded
  <2>. QED  BY Zenon, <1>12, <1>14, <2>1
<1>. QED  BY Zenon, <1>3, <1>4, <1>6, <1>7, <1>10, <1>11, <1>13, <1>14

\* The client's writer asks for more.
LEMMA PullSteps == ASSUME Inv, NEW x \in Exchanges, pull(x) PROVE Steps(x)
<1>1. ex[x] \in ExchangeType /\ ex[x].phase \in Active /\ Like(ex[x], ex[x]) /\ read_more(x, ex[x], ops)
    BY DEF Inv, StateInv, pull, Active, Like
<1>. QED  BY Zenon, <1>1, ReadMoreSteps

\* The client went away.
LEMMA CancelSteps == ASSUME Inv, NEW x \in Exchanges, cancel(x) PROVE Steps(x)
<1> DEFINE e == [ex[x] EXCEPT !.phase = "cancelled"]
<1>1. Once(x, ex[x]) /\ ex[x] \in ExchangeType /\ ~ex[x].delivered /\ ticking' = ticking
    BY DEF Inv, StateInv, cancel, Once
<1>2. Like(ex[x], e) /\ e.phase = "cancelled"
    BY <1>1 DEF ExchangeType, Like
<1>3. \/ ex[x].phase \in Active /\ release_connection(x, e, FALSE, ops)
      \/ /\ ex[x].phase \notin Active \cup {"new", "cancelled"} /\ ex' = [ex EXCEPT ![x] = e]
         /\ \E p \in dequeue(pools[e.member], x) : pools' = [pools EXCEPT ![e.member] = p]
    BY Zenon DEF cancel
<1> HIDE DEF e
<1>4. e.phase \in Ended
    BY <1>2 DEF Ended
<1>5. CASE ex[x].phase \in Active /\ release_connection(x, e, FALSE, ops)
    BY Zenon, <1>1, <1>2, <1>4, <1>5, EndSteps
<1>6. ASSUME ex[x].phase \notin Active \cup {"new", "cancelled"}, ex' = [ex EXCEPT ![x] = e],
             NEW p \in dequeue(pools[e.member], x), pools' = [pools EXCEPT ![e.member] = p]
      PROVE  Steps(x)
  <2>1. ex[x].phase = "queued"
      BY SMTT(30), <1>1, <1>6 DEF Once, ExchangeType, Phases, Active
  <2>2. Leaves(x, e, p)
      BY SMTT(30), <1>1, <1>2, <1>4, <1>6, <2>1 DEF Leaves, Like
  <2>. QED  BY SMTT(30), <2>2 DEF Steps
<1>. QED  BY Zenon, <1>3, <1>5, <1>6

\* The tick finds an exchange past its deadline.
LEMMA OverdueSteps == ASSUME ExchangeAssumption, Inv, NEW x \in Exchanges, on_tick(x) PROVE Steps(x)
<1>1. ex[x] \in ExchangeType /\ Like(ex[x], ex[x])
    BY SMTT(30) DEF Inv, StateInv, Like
<1>2. ASSUME ex[x].phase = "queued", ex' = [ex EXCEPT ![x] = Failed(@)],
             NEW p \in dequeue(pools[ex[x].member], x), pools' = [pools EXCEPT ![ex[x].member] = p],
             ticking' = ticking
      PROVE  Steps(x)
  <2> DEFINE e == Failed(ex[x])
  <2>1. Like(ex[x], e) /\ e.phase = "failed"
      BY Zenon, <1>1, EndsThere DEF Failed
  <2>2. ex' = [ex EXCEPT ![x] = e]
      BY <1>2
  <2> HIDE DEF e
  <2>3. Leaves(x, e, p)
      BY Zenon, <1>2, <2>1, <2>2 DEF Leaves, Ended
  <2>. QED  BY <2>3 DEF Steps
<1>3. CASE ex[x].phase \in Active /\ fail(x, ex[x], TRUE, ops)
    BY Zenon, <1>1, <1>3, FailSteps
<1>. QED  BY Zenon, <1>2, <1>3 DEF on_tick

\* begin().
LEMMA BeginSteps == ASSUME ExchangeAssumption, Inv, NEW x \in Exchanges, begin(x) PROVE Steps(x)
<1>1. ex[x].phase = "new" /\ ticking' = TRUE /\ setting \in Settings /\ turn \in Nat
      /\ ex[x] \in ExchangeType /\ pools \in [Addresses -> PoolType]
    BY SMTT(30) DEF begin, Inv, StateInv
<1>2. PICK b \in pick(health, marks, turn, {}) : Begun(x, ex[x], b, pools, ex, ops)
    BY SMTT(30) DEF begin
<1>3. b \in Addresses
    BY SMTT(30), <1>1, Picks
<1>4. PICK g \in acquire(pools[b], x) : /\ pools' = [pools EXCEPT ![b] = g.pool]
                                        /\ ex' = [ex EXCEPT ![x] = AtSlot(ex[x], b, g)]
    BY Zenon, <1>2 DEF Begun, AtSlot
<1> DEFINE f == AtSlot(ex[x], b, g)
<1>5. f.member = b /\ f.tried = ex[x].tried \cup InMask(b) /\ Asked(f, g.got)
    BY Zenon, <1>1, <1>3, BegunAsks
<1> HIDE DEF f
<1>6. ex' = [ex EXCEPT ![x] = f]
    BY SMTT(30), <1>4 DEF f
<1>7. Comes(x, f, b, g)
    BY Zenon, <1>1, <1>3, <1>4, <1>5, <1>6 DEF Comes
<1>. QED  BY SMTT(30), <1>7 DEF Steps

-----------------------------------------------------------------------------
(* What the pool of one address sees of it.                                   *)

\* Where the pool of h has e, and where it has each of es.
Where(e, h) ==
    IF e.member # h THEN "out"
    ELSE IF e.phase = "queued" THEN "queued" ELSE IF e.phase \in Active THEN "holding" ELSE "out"
PlacesOf(es, h) == [y \in Exchanges |-> Where(es[y], h)]

\* What release() makes of pool p: the slot stays free, or the waiter whose turn it is has it.
Ordinary == IF MaxConnections > Reserved THEN MaxConnections - Reserved ELSE 0
Listed(p, open) == IF open /\ Len(p.idle) < MaxIdle THEN Append(p.idle, 0) ELSE p.idle
Unclaimed(p) ==
    IF \E i \in DOMAIN p.queue : p.queue[i] \in Priority THEN p.active - 1 >= MaxConnections
    ELSE p.queue = <<>> \/ p.active - 1 >= Ordinary
TurnOf(p, i) ==
    \/ /\ p.active - 1 < MaxConnections /\ p.queue[i] \in Priority
       /\ \A j \in 1 .. i - 1 : p.queue[j] \notin Priority
    \/ /\ i = 1 /\ (\A j \in DOMAIN p.queue : p.queue[j] \notin Priority) /\ p.queue # <<>>
       /\ p.active - 1 < Ordinary
StaysFree(p, open, q) ==
    q.active = p.active - 1 /\ q.queue = p.queue /\ q.idle = Listed(p, open) /\ Unclaimed(p)
GoesTo(p, open, i, q) ==
    /\ q.active = p.active /\ q.queue = erase(p.queue, i)
    /\ \E l \in Lent(Listed(p, open)) : q.idle = l.idle
    /\ TurnOf(p, i)

\* A slot of h taken, waited for or refused; one given back; a waiter gone; a tick; nothing
\* of it at all, the worker's timer apart.
TookAt(h, x) ==
    LET p == pools[h]
        q == pools'[h]
    IN /\ PlacesOf(ex, h)[x] = "out" /\ ticking' = TRUE
       /\ \/ /\ p.active < limit_for(x) /\ q.active = p.active + 1 /\ q.queue = p.queue
             /\ (\E l \in Lent(p.idle) : q.idle = l.idle)
             /\ PlacesOf(ex', h) = [PlacesOf(ex, h) EXCEPT ![x] = "holding"]
          \/ /\ p.active >= limit_for(x) /\ Len(p.queue) >= QueueDepth
             /\ q = p /\ PlacesOf(ex', h) = PlacesOf(ex, h)
          \/ /\ p.active >= limit_for(x) /\ Len(p.queue) < QueueDepth
             /\ q.active = p.active /\ q.queue = Append(p.queue, x) /\ q.idle = p.idle
             /\ PlacesOf(ex', h) = [PlacesOf(ex, h) EXCEPT ![x] = "queued"]
FreedAt(h, x, open) ==
    LET p == pools[h]
        q == pools'[h]
    IN /\ PlacesOf(ex, h)[x] = "holding" /\ ticking = TRUE /\ ticking' = TRUE
       /\ \/ StaysFree(p, open, q) /\ PlacesOf(ex', h) = [PlacesOf(ex, h) EXCEPT ![x] = "out"]
          \/ \E i \in DOMAIN p.queue :
                /\ GoesTo(p, open, i, q)
                /\ PlacesOf(ex', h) = [PlacesOf(ex, h) EXCEPT ![x] = "out", ![p.queue[i]] = "holding"]
LeftAt(h, x) ==
    LET p == pools[h]
        q == pools'[h]
    IN \E i \in DOMAIN p.queue :
          /\ p.queue[i] = x /\ q.queue = erase(p.queue, i) /\ q.active = p.active /\ q.idle = p.idle
          /\ PlacesOf(ex', h) = [PlacesOf(ex, h) EXCEPT ![x] = "out"] /\ ticking' = ticking
StillAt(h) == pools'[h] = pools[h] /\ PlacesOf(ex', h) = PlacesOf(ex, h)
Aged(list) == [n \in DOMAIN list |-> Older(list[n])]
TickAt(h) ==
    LET p == pools[h]
        q == pools'[h]
    IN /\ q.active = p.active /\ q.queue = p.queue /\ PlacesOf(ex', h) = PlacesOf(ex, h)
       /\ Aged(p.idle) \in Seq(Nat)
       /\ q.idle = IF ticking THEN sweep_idle(Aged(p.idle)) ELSE Aged(p.idle)
       /\ ticking \in BOOLEAN /\ ticking' \in BOOLEAN /\ (ticking' => ticking)
       /\ (ticking /\ \/ \E x \in Exchanges : PlacesOf(ex, h)[x] # "out"
                      \/ q.idle # <<>> /\ IdleTimeout > 0) => ticking'

\* UpstreamPool::release, whom it serves.
LEMMA ReleaseFrees ==
    ASSUME ExchangeAssumption, NEW p \in PoolType, NEW open \in BOOLEAN, NEW r \in release(p, open)
    PROVE  \/ r.to = {} /\ StaysFree(p, open, r.pool)
           \/ \E i \in DOMAIN p.queue : r.to = {p.queue[i]} /\ GoesTo(p, open, i, r.pool)
<1> DEFINE used == p.active - 1
           next == NextWaiter(p.queue, used)
           prior == {i \in DOMAIN p.queue : p.queue[i] \in Priority}
<1>1. used \in Int /\ p.queue \in Seq(Exchanges) /\ p \in [active : Int, queue : Seq(Exchanges), idle : Seq(Nat)]
    BY DEF PoolType
<1>3. DOMAIN p.queue = 1 .. Len(p.queue) /\ Len(p.queue) \in Nat /\ (p.queue = <<>> <=> Len(p.queue) = 0)
    BY <1>1, LenProperties, EmptySeq
<1>4. MaxConnections \in Nat /\ Reserved \in Nat
    BY DEF ExchangeAssumption
<1>5. CASE next = {}
  <2>1. r = [pool |-> [p EXCEPT !.active = used, !.idle = Listed(p, open)], to |-> {}, reused |-> FALSE]
      BY <1>5 DEF release, Listed
  <2>2. Unclaimed(p)
    <3>1. CASE prior # {}
      <4>1. prior \subseteq Nat
          BY <1>3
      <4>2. PICK i \in prior : \A j \in prior : i <= j
          BY Zenon, <3>1, <4>1, LeastNat
      <4>3. used >= MaxConnections
          BY SMTT(30), <1>1, <1>4, <1>5, <3>1, <4>2 DEF NextWaiter
      <4>. QED  BY <3>1, <4>3 DEF Unclaimed
    <3>2. CASE prior = {}
      <4>1. ASSUME Len(p.queue) # 0 PROVE 1 \in DOMAIN p.queue /\ p.queue[1] \notin Priority
          BY SMTT(30), <1>3, <3>2, <4>1
      <4>2. p.queue = <<>> \/ used >= Ordinary
          BY <1>1, <1>3, <1>4, <1>5, <3>2, <4>1 DEF NextWaiter, limit_for, Ordinary
      <4>. QED  BY <3>2, <4>2 DEF Unclaimed
    <3>. QED  BY <3>1, <3>2
  <2>. QED  BY Zenon, <1>1, <2>1, <2>2 DEF StaysFree
<1>6. CASE next # {}
  <2>1. PICK i \in next, l \in Lent(Listed(p, open)) :
            r = [pool |-> [p EXCEPT !.queue = erase(@, i), !.idle = l.idle],
                 to |-> {p.queue[i]}, reused |-> l.reused]
      BY Zenon, <1>6 DEF release, Listed
  <2>2. i \in DOMAIN p.queue
      BY <2>1 DEF NextWaiter
  <2>3. /\ r.to = {p.queue[i]} /\ r.pool.active = p.active /\ r.pool.queue = erase(p.queue, i)
        /\ r.pool.idle = l.idle
      BY Zenon, <1>1, <2>1
  <2>4. TurnOf(p, i)
    <3>1. CASE prior # {}
      <4>1. used < MaxConnections /\ i \in prior /\ \A j \in prior : i <= j
          BY <2>1, <3>1 DEF NextWaiter
      <4>2. \A j \in 1 .. i - 1 : j \notin prior /\ j \in DOMAIN p.queue
          BY <1>3, <4>1
      <4>. QED  BY <4>1, <4>2 DEF TurnOf
    <3>2. CASE prior = {}
      <4>1. i = 1 /\ used < limit_for(p.queue[1])
          BY <2>1, <3>2 DEF NextWaiter
      <4>2. used < Ordinary
          BY SMTT(30), <2>2, <3>2, <4>1 DEF limit_for, Ordinary
      <4>. QED  BY <1>3, <2>2, <3>2, <4>1, <4>2 DEF TurnOf
    <3>. QED  BY <3>1, <3>2
  <2>. QED  BY Zenon, <2>2, <2>3, <2>4 DEF GoesTo
<1>. QED  BY <1>5, <1>6

\* Whom r names had waited at a and holds a slot there, and no other pool sees a change of
\* the others.
Handed(x, e, a, r) ==
    /\ ex'[x] = e
    /\ \A y \in r.to : /\ y \in Exchanges /\ y # x /\ Where(ex[y], a) = "queued"
                       /\ Where(ex'[y], a) = "holding"
    /\ \A y \in Exchanges \ (r.to \cup {x}) : ex'[y] = ex[y]
    /\ \A y \in Exchanges \ {x}, h \in Addresses \ {a} : Where(ex'[y], h) = Where(ex[y], h)

\* The waiter the slot of a goes to, and the others.
LEMMA PassedPlaces ==
    ASSUME Inv, NEW x \in Exchanges, ex[x].phase \in Active, NEW e, NEW a \in Addresses, NEW r,
           GivenTo(pools[a], r), Passed(x, e, r)
    PROVE  Handed(x, e, a, r)
<1>1. StateInv(ex, ops, pools) /\ \A y \in Exchanges : ex[y] \in ExchangeType
    BY Parts DEF Inv
<1>2. ex'[x] = e /\ \A y \in Exchanges \ {x} : ex'[y] = IF y \in r.to THEN on_slot(ex[y], r.reused) ELSE ex[y]
    BY DEF Passed
<1>3. \A y \in r.to : y \in Exchanges /\ ex[y].phase = "queued" /\ ex[y].member = a
    BY <1>1, GivenWaits
<1>4. x \notin r.to
    BY <1>3 DEF Active
<1>5. ASSUME NEW y \in r.to
      PROVE  ex'[y].member = a /\ ex'[y].phase \in Active
  <2>1. ex'[y] = on_slot(ex[y], r.reused) /\ ex[y] \in ExchangeType
      BY SMTT(30), <1>1, <1>2, <1>3, <1>4
  <2>. QED  BY SMTT(30), <1>3, <2>1, SlotHolds
<1>6. ASSUME NEW y \in r.to
      PROVE  y \in Exchanges /\ y # x /\ Where(ex[y], a) = "queued" /\ Where(ex'[y], a) = "holding"
    BY SMTT(30), <1>3, <1>4, <1>5 DEF Where, Active
<1>7. ASSUME NEW y \in Exchanges \ {x}, NEW h \in Addresses \ {a}
      PROVE  Where(ex'[y], h) = Where(ex[y], h)
  <2>1. CASE y \notin r.to
      BY SMTT(30), <1>2, <1>7, <2>1
  <2>2. CASE y \in r.to
    <3>1. ex'[y].member # h /\ ex[y].member # h
        BY SMTT(30), <1>3, <1>5, <2>2
    <3>. QED  BY <3>1 DEF Where
  <2>. QED  BY SMTT(30), <1>7, <2>1, <2>2
<1>. QED  BY <1>2, <1>6, <1>7 DEF Handed

\* x alone changes, and not for the pool of h.
LEMMA StaysSeen ==
    ASSUME Inv, NEW h \in Addresses, NEW x \in Exchanges, NEW e, Stays(x, e)
    PROVE  StillAt(h) /\ ticking' = ticking
<1>1. ex \in [Exchanges -> ExchangeType]
    BY DEF Inv, StateInv
<1>2. \A y \in Exchanges : ex'[y] = IF y = x THEN e ELSE ex[y]
    BY <1>1 DEF Stays
<1>3. Where(e, h) = Where(ex[x], h)
  <2>1. "queued" \notin Active
      BY DEF Active
  <2>. QED  BY <2>1 DEF Stays, Like, Where
<1>4. \A y \in Exchanges : Where(ex'[y], h) = Where(ex[y], h)
    BY <1>2, <1>3
<1>. QED  BY <1>4 DEF StillAt, PlacesOf, Stays

\* The slot given back at h, whoever x becomes elsewhere.
LEMMA FreesSeen ==
    ASSUME ExchangeAssumption, Inv, TickInv, NEW h \in Addresses,
           NEW x \in Exchanges, ex[x].phase \in Active, ex[x].member = h,
           NEW e, Where(e, h) = "out", NEW open \in BOOLEAN, NEW r \in release(pools[h], open),
           pools'[h] = r.pool, Passed(x, e, r), ticking' = ticking
    PROVE  FreedAt(h, x, open)
<1>1. pools[h] \in PoolType /\ ticking = TRUE
    BY DEF Inv, StateInv, TickInv, Watch, Watched
<1>2. GivenTo(pools[h], r) /\ \/ r.to = {} /\ StaysFree(pools[h], open, r.pool)
                              \/ \E i \in DOMAIN pools[h].queue :
                                    r.to = {pools[h].queue[i]} /\ GoesTo(pools[h], open, i, r.pool)
  <2>1. GivenTo(pools[h], r)
      BY Zenon, <1>1, Releases
  <2>. QED  BY Zenon, <1>1, <2>1, ReleaseFrees
<1>3. Handed(x, e, h, r)
    BY Zenon, <1>2, PassedPlaces
<1>4. Where(ex[x], h) = "holding" /\ Where(ex'[x], h) = "out"
    BY <1>3 DEF Where, Active, Handed
<1>5. /\ \A y \in r.to : y \in Exchanges /\ y # x /\ Where(ex'[y], h) = "holding"
      /\ \A y \in Exchanges \ (r.to \cup {x}) : Where(ex'[y], h) = Where(ex[y], h)
    BY <1>3 DEF Handed
<1>6. CASE r.to = {} /\ StaysFree(pools[h], open, r.pool)
  <2>1. PlacesOf(ex', h) = [PlacesOf(ex, h) EXCEPT ![x] = "out"]
      BY <1>4, <1>5, <1>6 DEF PlacesOf
  <2>. QED  BY <1>1, <1>4, <1>6, <2>1 DEF FreedAt, PlacesOf
<1>7. ASSUME NEW i \in DOMAIN pools[h].queue, r.to = {pools[h].queue[i]}, GoesTo(pools[h], open, i, r.pool)
      PROVE  FreedAt(h, x, open)
  <2>1. PlacesOf(ex', h) = [PlacesOf(ex, h) EXCEPT ![x] = "out", ![pools[h].queue[i]] = "holding"]
      BY <1>4, <1>5, <1>7 DEF PlacesOf
  <2>2. PlacesOf(ex, h)[x] = "holding"
      BY <1>4 DEF PlacesOf
  <2>. QED  BY Zenon, <1>1, <1>7, <2>1, <2>2 DEF FreedAt
<1>. QED  BY Zenon, <1>2, <1>6, <1>7

\* x asks for a slot at h (begin, try_next_address).
LEMMA AsksSeen ==
    ASSUME ExchangeAssumption, Inv, NEW h \in Addresses, NEW x \in Exchanges,
           Where(ex[x], h) = "out", NEW e, e.member = h, NEW g \in acquire(pools[h], x),
           Asked(e, g.got), pools'[h] = g.pool, ex'[x] = e,
           \A y \in Exchanges \ {x} : Where(ex'[y], h) = Where(ex[y], h), ticking' = TRUE
    PROVE  TookAt(h, x)
<1> DEFINE p == pools[h]
<1>1. p \in PoolType /\ p.active \in Int /\ p.queue \in Seq(Exchanges) /\ p.idle \in Seq(Nat)
    BY DEF Inv, StateInv, PoolType
<1>2. PlacesOf(ex, h)[x] = "out" /\ \A s : Where(e, h) = s => PlacesOf(ex', h) = [PlacesOf(ex, h) EXCEPT ![x] = s]
    BY DEF PlacesOf
<1>3. limit_for(x) \in Nat /\ Len(p.queue) \in Nat /\ QueueDepth \in Nat
    BY <1>1, LenProperties DEF ExchangeAssumption, limit_for
<1>4. CASE p.active < limit_for(x)
  <2>1. PICK l \in Lent(p.idle) : g = [pool |-> [p EXCEPT !.active = @ + 1, !.idle = l.idle],
                                       got |-> "slot", reused |-> l.reused]
      BY Zenon, <1>4 DEF acquire
  <2>2. g.got = "slot" /\ g.pool.active = p.active + 1 /\ g.pool.queue = p.queue /\ g.pool.idle = l.idle
      BY Zenon, <1>1, <2>1 DEF PoolType
  <2>3. Where(e, h) = "holding"
    <3>1. e.phase \in Active
        BY Zenon, <2>2 DEF Asked
    <3>2. e.phase # "queued"
        BY <3>1 DEF Active
    <3>. QED  BY Zenon, <3>1, <3>2 DEF Where
  <2>4. PlacesOf(ex', h) = [PlacesOf(ex, h) EXCEPT ![x] = "holding"]
      BY Zenon, <1>2, <2>3
  <2>5. \E k \in Lent(p.idle) : pools'[h].idle = k.idle
      BY Zenon, <2>1, <2>2
  <2>. QED  BY Zenon, <1>2, <1>4, <2>2, <2>4, <2>5 DEF TookAt
<1>5. CASE ~(p.active < limit_for(x)) /\ Len(p.queue) >= QueueDepth
  <2>1. g.pool = p /\ g.got = "refused"
      BY <1>5 DEF acquire
  <2>2. Where(e, h) = "out"
      BY <2>1 DEF Asked, Where, Active
  <2>3. PlacesOf(ex', h) = PlacesOf(ex, h)
      BY <1>2, <2>2 DEF PlacesOf
  <2>. QED  BY <1>1, <1>2, <1>3, <1>5, <2>1, <2>3 DEF TookAt
<1>6. CASE ~(p.active < limit_for(x)) /\ ~(Len(p.queue) >= QueueDepth)
  <2>1. g.pool = [p EXCEPT !.queue = Append(@, x)] /\ g.got = "queued"
      BY <1>6 DEF acquire
  <2>2. g.pool.active = p.active /\ g.pool.queue = Append(p.queue, x) /\ g.pool.idle = p.idle
      BY <1>1, <2>1 DEF PoolType
  <2>3. Where(e, h) = "queued"
      BY <2>1 DEF Asked, Where
  <2>4. PlacesOf(ex', h) = [PlacesOf(ex, h) EXCEPT ![x] = "queued"]
      BY Zenon, <1>2, <2>3
  <2>5. p.active >= limit_for(x) /\ Len(p.queue) < QueueDepth
      BY <1>1, <1>3, <1>6
  <2>. QED  BY Zenon, <1>2, <2>2, <2>4, <2>5 DEF TookAt
<1>. QED  BY <1>4, <1>5, <1>6

=============================================================================
