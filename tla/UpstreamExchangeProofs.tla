----------------------- MODULE UpstreamExchangeProofs -----------------------
(* For every number of requests, group of origins and pool: one answer each,  *)
(* and one copy at an origin of a request that may not be repeated.           *)
EXTENDS UpstreamExchange, SequenceLemmas, TLAPS

Phases == {"new", "queued", "connecting", "sending", "sending_body", "receiving",
           "finished", "failed", "cancelled"}

ExchangeType ==
    [phase : Phases, member : Addresses,
     tried : SUBSET Addresses, attempts : Nat, sent : BOOLEAN,
     seen : {"nothing", "bytes", "head"}, reused : BOOLEAN, reading : BOOLEAN,
     left : Nat, late : BOOLEAN, delivered : BOOLEAN, answers : Nat, sends : Nat]
OpType == [x : Exchanges, at : Addresses, aborted : BOOLEAN,
           kind : {"connect", "handshake", "head", "pull", "body", "read"}]
PoolType == [active : Int, queue : Seq(Exchanges), idle : Seq(Nat)]

\* The record e of exchange x: answered as often as delivered, and a request that
\* may not be repeated sent as often as it says.
Once(x, e) ==
    /\ e \in ExchangeType
    /\ e.answers = IF e.delivered THEN 1 ELSE 0
    /\ e.phase \in {"finished", "failed"} => e.delivered
    /\ e.phase = "cancelled" => ~e.delivered
    /\ x \notin Resendable =>
         /\ e.sends = IF e.sent THEN 1 ELSE 0
         /\ e.phase \in {"new", "queued", "connecting"} => ~e.sent

\* What runs on a connection that is still x's: a handshake only before the head
\* is sent, and the head's write only after.
OnTime(o, e) ==
    o.x \notin Resendable /\ ~o.aborted =>
        /\ o.kind = "handshake" => e.phase = "sending" /\ ~e.sent /\ o.at = e.member
        /\ o.kind = "head" => e.sent

\* The queue of address a has the exchanges that wait there, each once.
Queued(a, q, es) ==
    /\ \A i, j \in DOMAIN q : q[i] = q[j] => i = j
    /\ \A y \in Exchanges : (es[y].phase = "queued" /\ es[y].member = a) <=> \E i \in DOMAIN q : q[i] = y

\* The invariant, of exchanges es, operations os and pools ps.
StateInv(es, os, ps) ==
    /\ es \in [Exchanges -> ExchangeType]
    /\ \A x \in Exchanges : Once(x, es[x])
    /\ os \subseteq OpType
    /\ \A o \in os : OnTime(o, es[o.x])
    /\ ps \in [Addresses -> PoolType]
    /\ \A a \in Addresses : Queued(a, ps[a].queue, es)

Inv == setting \in Settings /\ turn \in Nat /\ StateInv(ex, ops, pools)

-----------------------------------------------------------------------------
(* One exchange.                                                              *)

\* What erasing a waiter (std::deque::erase) leaves of a queue.
LEMMA Erases ==
    ASSUME NEW S, NEW q \in Seq(S), NEW i \in 1 .. Len(q)
    PROVE  erase(q, i) \in Seq(S) /\ (Distinct(q) => ErasedFrom(q, i, erase(q, i)))
<1>1. erase(q, i) = Without(q, i)
    BY DEF erase, Without
<1>. QED  BY <1>1, WithoutProperties, WithoutDistinct

\* The group and the bound of the setting in use.
LEMMA GroupType ==
    ASSUME ExchangeAssumption, setting \in Settings
    PROVE  /\ GroupSize \in Nat \ {0} /\ MaxChunks \in Nat
           /\ Resendable \subseteq Exchanges /\ WithBody \subseteq Exchanges
    BY DEF ExchangeAssumption, GroupSize, MaxChunks

\* A clock, a read and a body's progress are not what Once is about.
LEMMA KeepsOnce ==
    ASSUME NEW x, NEW e, NEW f \in ExchangeType, Once(x, e), f.phase = e.phase, f.sent = e.sent,
           f.delivered = e.delivered, f.answers = e.answers, f.sends = e.sends
    PROVE  Once(x, f)
    BY DEF Once

\* arm() is such a step.
LEMMA Armed ==
    ASSUME NEW x, NEW e, Once(x, e)
    PROVE  Once(x, arm(e)) /\ arm(e) = [e EXCEPT !.late = FALSE]
<1>1. arm(e) \in ExchangeType
    BY Zenon DEF Once, ExchangeType, arm
<1>. QED  BY Zenon, <1>1, KeepsOnce DEF Once, ExchangeType, arm

\* The head goes out, the first time unless it may go out again.
LEMMA SendsHead ==
    ASSUME NEW x, NEW e, Once(x, e), x \notin Resendable => ~e.sent
    PROVE  LET f == send_head(e) IN
           Once(x, f) /\ f.phase = "sending" /\ f.sent = TRUE /\ f.member = e.member /\ f.attempts = e.attempts
<1> DEFINE f == send_head(e)
<1> DEFINE n == e.sends + 1
<1>1. e \in ExchangeType /\ n \in Nat
    BY DEF Once, ExchangeType
<1>2. f = [e EXCEPT !.late = FALSE, !.phase = "sending", !.sent = TRUE, !.sends = n]
    BY <1>1 DEF send_head, arm, ExchangeType
<1> HIDE DEF n
<1>3. f \in ExchangeType
    BY Zenon, <1>1, <1>2 DEF ExchangeType, Phases
<1>4. /\ f.phase = "sending" /\ f.sent = TRUE /\ f.member = e.member /\ f.attempts = e.attempts
      /\ f.sends = n /\ f.delivered = e.delivered /\ f.answers = e.answers
    BY <1>1, <1>2 DEF ExchangeType
<1>. QED  BY <1>3, <1>4 DEF Once, n

\* A new connection is opened.
LEMMA Connects ==
    ASSUME NEW x, NEW e, Once(x, e), x \notin Resendable => ~e.sent
    PROVE  LET f == connect(e) IN
           Once(x, f) /\ f.phase = "connecting" /\ f.sent = e.sent /\ f.member = e.member
<1> DEFINE f == connect(e)
<1> DEFINE n == e.attempts + 1
<1>1. e \in ExchangeType /\ n \in Nat
    BY DEF Once, ExchangeType
<1>2. f = [e EXCEPT !.late = FALSE, !.phase = "connecting", !.attempts = n, !.reused = FALSE]
    BY <1>1 DEF connect, arm, ExchangeType
<1> HIDE DEF n
<1>3. f \in ExchangeType
    BY Zenon, <1>1, <1>2 DEF ExchangeType, Phases
<1>4. /\ f.phase = "connecting" /\ f.sent = e.sent /\ f.member = e.member
      /\ f.sends = e.sends /\ f.delivered = e.delivered /\ f.answers = e.answers
    BY <1>1, <1>2 DEF ExchangeType
<1>. QED  BY <1>3, <1>4 DEF Once

\* A slot comes with a kept connection, on which the head goes out.
LEMMA TakesKept ==
    ASSUME NEW x, NEW e, Once(x, e), x \notin Resendable => ~e.sent
    PROVE  LET f == on_slot(e, TRUE) IN
           Once(x, f) /\ f.phase = "sending" /\ f.sent = TRUE /\ f.member = e.member
<1> DEFINE g == send_head(e)
           n == g.attempts + 1
           f == [g EXCEPT !.attempts = n, !.reused = TRUE]
<1>1. Once(x, g) /\ g.phase = "sending" /\ g.sent = TRUE /\ g.member = e.member
    BY Zenon, SendsHead
<1>2. on_slot(e, TRUE) = f
    BY DEF on_slot
<1> HIDE DEF g
<1>5. g \in ExchangeType /\ n \in Nat
    BY <1>1 DEF Once, ExchangeType
<1> HIDE DEF n
<1>3. f \in ExchangeType /\ f.phase = g.phase /\ f.sent = g.sent /\ f.delivered = g.delivered
      /\ f.answers = g.answers /\ f.sends = g.sends /\ f.member = g.member
    BY Zenon, <1>5 DEF ExchangeType
<1>4. Once(x, f)
    BY Zenon, <1>1, <1>3, KeepsOnce
<1>. QED  BY Zenon, <1>1, <1>2, <1>3, <1>4

\* A slot comes without a connection.
LEMMA TakesNew ==
    ASSUME NEW x, NEW e, Once(x, e), x \notin Resendable => ~e.sent
    PROVE  LET f == on_slot(e, FALSE) IN
           Once(x, f) /\ f.phase = "connecting" /\ f.sent = e.sent /\ f.member = e.member
    BY Connects DEF on_slot

\* The head of the answer is delivered, once.
LEMMA DeliversHead ==
    ASSUME NEW x, NEW e, Once(x, e), e.phase # "cancelled"
    PROVE  LET f == deliver_head(e) IN
           /\ Once(x, f) /\ f.delivered = TRUE /\ f.phase = e.phase /\ f.sent = e.sent /\ f.member = e.member
           /\ f.reading = e.reading /\ f.left = e.left /\ f.seen = e.seen
<1>1. e \in ExchangeType
    BY DEF Once
<1>2. CASE e.delivered
    BY <1>1, <1>2 DEF deliver_head, ExchangeType
<1>3. CASE ~e.delivered
  <2> DEFINE n == e.answers + 1
             f == [e EXCEPT !.delivered = TRUE, !.answers = n]
  <2>4. n \in Nat
      BY <1>1 DEF ExchangeType
  <2>2. deliver_head(e) = f
      BY <1>3 DEF deliver_head
  <2> HIDE DEF n
  <2>1. f \in ExchangeType /\ f.delivered = TRUE /\ f.answers = n /\ f.phase = e.phase
        /\ f.sent = e.sent /\ f.sends = e.sends /\ f.member = e.member
        /\ f.reading = e.reading /\ f.left = e.left /\ f.seen = e.seen
      BY Zenon, <1>1, <2>4 DEF ExchangeType
  <2> HIDE DEF f
  <2>3. Once(x, f)
      BY <1>3, <2>1 DEF Once, n
  <2>. QED  BY <2>1, <2>2, <2>3
<1>. QED  BY Zenon, <1>2, <1>3

\* An exchange that ends is answered.
LEMMA EndsOnce ==
    ASSUME NEW x, NEW e, NEW p \in {"finished", "failed"}, Once(x, e)
    PROVE  LET f == deliver_head([e EXCEPT !.phase = p]) IN
           Once(x, f) /\ f.phase = p /\ f.member = e.member /\ f.sent = e.sent
<1> DEFINE g == [e EXCEPT !.phase = p]
<1>1. e \in ExchangeType
    BY DEF Once
<1>2. g \in ExchangeType /\ g.phase = p /\ g.member = e.member /\ g.sent = e.sent /\ g.sends = e.sends
      /\ g.delivered = e.delivered /\ g.answers = e.answers
    BY <1>1 DEF ExchangeType, Phases
<1> HIDE DEF g
<1>3. CASE g.delivered
  <2>1. deliver_head(g) = g
      BY <1>3 DEF deliver_head
  <2>2. Once(x, g)
      BY <1>2, <1>3 DEF Once
  <2>. QED  BY Zenon, <1>2, <2>1, <2>2 DEF g
<1>4. CASE ~g.delivered
  <2> DEFINE n == g.answers + 1
             f == [g EXCEPT !.delivered = TRUE, !.answers = n]
  <2>4. n \in Nat
      BY <1>2 DEF ExchangeType
  <2>2. deliver_head(g) = f
      BY <1>4 DEF deliver_head
  <2> HIDE DEF n
  <2>1. f \in ExchangeType /\ f.delivered = TRUE /\ f.answers = n /\ f.phase = p
        /\ f.sent = e.sent /\ f.sends = e.sends /\ f.member = e.member
      BY Zenon, <1>2, <2>4 DEF ExchangeType
  <2> HIDE DEF f
  <2>3. Once(x, f)
      BY <1>2, <1>4, <2>1 DEF Once, n
  <2>. QED  BY <2>1, <2>2, <2>3 DEF g
<1>. QED  BY <1>3, <1>4

-----------------------------------------------------------------------------
(* The pool of an address.                                                    *)

\* A kept connection is lent, or none is left.
LEMMA LentType ==
    ASSUME NEW idle \in Seq(Nat), NEW l \in Lent(idle)
    PROVE  l.idle \in Seq(Nat) /\ l.reused \in BOOLEAN
<1>1. PICK n \in 0 .. Len(idle) : l = [idle |-> SubSeq(idle, 1, n - 1), reused |-> n > 0]
    BY DEF Lent
<1>2. \A i \in 1 .. n - 1 : idle[i] \in Nat
    BY ElementOfSeq, LenProperties
<1>3. n - 1 \in Int
    BY LenProperties
<1>4. SubSeq(idle, 1, n - 1) \in Seq(Nat)
    BY SMTT(30), <1>2, <1>3, SubSeqProperties
<1>. QED  BY <1>1, <1>4

\* A slot given back: it stays free, or one waiter leaves the queue and has it.
GivenTo(p, r) ==
    \/ r.to = {} /\ r.pool.queue = p.queue
    \/ \E i \in 1 .. Len(p.queue) : r.to = {p.queue[i]} /\ r.pool.queue = erase(p.queue, i)

\* UpstreamPool::release.
LEMMA Releases ==
    ASSUME NEW p \in PoolType, NEW open, NEW r \in release(p, open)
    PROVE  r.pool \in PoolType /\ r.reused \in BOOLEAN /\ GivenTo(p, r)
<1> DEFINE used == p.active - 1
           list == IF open /\ Len(p.idle) < MaxIdle THEN Append(p.idle, 0) ELSE p.idle
           next == NextWaiter(p.queue, used)
<1>1. used \in Int /\ p.queue \in Seq(Exchanges) /\ p.idle \in Seq(Nat)
    BY DEF PoolType
<1>2. list \in Seq(Nat)
    BY <1>1, AppendProperties
<1>3. next \subseteq 1 .. Len(p.queue)
    BY <1>1, LenProperties DEF NextWaiter
<1>5. CASE next = {}
  <2>1. r = [pool |-> [p EXCEPT !.active = used, !.idle = list], to |-> {}, reused |-> FALSE]
      BY <1>5 DEF release
  <2> HIDE DEF used, list, next
  <2>. QED  BY Zenon, <1>1, <1>2, <2>1 DEF GivenTo, PoolType
<1>6. CASE next # {}
  <2>1. PICK i \in next, l \in Lent(list) :
            r = [pool |-> [p EXCEPT !.queue = erase(@, i), !.idle = l.idle],
                 to |-> {p.queue[i]}, reused |-> l.reused]
      BY Zenon, <1>6 DEF release
  <2> HIDE DEF used, list, next
  <2>2. i \in 1 .. Len(p.queue) /\ l.idle \in Seq(Nat) /\ l.reused \in BOOLEAN
      BY <1>2, <1>3, LentType
  <2>3. erase(p.queue, i) \in Seq(Exchanges)
      BY SMTT(30), <1>1, <2>2, Erases
  <2>4. r.pool = [p EXCEPT !.queue = erase(@, i), !.idle = l.idle] /\ r.to = {p.queue[i]} /\ r.reused = l.reused
      BY <2>1
  <2>5. r.pool \in PoolType /\ r.pool.queue = erase(p.queue, i)
      BY Zenon, <2>2, <2>3, <2>4 DEF PoolType
  <2>. QED  BY <2>2, <2>4, <2>5 DEF GivenTo
<1>. QED  BY <1>5, <1>6

\* UpstreamPool::acquire: a slot, the end of the queue, or a refusal.
LEMMA Acquires ==
    ASSUME NEW p \in PoolType, NEW x \in Exchanges, NEW g \in acquire(p, x)
    PROVE  /\ g.pool \in PoolType /\ g.reused \in BOOLEAN /\ g.got \in {"slot", "queued", "refused"}
           /\ g.pool.queue = IF g.got = "queued" THEN Append(p.queue, x) ELSE p.queue
<1>1. p.active \in Int /\ p.queue \in Seq(Exchanges) /\ p.idle \in Seq(Nat)
    BY DEF PoolType
<1>2. CASE p.active < limit_for(x)
  <2>1. PICK l \in Lent(p.idle) : g = [pool |-> [p EXCEPT !.active = @ + 1, !.idle = l.idle],
                                       got |-> "slot", reused |-> l.reused]
      BY Zenon, <1>2 DEF acquire
  <2>2. l.idle \in Seq(Nat) /\ l.reused \in BOOLEAN
      BY <1>1, LentType
  <2> DEFINE n == p.active + 1
  <2>3. g.pool = [p EXCEPT !.active = n, !.idle = l.idle] /\ g.got = "slot" /\ g.reused = l.reused
      BY <2>1
  <2>5. n \in Int
      BY <1>1
  <2> HIDE DEF n
  <2>4. g.pool \in PoolType /\ g.pool.queue = p.queue
      BY Zenon, <1>1, <2>2, <2>3, <2>5 DEF PoolType
  <2>. QED  BY <2>2, <2>3, <2>4
<1>3. CASE ~(p.active < limit_for(x)) /\ Len(p.queue) >= QueueDepth
  <2>1. g = [pool |-> p, got |-> "refused", reused |-> FALSE]
      BY <1>3 DEF acquire
  <2>. QED  BY <2>1
<1>4. CASE ~(p.active < limit_for(x)) /\ ~(Len(p.queue) >= QueueDepth)
  <2>1. g = [pool |-> [p EXCEPT !.queue = Append(@, x)], got |-> "queued", reused |-> FALSE]
      BY <1>4 DEF acquire
  <2>2. Append(p.queue, x) \in Seq(Exchanges)
      BY <1>1, AppendProperties
  <2>3. g.pool = [p EXCEPT !.queue = Append(@, x)] /\ g.got = "queued" /\ g.reused = FALSE
      BY <2>1
  <2>4. g.pool \in PoolType /\ g.pool.queue = Append(p.queue, x)
      BY Zenon, <1>1, <2>2, <2>3 DEF PoolType
  <2>. QED  BY Zenon, <2>3, <2>4
<1>. QED  BY <1>2, <1>3, <1>4

\* One waiter fewer in the queue of a, and not waiting there any more.
LEMMA Unqueues ==
    ASSUME NEW a, NEW q \in Seq(Exchanges), NEW i \in 1 .. Len(q), NEW es, NEW fs, Queued(a, q, es),
           fs[q[i]].phase # "queued",
           \A y \in Exchanges : y # q[i] => ((fs[y].phase = "queued" /\ fs[y].member = a)
                                              <=> (es[y].phase = "queued" /\ es[y].member = a))
    PROVE  Queued(a, erase(q, i), fs)
<1>1. DOMAIN q = 1 .. Len(q) /\ Distinct(q)
    BY LenProperties DEF Queued, Distinct
<1> DEFINE r == erase(q, i)
<1>2. ErasedFrom(q, i, r)
    BY <1>1, Erases
<1> HIDE DEF r
<1>3. \A y \in Exchanges : (\E j \in DOMAIN r : r[j] = y) <=> (y # q[i] /\ \E k \in DOMAIN q : q[k] = y)
    BY Zenon, <1>1, <1>2 DEF ErasedFrom
<1>4. \A j, k \in DOMAIN r : r[j] = r[k] => j = k
    BY <1>2 DEF ErasedFrom
<1>5. ASSUME NEW y \in Exchanges
      PROVE  (fs[y].phase = "queued" /\ fs[y].member = a) <=> \E j \in DOMAIN r : r[j] = y
    BY <1>3 DEF Queued
<1>6. Queued(a, r, fs)
    BY SMTT(30), <1>4, <1>5 DEF Queued
<1>. QED  BY <1>6 DEF r

\* The queue of a is as it was, and so are those who wait there.
LEMMA StaysQueued ==
    ASSUME NEW a, NEW q, NEW es, NEW fs, Queued(a, q, es),
           \A y \in Exchanges : (fs[y].phase = "queued" /\ fs[y].member = a)
                                 <=> (es[y].phase = "queued" /\ es[y].member = a)
    PROVE  Queued(a, q, fs)
    BY DEF Queued

\* One more at the end of the queue of a.
LEMMA Enqueues ==
    ASSUME NEW a, NEW q \in Seq(Exchanges), NEW x \in Exchanges, NEW es, NEW fs, Queued(a, q, es),
           es[x].phase # "queued", fs[x].phase = "queued", fs[x].member = a,
           \A y \in Exchanges : y # x => ((fs[y].phase = "queued" /\ fs[y].member = a)
                                           <=> (es[y].phase = "queued" /\ es[y].member = a))
    PROVE  Queued(a, Append(q, x), fs)
<1> DEFINE r == Append(q, x)
           n == Len(q)
<1>1. n \in Nat /\ DOMAIN q = 1 .. n /\ DOMAIN r = 1 .. n + 1 /\ r[n + 1] = x /\ \A i \in 1 .. n : r[i] = q[i]
    BY SMTT(30), AppendProperties, LenProperties
<1> HIDE DEF r, n
<1>2. \A i \in 1 .. n : q[i] # x
    BY <1>1 DEF Queued
<1>3. \A i, j \in DOMAIN r : r[i] = r[j] => i = j
  <2> SUFFICES ASSUME NEW i \in DOMAIN r, NEW j \in DOMAIN r, r[i] = r[j] PROVE i = j
      OBVIOUS
  <2>1. CASE i \in 1 .. n /\ j \in 1 .. n
      BY SMTT(30), <1>1, <2>1 DEF Queued
  <2>2. CASE i = n + 1 \/ j = n + 1
      BY SMTT(30), <1>1, <1>2, <2>2
  <2>. QED  BY SMTT(30), <1>1, <2>1, <2>2
<1>4. ASSUME NEW y \in Exchanges
      PROVE  (\E j \in DOMAIN r : r[j] = y) <=> (y = x \/ \E k \in DOMAIN q : q[k] = y)
  <2>1. ASSUME NEW j \in DOMAIN r, r[j] = y PROVE y = x \/ \E k \in DOMAIN q : q[k] = y
      BY SMTT(30), <1>1, <2>1
  <2>2. ASSUME NEW k \in DOMAIN q, q[k] = y PROVE \E j \in DOMAIN r : r[j] = y
    <3>1. k \in DOMAIN r /\ r[k] = y
        BY SMTT(30), <1>1, <2>2
    <3>. QED  BY <3>1
  <2>3. n + 1 \in DOMAIN r /\ r[n + 1] = x
      BY <1>1
  <2>. QED  BY SMTT(30), <2>1, <2>2, <2>3
<1>5. ASSUME NEW y \in Exchanges
      PROVE  (fs[y].phase = "queued" /\ fs[y].member = a) <=> \E j \in DOMAIN r : r[j] = y
  <2>1. CASE y = x
      BY SMTT(30), <1>4, <2>1
  <2>2. CASE y # x
      BY SMTT(30), <1>4, <2>2 DEF Queued
  <2>. QED  BY SMTT(30), <2>1, <2>2
<1>6. Queued(a, r, fs)
    BY SMTT(30), <1>3, <1>5 DEF Queued
<1>. QED  BY <1>6 DEF r

-----------------------------------------------------------------------------
(* The exchanges of the worker.                                               *)

\* What an operation's handler finds.
LEMMA Found ==
    ASSUME Inv, NEW o \in ops
    PROVE  /\ o.x \in Exchanges /\ Once(o.x, ex[o.x]) /\ ex[o.x] \in ExchangeType
           /\ ex[o.x].member \in Addresses /\ \A c \in ops : c \in OpType /\ OnTime(c, ex[c.x])
    BY DEF Inv, StateInv, OpType, Once, ExchangeType

\* What is known of each exchange, operation and pool.
LEMMA Parts ==
    ASSUME NEW es, NEW os, NEW ps, StateInv(es, os, ps)
    PROVE  /\ \A y \in Exchanges : es[y] \in ExchangeType /\ Once(y, es[y])
           /\ \A o \in os : o \in OpType /\ o.x \in Exchanges
           /\ \A a \in Addresses : ps[a] \in PoolType /\ ps[a].queue \in Seq(Exchanges)
    BY DEF StateInv, OpType, PoolType

\* Closing a connection leaves operations that are not on time only where they were.
LEMMA Closes ==
    ASSUME NEW x, NEW os, os \subseteq OpType, NEW fs, \A o \in os : o.x # x => OnTime(o, fs[o.x])
    PROVE  /\ Closed(x, os) \subseteq OpType /\ \A o \in Closed(x, os) : OnTime(o, fs[o.x])
           /\ \A o \in Closed(x, os) : o.x = x => o.aborted \/ o.kind = "pull"
<1> SUFFICES ASSUME NEW c \in Closed(x, os)
             PROVE  c \in OpType /\ OnTime(c, fs[c.x]) /\ (c.x = x => c.aborted \/ c.kind = "pull")
    OBVIOUS
<1>1. PICK o \in os : c = IF o.x = x /\ o.kind # "pull" THEN [o EXCEPT !.aborted = TRUE] ELSE o
    BY DEF Closed
<1>2. o \in OpType
    OBVIOUS
<1>3. CASE o.x = x /\ o.kind # "pull"
  <2>1. c \in OpType /\ c.aborted = TRUE
      BY Zenon, <1>1, <1>2, <1>3 DEF OpType
  <2>. QED  BY <2>1 DEF OnTime
<1>4. CASE o.x = x /\ o.kind = "pull"
    BY <1>1, <1>2, <1>4 DEF OnTime
<1>5. CASE o.x # x
    BY <1>1, <1>2, <1>5
<1>. QED  BY SMTT(30), <1>3, <1>4, <1>5

\* Whoever is given the slot waits for it.
LEMMA GivenWaits ==
    ASSUME NEW es, NEW os, NEW ps, StateInv(es, os, ps), NEW a \in Addresses,
           NEW r, GivenTo(ps[a], r), NEW w \in r.to
    PROVE  w \in Exchanges /\ es[w].phase = "queued" /\ es[w].member = a
<1> DEFINE q == ps[a].queue
<1>1. ps[a] \in PoolType /\ q \in Seq(Exchanges) /\ Queued(a, q, es)
    BY Parts DEF StateInv
<1>3. PICK i \in 1 .. Len(q) : w = q[i]
    BY DEF GivenTo
<1>4. w \in Exchanges /\ i \in DOMAIN q
    BY SMTT(30), <1>1, <1>3, ElementOfSeq, LenProperties
<1>. QED  BY SMTT(30), <1>1, <1>3, <1>4 DEF Queued

\* x, left as e, gives its slot at a back, and the waiter it goes to begins.
LEMMA HandsOver ==
    ASSUME ExchangeAssumption, setting \in Settings,
           NEW es, NEW os, NEW ps, StateInv(es, os, ps), NEW x \in Exchanges, NEW e, Once(x, e),
           es[x].phase # "queued", e.phase # "queued", NEW a \in Addresses,
           NEW r, r.pool \in PoolType, r.reused \in BOOLEAN, GivenTo(ps[a], r),
           NEW os2, os2 \subseteq OpType, \A o \in os2 : OnTime(o, IF o.x = x THEN e ELSE es[o.x])
    PROVE  StateInv([y \in Exchanges |-> IF y = x THEN e
                                         ELSE IF y \in r.to THEN on_slot(es[y], r.reused) ELSE es[y]],
                    os2 \cup {SlotOp(w, a, r.reused) : w \in r.to},
                    [ps EXCEPT ![a] = r.pool])
<1> DEFINE fs == [y \in Exchanges |-> IF y = x THEN e
                                      ELSE IF y \in r.to THEN on_slot(es[y], r.reused) ELSE es[y]]
           qs == [ps EXCEPT ![a] = r.pool]
           started == {SlotOp(w, a, r.reused) : w \in r.to}
           q == ps[a].queue
<1>1. /\ \A y \in Exchanges : es[y] \in ExchangeType /\ Once(y, es[y])
      /\ \A b \in Addresses : ps[b] \in PoolType /\ ps[b].queue \in Seq(Exchanges) /\ Queued(b, ps[b].queue, es)
      /\ ps \in [Addresses -> PoolType]
    BY Zenon, Parts DEF StateInv
<1>2. r.pool \in PoolType /\ r.reused \in BOOLEAN /\ GivenTo(ps[a], r)
    OBVIOUS
<1>3. r.to \subseteq Exchanges /\ \A w \in r.to : es[w].phase = "queued" /\ es[w].member = a /\ w # x
    BY GivenWaits
<1>4. \A w \in r.to : LET f == on_slot(es[w], r.reused) IN
          /\ Once(w, f) /\ f.member = a /\ f.phase # "queued"
          /\ r.reused => f.sent = TRUE
  <2> SUFFICES ASSUME NEW w \in r.to
               PROVE  LET f == on_slot(es[w], r.reused) IN
                      Once(w, f) /\ f.member = a /\ f.phase # "queued" /\ (r.reused => f.sent = TRUE)
      OBVIOUS
  <2>1. Once(w, es[w]) /\ es[w].phase = "queued" /\ es[w].member = a
      BY <1>1, <1>3
  <2>2. w \notin Resendable => ~es[w].sent
      BY <2>1 DEF Once
  <2> DEFINE f == on_slot(es[w], r.reused)
  <2>3. /\ Once(w, f) /\ f.member = es[w].member
        /\ f.phase # "queued" /\ (r.reused => f.sent = TRUE)
    <3>1. CASE r.reused = TRUE
        BY Zenon, <2>1, <2>2, <3>1, TakesKept
    <3>2. CASE r.reused = FALSE
        BY Zenon, <2>1, <2>2, <3>2, TakesNew
    <3>. QED  BY Zenon, <1>2, <3>1, <3>2
  <2> HIDE DEF f
  <2>4. Once(w, f) /\ f.member = a /\ f.phase # "queued" /\ (r.reused => f.sent = TRUE)
      BY <1>2, <2>1, <2>3
  <2>. QED  BY <2>4 DEF f
<1>5. \A y \in Exchanges : fs[y] = IF y = x THEN e
                                   ELSE IF y \in r.to THEN on_slot(es[y], r.reused) ELSE es[y]
    OBVIOUS
<1> HIDE DEF fs
<1>6. \A y \in Exchanges : Once(y, fs[y])
    BY SMTT(30), <1>1, <1>4, <1>5
<1>7. fs \in [Exchanges -> ExchangeType]
  <2>1. \A y \in Exchanges : fs[y] \in ExchangeType
      BY SMTT(30), <1>6 DEF Once
  <2>. QED  BY SMTT(30), <2>1 DEF fs
<1>8. started \subseteq OpType
  <2> SUFFICES ASSUME NEW w \in r.to PROVE SlotOp(w, a, r.reused) \in OpType
      OBVIOUS
  <2>. QED  BY SMTT(30), <1>2, <1>3 DEF SlotOp, Op, OpType
<1>9. \A o \in os2 : OnTime(o, fs[o.x])
  <2> SUFFICES ASSUME NEW o \in os2 PROVE OnTime(o, fs[o.x])
      OBVIOUS
  <2>1. o.x \in Exchanges
      BY SMTT(30) DEF OpType
  <2>2. CASE o.x \notin r.to \/ o.x = x
      BY SMTT(30), <1>3, <1>5, <2>1, <2>2
  <2>3. CASE o.x \in r.to
    <3>1. o.x # x /\ es[o.x].phase = "queued" /\ Once(o.x, es[o.x])
        BY SMTT(30), <1>1, <1>3, <2>3
    <3>2. OnTime(o, es[o.x])
        BY SMTT(30), <3>1
    <3>. QED  BY SMTT(30), <3>1, <3>2 DEF OnTime, Once
  <2>. QED  BY SMTT(30), <2>2, <2>3
<1>10. \A o \in started : OnTime(o, fs[o.x])
  <2> SUFFICES ASSUME NEW w \in r.to PROVE OnTime(SlotOp(w, a, r.reused), fs[w])
      BY SMTT(30) DEF SlotOp, Op
  <2>1. fs[w] = on_slot(es[w], r.reused)
      BY SMTT(30), <1>3, <1>5
  <2>. QED  BY SMTT(30), <1>4, <2>1 DEF OnTime, SlotOp, Op
<1>11. qs \in [Addresses -> PoolType] /\ qs[a] = r.pool /\ \A b \in Addresses : b # a => qs[b] = ps[b]
    BY SMTT(30), <1>1, <1>2
<1> HIDE DEF qs, started
<1>12. ASSUME NEW b \in Addresses PROVE Queued(b, qs[b].queue, fs)
  <2>1. Queued(b, ps[b].queue, es)
      BY SMTT(30), <1>1
  <2>2. \A y \in Exchanges : y \notin r.to => ((fs[y].phase = "queued" /\ fs[y].member = b)
                                                <=> (es[y].phase = "queued" /\ es[y].member = b))
      BY SMTT(30), <1>5
  <2>3. CASE b = a
    <3>1. CASE r.to = {} /\ r.pool.queue = q
        BY SMTT(30), <1>11, <2>1, <2>2, <2>3, <3>1, StaysQueued
    <3>2. ASSUME NEW i \in 1 .. Len(q), r.to = {q[i]}, r.pool.queue = erase(q, i)
          PROVE  Queued(b, qs[b].queue, fs)
      <4>1. fs[q[i]].phase # "queued"
          BY SMTT(30), <1>3, <1>4, <1>5, <3>2
      <4>2. q \in Seq(Exchanges)
          BY SMTT(30), <1>1
      <4>3. Queued(a, erase(q, i), fs)
          BY SMTT(30), <2>1, <2>2, <2>3, <3>2, <4>1, <4>2, Unqueues
      <4>. QED  BY SMTT(30), <1>11, <2>3, <3>2, <4>3
    <3>. QED  BY SMTT(30), <1>2, <3>1, <3>2 DEF GivenTo
  <2>4. CASE b # a
    <3>1. \A y \in Exchanges : (fs[y].phase = "queued" /\ fs[y].member = b)
                                <=> (es[y].phase = "queued" /\ es[y].member = b)
        BY SMTT(30), <1>3, <1>4, <1>5, <2>2, <2>4
    <3>. QED  BY SMTT(30), <1>11, <2>1, <2>4, <3>1, StaysQueued
  <2>. QED  BY SMTT(30), <2>3, <2>4
<1>13. StateInv(fs, os2 \cup started, qs)
    BY SMTT(30), <1>6, <1>7, <1>8, <1>9, <1>10, <1>11, <1>12 DEF StateInv
<1>. QED  BY SMTT(30), <1>13 DEF fs, qs, started

\* Only x and the operations change (Goes), and x does not wait, or waits as before.
LEMMA GoesKeeps ==
    ASSUME NEW es, NEW os, NEW ps, StateInv(es, os, ps), NEW x \in Exchanges, NEW e, Once(x, e),
           (e.phase = "queued") = (es[x].phase = "queued"), es[x].phase = "queued" => e.member = es[x].member,
           NEW os2, os2 \subseteq OpType, \A o \in os2 : OnTime(o, IF o.x = x THEN e ELSE es[o.x])
    PROVE  StateInv([es EXCEPT ![x] = e], os2, ps)
<1> DEFINE fs == [es EXCEPT ![x] = e]
<1>1. es \in [Exchanges -> ExchangeType] /\ e \in ExchangeType
    BY DEF StateInv, Once
<1>2. fs \in [Exchanges -> ExchangeType] /\ \A y \in Exchanges : fs[y] = IF y = x THEN e ELSE es[y]
    BY <1>1
<1> HIDE DEF fs
<1>3. \A y \in Exchanges : Once(y, fs[y])
    BY SMTT(30), <1>2 DEF StateInv
<1>4. \A o \in os2 : OnTime(o, fs[o.x])
  <2> SUFFICES ASSUME NEW o \in os2 PROVE OnTime(o, fs[o.x])
      OBVIOUS
  <2>1. o.x \in Exchanges
      BY DEF OpType
  <2>2. fs[o.x] = IF o.x = x THEN e ELSE es[o.x]
      BY SMTT(30), <1>2, <2>1
  <2>. QED  BY <2>2
<1>5. ASSUME NEW b \in Addresses PROVE Queued(b, ps[b].queue, fs)
  <2>1. Queued(b, ps[b].queue, es)
      BY DEF StateInv
  <2>2. \A y \in Exchanges : (fs[y].phase = "queued" /\ fs[y].member = b)
                              <=> (es[y].phase = "queued" /\ es[y].member = b)
      BY <1>2
  <2>. QED  BY SMTT(30), <2>1, <2>2, StaysQueued
<1>6. StateInv(fs, os2, ps)
    BY SMTT(30), <1>2, <1>3, <1>4, <1>5 DEF StateInv
<1>. QED  BY <1>6 DEF fs

\* What asks for a slot: answered as often as delivered, and sent only if it may be again.
Asking(x, e) ==
    /\ e \in ExchangeType
    /\ e.answers = IF e.delivered THEN 1 ELSE 0
    /\ x \notin Resendable => e.sends = 0 /\ ~e.sent

\* x, as e, asks for a slot at b (Begun).
LEMMA BegunKeeps ==
    ASSUME ExchangeAssumption, setting \in Settings,
           NEW es, NEW os, NEW ps, StateInv(es, os, ps), NEW x \in Exchanges, NEW e, Asking(x, e),
           NEW b \in Addresses, es[x].phase # "queued",
           \A o \in os : o.x = x /\ x \notin Resendable => o.aborted \/ o.kind \notin {"handshake", "head"},
           Begun(x, e, b, ps, es, os)
    PROVE  StateInv(ex', ops', pools')
<1> DEFINE tried == e.tried \cup InMask(b)
           q0 == [arm(e) EXCEPT !.phase = "queued", !.member = b, !.tried = @ \cup InMask(b)]
           q == [e EXCEPT !.late = FALSE, !.phase = "queued", !.member = b, !.tried = tried]
<1>0. PICK g \in acquire(ps[b], x) :
          /\ pools' = [ps EXCEPT ![b] = g.pool]
          /\ ex' = [es EXCEPT ![x] = CASE g.got = "slot" -> on_slot(q0, g.reused)
                                       [] g.got = "queued" -> q0
                                       [] g.got = "refused" -> Failed(q0)]
          /\ ops' = os \cup (IF g.got = "slot" THEN {SlotOp(x, b, g.reused)} ELSE {})
    BY Zenon DEF Begun
<1> DEFINE new == CASE g.got = "slot" -> on_slot(q, g.reused) [] g.got = "queued" -> q [] g.got = "refused" -> Failed(q)
           more == IF g.got = "slot" THEN {SlotOp(x, b, g.reused)} ELSE {}
           fs == [es EXCEPT ![x] = new]
           qs == [ps EXCEPT ![b] = g.pool]
<1>1. e \in ExchangeType /\ tried \subseteq Addresses
    BY DEF Asking, ExchangeType, InMask
<1>2. q = q0
    BY <1>1 DEF arm, ExchangeType
<1>16. pools' = qs /\ ex' = fs /\ ops' = os \cup more
    BY Zenon, <1>0, <1>2
<1> HIDE DEF tried, q0
<1>3. q \in ExchangeType /\ q.phase = "queued" /\ q.member = b /\ q.sent = e.sent /\ q.sends = e.sends
      /\ q.delivered = e.delivered /\ q.answers = e.answers
    BY Zenon, <1>1 DEF ExchangeType, Phases
<1> HIDE DEF q
<1>4. Once(x, q) /\ (x \notin Resendable => ~q.sent)
    BY <1>3 DEF Once, Asking
<1>5. /\ \A y \in Exchanges : es[y] \in ExchangeType /\ Once(y, es[y])
      /\ \A a \in Addresses : ps[a] \in PoolType /\ ps[a].queue \in Seq(Exchanges) /\ Queued(a, ps[a].queue, es)
      /\ ps \in [Addresses -> PoolType] /\ es \in [Exchanges -> ExchangeType]
    BY Zenon, Parts DEF StateInv
<1>6. /\ g.pool \in PoolType /\ g.reused \in BOOLEAN /\ g.got \in {"slot", "queued", "refused"}
      /\ g.pool.queue = IF g.got = "queued" THEN Append(ps[b].queue, x) ELSE ps[b].queue
    BY <1>5, Acquires
<1>7. /\ Once(x, new) /\ (new.phase = "queued" <=> g.got = "queued") /\ new.member = b
      /\ g.got = "slot" /\ g.reused => new.sent = TRUE
  <2>1. CASE g.got = "slot"
    <3>1. new = on_slot(q, g.reused)
        BY <2>1
    <3>2. CASE g.reused = TRUE
      <4>1. new = on_slot(q, TRUE)
          BY Zenon, <3>1, <3>2
      <4>2. Once(x, on_slot(q, TRUE)) /\ on_slot(q, TRUE).phase = "sending" /\ on_slot(q, TRUE).sent = TRUE
            /\ on_slot(q, TRUE).member = q.member
          BY Zenon, <1>4, TakesKept
      <4>. QED  BY Zenon, <1>3, <2>1, <4>1, <4>2
    <3>3. CASE g.reused = FALSE
      <4>1. new = on_slot(q, FALSE)
          BY Zenon, <3>1, <3>3
      <4>2. Once(x, on_slot(q, FALSE)) /\ on_slot(q, FALSE).phase = "connecting" /\ on_slot(q, FALSE).member = q.member
          BY Zenon, <1>4, TakesNew
      <4>. QED  BY Zenon, <1>3, <2>1, <3>3, <4>1, <4>2
    <3>. QED  BY Zenon, <1>6, <3>2, <3>3
  <2>2. CASE g.got = "queued"
      BY <1>3, <1>4, <2>2
  <2>3. CASE g.got = "refused"
    <3>1. new = deliver_head([q EXCEPT !.phase = "failed"])
        BY SMTT(30), <2>3 DEF Failed
    <3>2. Once(x, new) /\ new.phase = "failed" /\ new.member = q.member
        BY Zenon, <1>4, <3>1, EndsOnce
    <3>. QED  BY SMTT(30), <1>3, <2>3, <3>2
  <2>. QED  BY Zenon, <1>6, <2>1, <2>2, <2>3
<1> HIDE DEF new
<1>8. new \in ExchangeType
    BY <1>7 DEF Once
<1>9. fs \in [Exchanges -> ExchangeType] /\ \A y \in Exchanges : fs[y] = IF y = x THEN new ELSE es[y]
    BY <1>5, <1>8
<1> HIDE DEF fs
<1>10. \A y \in Exchanges : Once(y, fs[y])
    BY SMTT(30), <1>5, <1>7, <1>9
<1>11. more \subseteq OpType /\ \A o \in more : OnTime(o, fs[o.x])
  <2>1. CASE g.got = "slot"
    <3>1. SlotOp(x, b, g.reused) \in OpType
        BY SMTT(30), <1>6 DEF SlotOp, Op, OpType
    <3>2. OnTime(SlotOp(x, b, g.reused), new)
        BY SMTT(30), <1>6, <1>7, <2>1 DEF OnTime, SlotOp, Op
    <3>3. SlotOp(x, b, g.reused).x = x
        BY SMTT(30) DEF SlotOp, Op
    <3>. QED  BY SMTT(30), <1>9, <2>1, <3>1, <3>2, <3>3
  <2>2. CASE g.got # "slot"
      BY SMTT(30), <2>2
  <2>. QED  BY SMTT(30), <2>1, <2>2
<1>12. os \subseteq OpType /\ \A o \in os : OnTime(o, fs[o.x])
  <2>1. os \subseteq OpType
      BY SMTT(30) DEF StateInv
  <2> SUFFICES ASSUME NEW o \in os PROVE OnTime(o, fs[o.x])
      BY SMTT(30), <2>1
  <2>2. o.x \in Exchanges /\ OnTime(o, es[o.x])
      BY SMTT(30), <2>1 DEF OpType, StateInv
  <2>3. CASE o.x # x
      BY SMTT(30), <1>9, <2>2, <2>3
  <2>4. CASE o.x = x
      BY SMTT(30), <2>4 DEF OnTime
  <2>. QED  BY SMTT(30), <2>3, <2>4
<1>13. qs \in [Addresses -> PoolType] /\ qs[b] = g.pool /\ \A a \in Addresses : a # b => qs[a] = ps[a]
    BY SMTT(30), <1>5, <1>6
<1> HIDE DEF qs, more
<1>14. ASSUME NEW a \in Addresses PROVE Queued(a, qs[a].queue, fs)
  <2>1. Queued(a, ps[a].queue, es)
      BY SMTT(30), <1>5
  <2>2. \A y \in Exchanges : y # x => ((fs[y].phase = "queued" /\ fs[y].member = a)
                                         <=> (es[y].phase = "queued" /\ es[y].member = a))
      BY SMTT(30), <1>9
  <2>3. CASE a = b /\ g.got = "queued"
    <3>1. fs[x].phase = "queued" /\ fs[x].member = a
        BY <1>7, <1>9, <2>3
    <3>2. ps[a].queue \in Seq(Exchanges)
        BY SMTT(30), <1>5
    <3>3. Queued(a, Append(ps[a].queue, x), fs)
        BY SMTT(30), <2>1, <2>2, <3>1, <3>2, Enqueues
    <3>. QED  BY Zenon, <1>6, <1>13, <2>3, <3>3
  <2>4. CASE ~(a = b /\ g.got = "queued")
    <3>1. \A y \in Exchanges : (fs[y].phase = "queued" /\ fs[y].member = a)
                                <=> (es[y].phase = "queued" /\ es[y].member = a)
        BY SMTT(30), <1>7, <1>9, <2>2, <2>4
    <3>2. Queued(a, ps[a].queue, fs)
        BY SMTT(30), <2>1, <3>1, StaysQueued
    <3>3. qs[a].queue = ps[a].queue
        BY SMTT(30), <1>6, <1>13, <2>4
    <3>. QED  BY SMTT(30), <3>2, <3>3
  <2>. QED  BY SMTT(30), <2>3, <2>4
<1>15. StateInv(fs, os \cup more, qs)
    BY SMTT(30), <1>9, <1>10, <1>11, <1>12, <1>13, <1>14 DEF StateInv
<1>. QED  BY SMTT(30), <1>15, <1>16

\* pick() answers a member of the group.
LEMMA Picks ==
    ASSUME ExchangeAssumption, setting \in Settings, NEW h, NEW order, NEW start \in Nat, NEW tried
    PROVE  pick(h, order, start, tried) \subseteq Addresses
<1>1. GroupSize \in Nat \ {0}
    BY GroupType
<1>2. \A k \in 1 .. GroupSize : Visited(start, k) \in Addresses
    BY SMTT(30), <1>1 DEF Visited, Addresses
<1>. QED  BY <1>2 DEF pick

\* What is on x's connection when the phase says that nothing is sent there.
LEMMA ReleaseKeeps ==
    ASSUME ExchangeAssumption, Inv, NEW x \in Exchanges, NEW e, Once(x, e),
           ex[x].phase # "queued", e.phase # "queued", NEW open \in BOOLEAN, NEW os, os \subseteq ops,
           open => \A o \in os : o.x = x => OnTime(o, e),
           release_connection(x, e, open, os)
    PROVE  StateInv(ex', ops', pools')
<1> DEFINE a == e.member
           os2 == IF open THEN os ELSE Closed(x, os)
<1>1. setting \in Settings /\ StateInv(ex, ops, pools) /\ a \in Addresses
    BY DEF Inv, Once, ExchangeType
<1>2. PICK r \in release(pools[a], open) :
          /\ pools' = [pools EXCEPT ![a] = r.pool]
          /\ ex' = [y \in Exchanges |-> IF y = x THEN e
                                        ELSE IF y \in r.to THEN on_slot(ex[y], r.reused)
                                        ELSE ex[y]]
          /\ ops' = os2 \cup {SlotOp(w, a, r.reused) : w \in r.to}
    BY Zenon DEF release_connection
<1>3. os \subseteq OpType /\ \A o \in os : OnTime(o, ex[o.x])
    BY SMTT(30), <1>1 DEF StateInv
<1>4. os2 \subseteq OpType /\ \A o \in os2 : OnTime(o, IF o.x = x THEN e ELSE ex[o.x])
  <2>1. CASE open
      BY SMTT(30), <1>3, <2>1
  <2>2. CASE ~open
    <3>1. \A o \in os : o.x # x => OnTime(o, ex[o.x])
        BY SMTT(30), <1>3
    <3>2. /\ Closed(x, os) \subseteq OpType /\ \A o \in Closed(x, os) : OnTime(o, ex[o.x])
          /\ \A o \in Closed(x, os) : o.x = x => o.aborted \/ o.kind = "pull"
        BY SMTT(30), <1>3, <3>1, Closes
    <3>. QED  BY SMTT(30), <2>2, <3>2 DEF OnTime
  <2>. QED  BY SMTT(30), <2>1, <2>2
<1> HIDE DEF a, os2
<1>5. pools[a] \in PoolType
    BY SMTT(30), <1>1 DEF StateInv
<1>6. r.pool \in PoolType /\ r.reused \in BOOLEAN /\ GivenTo(pools[a], r)
    BY SMTT(30), <1>2, <1>5, Releases
<1>7. StateInv([y \in Exchanges |-> IF y = x THEN e
                                    ELSE IF y \in r.to THEN on_slot(ex[y], r.reused) ELSE ex[y]],
               os2 \cup {SlotOp(w, a, r.reused) : w \in r.to},
               [pools EXCEPT ![a] = r.pool])
    BY Zenon, <1>1, <1>4, <1>6, HandsOver
<1>. QED  BY Zenon, <1>2, <1>7

\* fail(): the exchange ends, or begins anew at another member.
LEMMA FailKeeps ==
    ASSUME ExchangeAssumption, Inv, NEW x \in Exchanges, NEW e, Once(x, e),
           ex[x].phase # "queued", e.phase # "queued", e.phase # "cancelled",
           NEW counted \in BOOLEAN, NEW os, os \subseteq ops, fail(x, e, counted, os)
    PROVE  StateInv(ex', ops', pools') /\ turn' \in Nat
<1> DEFINE a == e.member
           h == IF counted THEN mark_failure(health, a) ELSE health
           order == IF counted THEN MarkOrder(a) ELSE marks
           next == IF MayMove(x, e) THEN pick(h, order, a, e.tried) ELSE {}
<1>1. setting \in Settings /\ StateInv(ex, ops, pools) /\ a \in Addresses /\ e \in ExchangeType /\ a \in Nat
    BY SMTT(30) DEF Inv, Once, ExchangeType, Addresses
<1>2. turn' \in Nat
    BY Zenon DEF fail, Inv
<1>3. CASE release_connection(x, Failed(e), FALSE, os)
  <2>1. Once(x, Failed(e)) /\ Failed(e).phase = "failed"
      BY Zenon, EndsOnce DEF Failed
  <2>. QED  BY Zenon, <1>2, <1>3, <2>1, ReleaseKeeps
<1>4. ASSUME NEW b \in next, NEW r \in release(pools[a], FALSE),
             Begun(x, Moved(e), b,
                   [pools EXCEPT ![a] = r.pool],
                   [y \in Exchanges |-> IF y \in r.to THEN on_slot(ex[y], r.reused) ELSE ex[y]],
                   Closed(x, os) \cup {SlotOp(w, a, r.reused) : w \in r.to})
      PROVE  StateInv(ex', ops', pools')
  <2> DEFINE es == [y \in Exchanges |-> IF y \in r.to THEN on_slot(ex[y], r.reused) ELSE ex[y]]
             fs == [y \in Exchanges |-> IF y = x THEN ex[x]
                                        ELSE IF y \in r.to THEN on_slot(ex[y], r.reused) ELSE ex[y]]
             os2 == Closed(x, os) \cup {SlotOp(w, a, r.reused) : w \in r.to}
             ps == [pools EXCEPT ![a] = r.pool]
  <2>1. MayMove(x, e) /\ b \in Addresses
      BY Zenon, <1>1, <1>4, Picks
  <2>15. pools[a] \in PoolType
      BY SMTT(30), <1>1 DEF StateInv
  <2>16. r.pool \in PoolType /\ r.reused \in BOOLEAN /\ GivenTo(pools[a], r)
      BY Zenon, <2>15, Releases
  <2>2. \A w \in r.to : ex[w].phase = "queued"
      BY <1>1, <2>16, GivenWaits
  <2>3. x \notin r.to
      BY SMTT(30), <2>2
  <2>4. es = fs
      BY <2>3
  <2>5. os \subseteq OpType /\ \A o \in os : OnTime(o, ex[o.x])
      BY SMTT(30), <1>1 DEF StateInv
  <2>6. \A o \in os : o.x # x => OnTime(o, ex[o.x])
      BY SMTT(30), <2>5
  <2>7. /\ Closed(x, os) \subseteq OpType /\ \A o \in Closed(x, os) : OnTime(o, ex[o.x])
        /\ \A o \in Closed(x, os) : o.x = x => o.aborted \/ o.kind = "pull"
      BY SMTT(30), <2>5, <2>6, Closes
  <2>8. Once(x, ex[x]) /\ \A o \in Closed(x, os) : OnTime(o, IF o.x = x THEN ex[x] ELSE ex[o.x])
      BY SMTT(30), <1>1, <2>7 DEF StateInv
  <2>9. StateInv(fs, os2, ps)
      BY Zenon, <1>1, <2>7, <2>8, <2>16, HandsOver
  <2>10. Asking(x, Moved(e))
    <3>1. e \in ExchangeType /\ e.answers = (IF e.delivered THEN 1 ELSE 0)
          /\ (x \notin Resendable => e.sends = 0)
        BY Zenon, <2>1 DEF Once, MayMove
    <3>2. Moved(e) \in ExchangeType /\ Moved(e).sent = FALSE /\ Moved(e).sends = e.sends
          /\ Moved(e).answers = e.answers /\ Moved(e).delivered = e.delivered
        BY Zenon, <3>1 DEF Moved, ExchangeType
    <3>. QED  BY Zenon, <3>1, <3>2 DEF Asking
  <2>11. es[x].phase # "queued"
      BY <2>3
  <2>12. \A o \in os2 : o.x = x => o.aborted \/ o.kind \notin {"handshake", "head"}
    <3>1. \A w \in r.to : SlotOp(w, a, r.reused).x = w
        BY SMTT(30) DEF SlotOp, Op
    <3>. QED  BY <2>3, <2>7, <3>1
  <2> HIDE DEF es, fs, os2, ps
  <2>13. Begun(x, Moved(e), b, ps, es, os2)
      BY <1>4 DEF es, os2, ps
  <2>. QED  BY <1>1, <2>1, <2>4, <2>9, <2>10, <2>11, <2>12, <2>13, BegunKeeps
<1>. QED  BY Zenon, <1>2, <1>3, <1>4 DEF fail

\* sweep_idle's scan stops: at the first connection that may stay, or at the end.
LEMMA ExpiredFirst ==
    ASSUME ExchangeAssumption, NEW idle \in Seq(Nat)
    PROVE  LET n == Expired(idle) IN
           /\ n \in 0 .. Len(idle)
           /\ \A k \in 1 .. n : idle[k] > IdleTimeout
           /\ n < Len(idle) => idle[n + 1] <= IdleTimeout
<1> DEFINE S == {m \in 0 .. Len(idle) : m < Len(idle) => idle[m + 1] <= IdleTimeout}
<1>1. Len(idle) \in Nat /\ IdleTimeout \in Nat /\ \A k \in 1 .. Len(idle) : idle[k] \in Nat
    BY SMTT(30), LenProperties, ElementOfSeq DEF ExchangeAssumption
<1>2. S \subseteq Nat /\ Len(idle) \in S
    BY SMTT(30), <1>1
<1>3. PICK n \in S : \A m \in S : n <= m
    BY Zenon, <1>2, LeastNat
<1>4. ASSUME NEW k \in 1 .. n PROVE idle[k] > IdleTimeout
  <2>1. k - 1 \in 0 .. Len(idle) /\ k - 1 < n /\ k - 1 < Len(idle) /\ k \in 1 .. Len(idle)
      BY SMTT(30), <1>1, <1>3
  <2>2. k - 1 \notin S
      BY SMTT(30), <1>1, <1>2, <1>3, <2>1
  <2>3. ~(idle[(k - 1) + 1] <= IdleTimeout) /\ (k - 1) + 1 = k
      BY SMTT(30), <2>1, <2>2
  <2>. QED  BY <1>1, <2>1, <2>3
<1> DEFINE P(m) == /\ \A k \in 1 .. m : idle[k] > IdleTimeout
                   /\ m < Len(idle) => idle[m + 1] <= IdleTimeout
<1>5. \E m \in 0 .. Len(idle) : P(m)
    BY SMTT(30), <1>3, <1>4
<1>6. Expired(idle) = CHOOSE m \in 0 .. Len(idle) : P(m)
    BY DEF Expired
<1> HIDE DEF P
<1>7. Expired(idle) \in 0 .. Len(idle) /\ P(Expired(idle))
    BY <1>5, <1>6, Zenon
<1>. QED  BY SMTT(30), <1>7 DEF P

=============================================================================
