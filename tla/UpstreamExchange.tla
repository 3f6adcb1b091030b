-------------------------- MODULE UpstreamExchange --------------------------
(* The exchanges of one worker with a group of origins: class UpstreamRequest *)
(* of src/upstream/client.{hpp,cpp} over the pools, the passive health and    *)
(* the tick of class UpstreamPool.  One event loop runs every step.           *)
(*                                                                            *)
(* An asynchronous operation is an element of ops until its handler runs; a   *)
(* connection that is closed aborts its operation, whose handler runs later   *)
(* with the error.  A handler that the code may run inline is the next step   *)
(* of its exchange here.  Deadlines are abstract: an exchange becomes late    *)
(* when a tick passes after its last arm(), and a late one may be failed.     *)
(* A client that leaves a streamed answer is the matter of UpstreamResponse.  *)
EXTENDS Integers, Sequences, FiniteSets

CONSTANTS
    Exchanges,       \* the requests
    MaskBits,        \* the bits of tried_ (32 in the code)
    Resendable,      \* retry_ok_: GET and HEAD requests without a body
    WithBody,        \* those whose body follows the head in chunks
    FromClient,      \* of those, the ones streamed from the client
    Streamed,        \* those answered with buffering off
    Priority, MaxConnections, Reserved, QueueDepth, MaxIdle, IdleTimeout,
    MaxFails,        \* max_fails
    Settings         \* the settings to check: see below

\* A setting: the requests that come, the size of the group of origins and
\* which of its addresses are https://; and a bound on the body chunks sent and
\* the reads of a response.
ExchangeAssumption ==
    /\ IsFiniteSet(Exchanges)
    /\ MaskBits \in Nat
    /\ Resendable \cup WithBody \cup Streamed \cup Priority \subseteq Exchanges
    /\ FromClient \subseteq WithBody
    /\ Resendable \cap WithBody = {}
    /\ MaxFails \in Nat \ {0}
    /\ MaxConnections \in Nat \ {0} /\ Reserved \in 0 .. MaxConnections
    /\ QueueDepth \in Nat /\ MaxIdle \in Nat /\ IdleTimeout \in Nat
    /\ \A s \in Settings : /\ s.come \subseteq Exchanges
                           /\ s.size \in Nat \ {0} /\ s.tls \subseteq 1 .. s.size
                           /\ s.chunks \in Nat

VARIABLES
    ex,       \* the exchanges
    ops,      \* operations started whose handlers have not run
    pools,    \* UpstreamPool::upstreams_
    health,   \* UpstreamPool::health_
    marks,    \* the addresses, the one marked down longest ago first
    turn,     \* UpstreamPool::rotation_
    ticking,  \* UpstreamPool::ticking_
    wronged,  \* addresses charged with another connection's failure (history)
    setting   \* the one of Settings the worker runs in

vars == <<ex, ops, pools, health, marks, turn, ticking, wronged, setting>>

GroupSize == setting.size
Addresses == 1 .. GroupSize
Tls == setting.tls
MaxChunks == setting.chunks

Active == {"connecting", "sending", "sending_body", "receiving"}
Watched == Active \cup {"queued"}
Ended == {"finished", "failed", "cancelled"}

\* UpstreamRequest's members before begin().
NewExchange ==
    [phase |-> "new", member |-> 1, tried |-> {}, attempts |-> 0, sent |-> FALSE,
     seen |-> "nothing", reused |-> FALSE, reading |-> FALSE, left |-> MaxChunks,
     late |-> FALSE, delivered |-> FALSE, answers |-> 0, sends |-> 0]

Init ==
    /\ setting \in Settings
    /\ ex = [x \in Exchanges |-> NewExchange]
    /\ ops = {}
    /\ pools = [a \in Addresses |-> [active |-> 0, queue |-> <<>>, idle |-> <<>>]]
    /\ health = [a \in Addresses |-> [failures |-> 0, down |-> FALSE]]
    /\ marks = [a \in Addresses |-> a]
    /\ turn = 0
    /\ ticking = FALSE
    /\ wronged = {}

-----------------------------------------------------------------------------
(* The pool of one address, as functions of its record.                       *)

\* std::deque::erase of the i-th.
erase(q, i) == SubSeq(q, 1, i - 1) \o SubSeq(q, i + 1, Len(q))

limit_for(x) ==
    IF x \in Priority THEN MaxConnections
    ELSE IF MaxConnections > Reserved THEN MaxConnections - Reserved ELSE 0

\* grant(): the kept connections are tried from the back, the old ones peeked.
Lent(idle) ==
    {[idle |-> SubSeq(idle, 1, n - 1), reused |-> n > 0] :
        n \in {m \in 0 .. Len(idle) : \A k \in m + 1 .. Len(idle) : idle[k] > 0}}

acquire(p, x) ==
    IF p.active < limit_for(x)
    THEN {[pool |-> [p EXCEPT !.active = @ + 1, !.idle = l.idle],
           got |-> "slot", reused |-> l.reused] : l \in Lent(p.idle)}
    ELSE IF Len(p.queue) >= QueueDepth
    THEN {[pool |-> p, got |-> "refused", reused |-> FALSE]}
    ELSE {[pool |-> [p EXCEPT !.queue = Append(@, x)], got |-> "queued", reused |-> FALSE]}

\* Whom release() serves next when `used` slots stay taken: at most one index.
NextWaiter(queue, used) ==
    LET prior == {i \in DOMAIN queue : queue[i] \in Priority}
    IN IF prior # {}
       THEN {i \in prior : used < MaxConnections /\ \A j \in prior : i <= j}
       ELSE {i \in DOMAIN queue : i = 1 /\ used < limit_for(queue[1])}

release(p, open) ==
    LET used == p.active - 1
        list == IF open /\ Len(p.idle) < MaxIdle THEN Append(p.idle, 0) ELSE p.idle
        next == NextWaiter(p.queue, used)
    IN IF next = {}
       THEN {[pool |-> [p EXCEPT !.active = used, !.idle = list], to |-> {}, reused |-> FALSE]}
       ELSE UNION {{[pool |-> [p EXCEPT !.queue = erase(@, i), !.idle = l.idle],
                     to |-> {p.queue[i]}, reused |-> l.reused] : l \in Lent(list)} : i \in next}

\* Mutant: the entry of a request that stopped waiting stays in the queue.
dequeue_keeps_the_entry(p, x) == {p}

dequeue(p, x) ==
    LET at == {i \in DOMAIN p.queue : p.queue[i] = x}
    IN IF at = {} THEN {p}
       ELSE {[p EXCEPT !.queue = erase(@, i)] : i \in {j \in at : \A k \in at : j <= k}}

-----------------------------------------------------------------------------
(* Health and the choice of a member.                                         *)

mark_failure(h, a) ==
    [h EXCEPT ![a].failures = IF @ < MaxFails THEN @ + 1 ELSE @,
              ![a].down = @ \/ h[a].failures + 1 >= MaxFails]

MarkOrder(a) ==
    IF ~health[a].down /\ health[a].failures + 1 >= MaxFails
    THEN Append(erase(marks, CHOOSE i \in DOMAIN marks : marks[i] = a), a) ELSE marks

mark_success(h, a) == [h EXCEPT ![a] = [failures |-> 0, down |-> FALSE]]

\* The k-th member pick() visits from `start` (from 0).
Visited(start, k) == ((start + k - 1) % GroupSize) + 1

\* Of the members the mask does not remember, the first that is not down, else the
\* one marked longest ago; no member is {}.
pick(h, order, start, tried) ==
    LET up == {k \in 1 .. GroupSize : LET a == Visited(start, k) IN a \notin tried /\ ~h[a].down}
        left == Addresses \ tried
    IN IF up # {} THEN {Visited(start, k) : k \in {j \in up : \A i \in up : j <= i}}
       ELSE {a \in left : \A b \in left :
                \E i, j \in DOMAIN order : order[i] = a /\ order[j] = b /\ i <= j}

\* Mutant: the member tried is not remembered.
InMask_forgets(a) == {}

InMask(a) == {a} \cap 1 .. MaskBits

-----------------------------------------------------------------------------
(* What an exchange does with a slot, and with its end.                       *)

Op(x, a, kind) == [x |-> x, at |-> a, kind |-> kind, aborted |-> FALSE]

\* Closing the connection of x aborts what runs on it; a read of the client's
\* body is not on it.
Closed(x, os) ==
    {IF o.x = x /\ o.kind # "pull" THEN [o EXCEPT !.aborted = TRUE] ELSE o : o \in os}

arm(e) == [e EXCEPT !.late = FALSE]

send_head(e) == [arm(e) EXCEPT !.phase = "sending", !.sent = TRUE, !.sends = @ + 1]

connect(e) == [arm(e) EXCEPT !.phase = "connecting", !.attempts = @ + 1, !.reused = FALSE]

on_slot(e, reused) ==
    IF reused THEN [send_head(e) EXCEPT !.attempts = @ + 1, !.reused = TRUE]
    ELSE connect(e)

SlotOp(x, a, reused) == Op(x, a, IF reused THEN "head" ELSE "connect")

deliver_head(e) ==
    IF e.delivered THEN e ELSE [e EXCEPT !.delivered = TRUE, !.answers = @ + 1]

\* Mutant: the completion is forgotten on a failure.
Failed_silently(e) == [e EXCEPT !.phase = "failed"]

\* on_queue_refused, and the end of fail().
Failed(e) == deliver_head([e EXCEPT !.phase = "failed"])

\* x, left as e, gives its slot at a back and a waiter takes it over.
release_connection(x, e, open, os) ==
    LET a == e.member
    IN \E r \in release(pools[a], open) :
          /\ pools' = [pools EXCEPT ![a] = r.pool]
          /\ ex' = [y \in Exchanges |-> IF y = x THEN e
                                        ELSE IF y \in r.to THEN on_slot(ex[y], r.reused)
                                        ELSE ex[y]]
          /\ ops' = (IF open THEN os ELSE Closed(x, os))
                        \cup {SlotOp(w, a, r.reused) : w \in r.to}

\* e, of x, asks for a slot at b of pools ps.
Begun(x, e, b, ps, es, os) ==
    \E g \in acquire(ps[b], x) :
        LET q == [arm(e) EXCEPT !.phase = "queued", !.member = b, !.tried = @ \cup InMask(b)]
        IN /\ pools' = [ps EXCEPT ![b] = g.pool]
           /\ ex' = [es EXCEPT ![x] = CASE g.got = "slot" -> on_slot(q, g.reused)
                                        [] g.got = "queued" -> q
                                        [] g.got = "refused" -> Failed(q)]
           /\ ops' = os \cup (IF g.got = "slot" THEN {SlotOp(x, b, g.reused)} ELSE {})

\* Mutant: a request that went out may move on as well.
MayMove_although_sent(x, e) == GroupSize >= 2

\* try_next_address: whether the exchange may go on elsewhere.
MayMove(x, e) ==
    /\ GroupSize >= 2
    /\ e.sent => x \in Resendable /\ e.seen = "nothing"

Moved(e) == [e EXCEPT !.attempts = 0, !.sent = FALSE]

\* fail(): the address is charged unless the fault is this side's own; the
\* next member is tried, else the exchange has failed.
fail(x, e, counted, os) ==
    LET a == e.member
        h == IF counted THEN mark_failure(health, a) ELSE health
        order == IF counted THEN MarkOrder(a) ELSE marks
        next == IF MayMove(x, e) THEN pick(h, order, a, e.tried) ELSE {}
    IN /\ health' = h
       /\ marks' = order
       /\ \/ /\ next = {}
             /\ release_connection(x, Failed(e), FALSE, os)
          \/ \E b \in next, r \in release(pools[a], FALSE) :
                Begun(x, Moved(e), b,
                      [pools EXCEPT ![a] = r.pool],
                      [y \in Exchanges |-> IF y \in r.to THEN on_slot(ex[y], r.reused) ELSE ex[y]],
                      Closed(x, os) \cup {SlotOp(w, a, r.reused) : w \in r.to})
       /\ UNCHANGED <<turn, ticking>>

\* A handler failed the exchange: on the connection's own error, or because
\* the connection it was started on had been closed under it.
FailedBy(o, e, os) ==
    /\ fail(o.x, e, TRUE, os)
    /\ wronged' = IF o.aborted THEN wronged \cup {e.member} ELSE wronged

\* Only x and the operations change.
Goes(x, e, os) ==
    /\ ex' = [ex EXCEPT ![x] = e]
    /\ ops' = os
    /\ UNCHANGED <<pools, health, marks, turn, ticking, wronged>>

\* read_more, with buffering off held back while the client is slow.
read_more(x, e, os) ==
    IF e.reading THEN Goes(x, e, os)
    ELSE \/ Goes(x, [arm(e) EXCEPT !.reading = TRUE], os \cup {Op(x, e.member, "read")})
         \/ x \in Streamed /\ e.delivered /\ Goes(x, e, os)

body_sent(x, e, os) ==
    read_more(x, [e EXCEPT !.phase = "receiving", !.left = MaxChunks], os)

\* The retry on a fresh connection when a kept one turns out to be dead.
CanRetry(x, e) ==
    x \in Resendable /\ e.attempts = 1 /\ e.reused /\ e.seen = "nothing"

try_retry(x, e, os) ==
    CanRetry(x, e) /\ Goes(x, connect(e), os \cup {Op(x, e.member, "connect")})

finish(x, e, open, os) ==
    /\ health' = mark_success(health, e.member)
    /\ release_connection(x, deliver_head([e EXCEPT !.phase = "finished"]), open, os)
    /\ UNCHANGED <<marks, turn, ticking, wronged>>

finish_upgraded(x, e, os) ==
    /\ release_connection(x, deliver_head([e EXCEPT !.phase = "finished"]), FALSE, os)
    /\ UNCHANGED <<health, marks, turn, ticking, wronged>>

-----------------------------------------------------------------------------

\* The constructor picks a member, begin() asks its pool for a slot.
begin(x) ==
    /\ ex[x].phase = "new" /\ x \in setting.come
    /\ \E b \in pick(health, marks, turn, {}) : Begun(x, ex[x], b, pools, ex, ops)
    /\ turn' = (turn + 1) % GroupSize
    /\ ticking' = TRUE
    /\ UNCHANGED <<health, marks, wronged>>

on_connect(o) ==
    LET x == o.x  e == ex[x]  os == ops \ {o}
    IN /\ o.kind = "connect"
       /\ IF e.phase # "connecting" THEN Goes(x, e, os)
          ELSE \/ FailedBy(o, e, os)
               \/ /\ ~o.aborted /\ e.member \notin Tls
                  /\ Goes(x, send_head(e), os \cup {Op(x, e.member, "head")})
               \/ /\ ~o.aborted /\ e.member \in Tls
                  /\ Goes(x, [arm(e) EXCEPT !.phase = "sending"],
                          os \cup {Op(x, e.member, "handshake")})

on_handshake(o) ==
    LET x == o.x  e == ex[x]  os == ops \ {o}
    IN /\ o.kind = "handshake"
       /\ IF e.phase # "sending" THEN Goes(x, e, os)
          ELSE \/ FailedBy(o, e, os)
               \/ ~o.aborted /\ Goes(x, send_head(e), os \cup {Op(x, e.member, "head")})

BodyOp(x, e) == Op(x, e.member, IF x \in FromClient THEN "pull" ELSE "body")

\* send_head's handler.  The first chunk of a spilled body may be unreadable.
on_head_written(o) ==
    LET x == o.x  e == ex[x]  os == ops \ {o}
    IN /\ o.kind = "head"
       /\ IF e.phase # "sending" THEN Goes(x, e, os)
          ELSE \/ ~o.aborted /\ try_retry(x, e, os)
               \/ FailedBy(o, e, os)
               \/ /\ ~o.aborted /\ x \in WithBody
                  /\ Goes(x, [arm(e) EXCEPT !.phase = "sending_body"], os \cup {BodyOp(x, e)})
               \/ /\ ~o.aborted /\ x \in WithBody \ FromClient
                  /\ fail(x, e, FALSE, os) /\ UNCHANGED wronged
               \/ ~o.aborted /\ x \notin WithBody /\ body_sent(x, e, os)

\* The client's next chunk for send_body_next, or its error.
on_pulled(o) ==
    LET x == o.x  e == ex[x]  os == ops \ {o}
    IN /\ o.kind = "pull"
       /\ IF e.phase # "sending_body" THEN Goes(x, e, os)
          ELSE \/ FailedBy(o, e, os)
               \/ Goes(x, arm(e), os \cup {Op(x, e.member, "body")})

on_body_written(o) ==
    LET x == o.x  e == ex[x]  os == ops \ {o}
    IN /\ o.kind = "body"
       /\ IF e.phase # "sending_body" THEN Goes(x, e, os)
          ELSE \/ FailedBy(o, e, os)
               \/ /\ ~o.aborted /\ e.left > 0
                  /\ Goes(x, [arm(e) EXCEPT !.left = @ - 1], os \cup {BodyOp(x, e)})
               \/ /\ ~o.aborted /\ x \notin FromClient
                  /\ fail(x, e, FALSE, os) /\ UNCHANGED wronged
               \/ ~o.aborted /\ body_sent(x, e, os)

\* What one read may have brought: part of the head, or the head and perhaps
\* some of the body.
Progress(x, e) ==
    {[e EXCEPT !.seen = s] : s \in IF e.seen = "head" THEN {"head"} ELSE {"bytes", "head"}}

Delivered(x, e) == IF e.seen = "head" /\ x \in Streamed THEN deliver_head(e) ELSE e

\* read_more's handler with on_data, decode and on_eof.
on_read(o) ==
    LET x == o.x  e == [ex[x] EXCEPT !.reading = FALSE]  os == ops \ {o}
    IN /\ o.kind = "read"
       /\ IF e.phase # "receiving" THEN Goes(x, e, os)
          ELSE \/ ~o.aborted /\ try_retry(x, e, os)
               \/ FailedBy(o, e, os)
               \/ /\ ~o.aborted
                  /\ \E d \in Progress(x, e) :
                        \/ /\ e.left > 0
                           /\ read_more(x, Delivered(x, [d EXCEPT !.left = @ - 1]), os)
                        \/ FailedBy(o, Delivered(x, d), os)
                        \/ d.seen = "head" /\ \E open \in BOOLEAN : finish(x, d, open, os)
                        \/ d.seen = "head" /\ x \notin WithBody /\ finish_upgraded(x, d, os)

\* The client's writer asks for more of a streamed answer.
pull(x) ==
    /\ x \in Streamed
    /\ ex[x].delivered /\ ex[x].phase = "receiving" /\ ~ex[x].reading
    /\ read_more(x, ex[x], ops)

\* The client went away, and its connection cancels the exchange it still holds:
\* it lets go of it when the head is delivered.
cancel(x) ==
    LET e == [ex[x] EXCEPT !.phase = "cancelled"]
        a == e.member
    IN /\ ex[x].phase \notin {"new", "cancelled"}
       /\ ~ex[x].delivered
       /\ IF ex[x].phase \in Active THEN release_connection(x, e, FALSE, ops)
          ELSE /\ ex' = [ex EXCEPT ![x] = e]
               /\ \E p \in dequeue(pools[a], x) : pools' = [pools EXCEPT ![a] = p]
               /\ UNCHANGED ops
       /\ UNCHANGED <<health, marks, turn, ticking, wronged>>

\* The tick finds x past its deadline.
on_tick(x) ==
    /\ ticking /\ ex[x].late
    /\ \/ /\ ex[x].phase = "queued"
          /\ ex' = [ex EXCEPT ![x] = Failed(@)]
          /\ \E p \in dequeue(pools[ex[x].member], x) : pools' = [pools EXCEPT ![ex[x].member] = p]
          /\ UNCHANGED <<ops, health, marks, turn, ticking, wronged>>
       \/ ex[x].phase \in Active /\ fail(x, ex[x], TRUE, ops) /\ UNCHANGED wronged

Older(age) == IF age > IdleTimeout THEN age ELSE age + 1

\* The connections sweep_idle closes: from the front up to the first that may stay.
Expired(idle) ==
    CHOOSE n \in 0 .. Len(idle) :
        /\ \A k \in 1 .. n : idle[k] > IdleTimeout
        /\ n < Len(idle) => idle[n + 1] <= IdleTimeout

sweep_idle(idle) ==
    IF IdleTimeout = 0 THEN idle ELSE SubSeq(idle, Expired(idle) + 1, Len(idle))

\* A tick's time passes; the timer, if armed, fires and sweeps.
tick ==
    /\ pools' = [a \in Addresses |->
          LET aged == [n \in DOMAIN pools[a].idle |-> Older(pools[a].idle[n])]
          IN [pools[a] EXCEPT !.idle = IF ticking THEN sweep_idle(aged) ELSE aged]]
    /\ ex' = [x \in Exchanges |-> [ex[x] EXCEPT !.late = ex[x].phase \in Watched]]
    /\ ticking' = /\ ticking
                  /\ \/ \E x \in Exchanges : ex[x].phase \in Watched
                     \/ IdleTimeout > 0 /\ \E a \in Addresses : pools'[a].idle # <<>>
    /\ UNCHANGED <<ops, health, marks, turn, wronged>>

\* fail_timeout is over: down_until has passed.
Recover(a) ==
    /\ health[a].down
    /\ health' = [health EXCEPT ![a].down = FALSE]
    /\ UNCHANGED <<ex, ops, pools, marks, turn, ticking, wronged>>

Next ==
    /\ \/ \E x \in Exchanges : begin(x) \/ cancel(x) \/ on_tick(x) \/ pull(x)
       \/ \E o \in ops : \/ on_connect(o) \/ on_handshake(o) \/ on_head_written(o)
                         \/ on_pulled(o) \/ on_body_written(o) \/ on_read(o)
       \/ tick
       \/ \E a \in Addresses : Recover(a)
    /\ UNCHANGED setting

\* Time passes, and the armed timer finds whoever is past a deadline.
Spec ==
    /\ Init /\ [][Next]_vars
    /\ WF_vars(tick /\ UNCHANGED setting)
    /\ \A x \in Exchanges : WF_vars(on_tick(x) /\ UNCHANGED setting)

-----------------------------------------------------------------------------
(* Properties.                                                                *)

\* The members of UpstreamRequest in their ranges: an exchange is on its first
\* or its second attempt at an address.
TypeOK ==
    /\ ex \in [Exchanges ->
          [phase : {"new"} \cup Watched \cup Ended, member : Addresses,
           tried : SUBSET Addresses, attempts : 0 .. 2, sent : BOOLEAN,
           seen : {"nothing", "bytes", "head"}, reused : BOOLEAN, reading : BOOLEAN,
           left : 0 .. MaxChunks, late : BOOLEAN, delivered : BOOLEAN,
           answers : Nat, sends : Nat]]
    /\ ops \subseteq [x : Exchanges, at : Addresses, aborted : BOOLEAN,
                      kind : {"connect", "handshake", "head", "pull", "body", "read"}]
    /\ \A a \in Addresses : /\ pools[a].active \in Nat
                            /\ pools[a].queue \in Seq(Exchanges)
                            /\ pools[a].idle \in Seq(Nat)
    /\ health \in [Addresses -> [failures : 0 .. MaxFails, down : BOOLEAN]]
    /\ {marks[n] : n \in DOMAIN marks} = Addresses /\ Len(marks) = GroupSize
    /\ turn \in 0 .. GroupSize - 1
    /\ ticking \in BOOLEAN
    /\ wronged \subseteq Addresses

\* `done` runs exactly once for an exchange that ends by itself, through every
\* retry, failover, refusal, timeout and late handler, and never after cancel().
AnsweredOnce ==
    \A x \in Exchanges :
        /\ ex[x].answers <= 1
        /\ ex[x].phase \in {"finished", "failed"} => ex[x].answers = 1
        /\ ex[x].phase = "cancelled" => ex[x].answers = 0

\* A request that is not GET or HEAD, or has a body, reaches at most one origin
\* connection: "a POST is never delivered twice".
NotDeliveredTwice == \A x \in Exchanges \ Resendable : ex[x].sends <= 1

\* Both: a client has one answer and an origin one copy of a request that may not be
\* repeated (finish, fail, retry, cancel).
OnceEach == AnsweredOnce /\ NotDeliveredTwice

NoneUnderWay == \A x \in Exchanges : ex[x].phase \notin Watched

\* Whatever the origins do, the exchanges that began all end (each begins once):
\* every wait of theirs has a deadline, and the group is finite.
EventuallyEnded == <>[]NoneUnderWay

\* A failure is counted against an address only when its own connection failed
\* or kept the exchange waiting past a deadline.
OnlyOwnFaults == wronged = {}
=============================================================================
