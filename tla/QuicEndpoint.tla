---------------------------- MODULE QuicEndpoint ----------------------------
(* The UDP endpoint of one worker (quic/udp.hpp): the table of connection ids, *)
(* Retry and the budget of half-open connections, the heap of deadlines behind *)
(* one timer (timer_heap.hpp), and the batch of datagrams a wake-up sends.     *)
(* A connection is its life (connection.hpp's State) and its deadlines; what a *)
(* packet does to it is a choice.                                             *)
EXTENDS Integers, Sequences, FiniteSets, FiniteSetsExt, SequencesExt

CONSTANTS Settings      \* the situations looked at

VARIABLES
    e,        \* the endpoint
    b,        \* its batch of datagrams
    setting   \* the situation, which no step changes

vars == <<e, b, setting>>

Conns == 1 .. setting.conns        \* connection objects (a bound)
Clients == 1 .. setting.clients
Never == 99
Idle == setting.idle               \* idle_timeout
Drain == 1                         \* three probe timeouts
TokenAge == 1                      \* kTokenAge

\* An id is a pair: the one a client chose, the one a Retry chose, or the n-th of a
\* connection's own.
Chosen(i) == <<"client", i>>
Retried(i) == <<"retry", i>>
Own(x, n) == <<"own", 10 * x + n>>

NoConn == [state |-> "none", ids |-> {}, half |-> FALSE, created |-> 0, heard |-> 0, end |-> 0,
           deadline |-> Never, initial |-> <<"client", 0>>]

Init ==
    /\ setting \in Settings
    /\ e = [table |-> [id \in {} |-> 0], conns |-> 0, half_open |-> 0, conn |-> [x \in Conns |-> NoConn],
            heap |-> <<>>, armed |-> Never, now |-> 0, touched |-> {}, tokens |-> {}]
    /\ b = [buf |-> <<>>, msgs |-> <<>>, gso |-> TRUE, asked |-> <<>>, sent |-> <<>>, dropped |-> 0]

Alive(k) == {x \in Conns : k.conn[x].state \notin {"none", "closed"}}
-----------------------------------------------------------------------------
(* The heap of deadlines                                                      *)
Deadline(k, i) == k.conn[k.heap[i]].deadline
Swapped(k, i, j) == [k EXCEPT !.heap = [@ EXCEPT ![i] = k.heap[j], ![j] = k.heap[i]]]

\* A child at 2i and 2i+1 of its parent i, counted from one.
RECURSIVE heap_up(_, _)
heap_up(k, i) ==
    IF i = 1 \/ Deadline(k, i) >= Deadline(k, i \div 2) THEN k
    ELSE heap_up(Swapped(k, i, i \div 2), i \div 2)

RECURSIVE heap_down(_, _)
heap_down(k, i) ==
    LET kids == {j \in {2 * i, 2 * i + 1} : j <= Len(k.heap) /\ Deadline(k, j) < Deadline(k, i)}
        m == CHOOSE j \in kids : \A o \in kids : Deadline(k, j) < Deadline(k, o) \/ (Deadline(k, j) = Deadline(k, o) /\ j <= o)
    IN IF kids = {} THEN k ELSE heap_down(Swapped(k, i, m), m)

Sifted(k, i) == LET u == heap_up(k, i) IN IF u = k THEN heap_down(k, i) ELSE u

heap_update(k, x) ==
    IF ~Contains(k.heap, x) THEN heap_up([k EXCEPT !.heap = Append(@, x)], Len(k.heap) + 1)
    ELSE Sifted(k, SelectInSeq(k.heap, LAMBDA y : y = x))

heap_remove(k, x) ==
    LET i == SelectInSeq(k.heap, LAMBDA y : y = x)
        t == [k EXCEPT !.heap = Front([@ EXCEPT ![i] = Last(k.heap)])]
    IN IF ~Contains(k.heap, x) THEN k ELSE IF i = Len(k.heap) THEN t ELSE Sifted(t, i)

arm_if_earlier(k, d) == IF k.armed <= d THEN k ELSE [k EXCEPT !.armed = d]

schedule(k, x, d) == arm_if_earlier(heap_update([k EXCEPT !.conn[x].deadline = d], x), d)

\* The earliest of the connection's deadlines; `soon` is that of recovery, when it has one.
reschedule(k, x, soon) ==
    LET c == k.conn[x]
        idle == IF c.state = "handshaking" THEN Min({c.heard, c.created}) + Idle ELSE c.heard + Idle
    IN CASE c.state = "closed" -> heap_remove(k, x)
         [] c.state \in {"closing", "draining"} -> schedule(k, x, c.end)
         [] OTHER -> schedule(k, x, Max({k.now, IF soon THEN Min({k.now + 1, idle}) ELSE idle}))
-----------------------------------------------------------------------------
(* Connections                                                                *)
unmap(k, id, x) ==
    IF id \in DOMAIN k.table /\ k.table[id] = x
    THEN [k EXCEPT !.table = [i \in DOMAIN k.table \ {id} |-> k.table[i]]] ELSE k

add_cid(k, id, x) == [k EXCEPT !.table = [i \in DOMAIN k.table \cup {id} |-> IF i = id THEN x ELSE k.table[i]],
                               !.conn[x].ids = @ \cup {id}]

map(k, known, id) ==
    IF known \notin DOMAIN k.table \/ id \in DOMAIN k.table THEN k ELSE add_cid(k, id, k.table[known])

leave_handshake(k, x) ==
    IF ~k.conn[x].half THEN k
    ELSE [k EXCEPT !.conn[x].half = FALSE, !.half_open = Max({0, @ - 1})]

RECURSIVE unmap_all(_, _, _)
unmap_all(k, ids, x) ==
    IF ids = {} THEN k
    ELSE LET id == CHOOSE i \in ids : TRUE IN unmap_all(unmap(k, id, x), ids \ {id}, x)

\* Mutant: a closed connection leaves the table, its handshake stays counted.
retire_counted(k, x) ==
    [unmap_all([heap_remove(k, x) EXCEPT !.conns = @ - 1], k.conn[x].ids, x) EXCEPT !.conn[x] = NoConn]

\* The connection closed for good: out of the heap and the table; the object, freed with
\* its last entry, is no longer counted as half open (~QuicConnection).
retire(k, x) ==
    [leave_handshake(unmap_all([heap_remove(k, x) EXCEPT !.conns = @ - 1], k.conn[x].ids, x), x) EXCEPT !.conn[x] = NoConn]

\* What a datagram does to a connection: nothing (it does not open), a packet taken, the
\* handshake's end, an error of ours, the client's close.
receive(k, x, what) ==
    LET c == k.conn[x]
        heard == [k EXCEPT !.conn[x].heard = k.now]
        done == [unmap(heard, c.initial, x) EXCEPT !.conn[x].state = "established", !.conn[x].ids = @ \ {c.initial}]
    IN IF c.state \in {"closed", "draining", "closing"} THEN k
       ELSE CASE what = "nothing" -> k
              [] what = "taken" \/ (what = "complete" /\ c.state = "established") -> heard
              [] what = "complete" -> map(leave_handshake(done, x), Own(x, 0), Own(x, 1))
              [] what = "fails" -> leave_handshake([heard EXCEPT !.conn[x].state = "closing", !.conn[x].end = k.now + Drain], x)
              [] what = "closes" -> [heard EXCEPT !.conn[x].state = "draining", !.conn[x].end = k.now + Drain]

Outcomes == setting.outcomes \cup {"nothing"}

\* The deadline passed: the drain is over, or nothing was heard for the idle timeout, or
\* the handshake took that long; else it was recovery's.
on_timer(k, x) ==
    LET c == k.conn[x]
    IN IF c.state \in {"closing", "draining"} THEN IF k.now >= c.end THEN [k EXCEPT !.conn[x].state = "closed"] ELSE k
       ELSE IF k.now >= c.heard + Idle \/ (c.state = "handshaking" /\ k.now >= c.created + Idle)
       THEN leave_handshake([k EXCEPT !.conn[x].state = "closed"], x)
       ELSE k
-----------------------------------------------------------------------------
(* A datagram                                                                 *)
Free(k) == {x \in Conns : k.conn[x].state = "none"}
AtCeiling(k) == k.conns >= setting.ceiling

Touched(k, x, what) == [receive(k, x, what) EXCEPT !.touched = @ \cup {x}]

RetryDue(k) == setting.retry = "always" \/ (setting.retry = "auto" /\ k.half_open >= setting.budget \div 2)

\* A connection for a client's first Initial, under the ids of its own and the client's.
accept(k, id, i, what) ==
    LET x == Min(Free(k))
        made == [k EXCEPT !.conn[x] = [NoConn EXCEPT !.state = "handshaking", !.half = TRUE, !.created = k.now,
                                                     !.heard = k.now, !.initial = id],
                          !.half_open = @ + 1, !.conns = @ + 1]
    IN IF k.half_open >= setting.budget \/ Free(k) = {} THEN k
       ELSE Touched(add_cid(add_cid(made, Own(x, 0), x), id, x), x, what)

\* An Initial by the id the client addresses: to its connection; else refused at the
\* ceiling, refused for a token that does not open, answered with a Retry, or accepted.
dispatch_initial(k, id, i, token, what) ==
    IF id \in DOMAIN k.table THEN Touched(k, k.table[id], what)
    ELSE IF AtCeiling(k) THEN k
    ELSE IF token # 0 THEN IF [client |-> i, at |-> token - 1] \in k.tokens /\ k.now - (token - 1) <= TokenAge
                           THEN accept(k, id, i, what) ELSE k
    ELSE IF RetryDue(k) THEN [k EXCEPT !.tokens = {t \in @ : t.client # i} \cup {[client |-> i, at |-> k.now]}]
    ELSE accept(k, id, i, what)

\* A packet after the handshake's first: to the connection that owns the id, else a
\* stateless reset, of which nothing is kept.
dispatch_short(k, id, what) == IF id \in DOMAIN k.table THEN Touched(k, k.table[id], what) ELSE k

Datagrams(k) ==
    [kind : {"initial"}, id : {Chosen(i) : i \in Clients}, token : {0}]
    \cup [kind : {"initial"}, id : {Retried(i) : i \in Clients}, token : {t.at + 1 : t \in k.tokens}]
    \cup [kind : {"short"}, id : {Own(x, n) : x \in Conns \ Free(k), n \in 0 .. 1}, token : {0}]

dispatch(k, d, what) ==
    IF d.kind = "initial" THEN dispatch_initial(k, d.id, d.id[2], d.token, what)
    ELSE dispatch_short(k, d.id, what)

\* The end of a wake-up: the connections it touched are retired or scheduled again.
RECURSIVE settle(_, _, _)
settle(k, xs, soon) ==
    IF xs = {} THEN k
    ELSE LET x == Min(xs)
         IN settle(IF k.conn[x].state = "closed" THEN retire(k, x) ELSE reschedule(k, x, soon), xs \ {x}, soon)

\* A wake-up with one or two datagrams.
drain ==
    \E d1 \in Datagrams(e), what \in Outcomes, soon \in BOOLEAN :
    \E d2 \in IF setting.bursts THEN Datagrams(e) ELSE {d1} :
      LET one == dispatch(e, d1, what)
          two == IF d1 = d2 THEN one ELSE dispatch(one, d2, "taken")
      IN /\ one # e
         /\ e' = [settle(two, two.touched, soon) EXCEPT !.touched = {}]
         /\ UNCHANGED b

\* An answer outside a wake-up (flush_connection), which may have closed the connection.
flush_connection ==
    \E x \in Alive(e), soon, ends \in BOOLEAN :
      LET k == IF ends THEN receive(e, x, "fails") ELSE e
      IN e' = reschedule(k, x, soon) /\ UNCHANGED b

\* The timer: every connection whose deadline passed, then the timer again for the rest.
RECURSIVE Expired(_)
Expired(k) ==
    IF k.heap = <<>> \/ Deadline(k, 1) > k.now THEN k
    ELSE LET x == k.heap[1] IN Expired([on_timer(heap_remove(k, x), x) EXCEPT !.touched = @ \cup {x}])

\* Mutant: the timer is not armed again for the connections that were not due.
fire_once ==
    /\ e.armed <= e.now
    /\ \E soon \in BOOLEAN :
         LET due == Expired([e EXCEPT !.armed = Never])
         IN e' = [settle(due, due.touched, soon) EXCEPT !.touched = {}]
    /\ UNCHANGED b

fire ==
    /\ e.armed <= e.now
    /\ \E soon \in BOOLEAN :
         LET due == Expired([e EXCEPT !.armed = Never])
             all == [settle(due, due.touched, soon) EXCEPT !.touched = {}]
         IN e' = IF all.heap = <<>> THEN all ELSE arm_if_earlier(all, Deadline(all, 1))
    /\ UNCHANGED b

Tick == e.now < setting.end /\ e' = [e EXCEPT !.now = @ + 1] /\ UNCHANGED b

\* The listener goes: every connection is told and closed, and its close sent at once.
shutdown ==
    LET xs == Alive(e)
    IN /\ xs # {} /\ setting.stops
       /\ e' = FoldSet(LAMBDA x, k : receive(k, x, "fails"), e, xs)
       /\ UNCHANGED b
-----------------------------------------------------------------------------
(* The batch                                                                  *)
Sizes == 1 .. 2
Peers == 1 .. 2
MaxSegments == 2

\* A datagram joins the last message when it goes to the same peer and is no larger than
\* its segments; a smaller one ends the message.
commit(k, len, to) ==
    LET m == Last(k.msgs)
        joins == k.msgs # <<>> /\ k.gso /\ ~m.closed /\ m.to = to /\ len <= m.seg /\ m.segments < MaxSegments
    IN [k EXCEPT !.asked = Append(@, <<len, to>>),
                 !.msgs = IF joins
                          THEN Append(Front(@), [m EXCEPT !.len = @ + len, !.segments = @ + 1, !.closed = len < m.seg])
                          ELSE Append(@, [len |-> len, seg |-> len, segments |-> 1, closed |-> FALSE, to |-> to])]

\* The datagrams the kernel makes of a message, and the messages of one datagram each.
Segments(m) == [i \in 1 .. m.segments |-> <<IF i < m.segments THEN m.seg ELSE m.len - (m.segments - 1) * m.seg, m.to>>]

Singles(m) == [i \in 1 .. m.segments |->
                 [len |-> Segments(m)[i][1], seg |-> Segments(m)[i][1], segments |-> 1, closed |-> FALSE, to |-> m.to]]

SentAs(ms) == FlattenSeq([i \in DOMAIN ms |-> Segments(ms[i])])
SegmentsOf(ms) == FoldSeq(LAMBDA m, n : n + m.segments, 0, ms)

\* What sendmmsg did with the messages, `took` of them gone: all, one too large for the
\* path (skipped), a full socket buffer (the rest dropped), or segmentation refused (the
\* whole batch again, one datagram per message, which may fail in turn).
RECURSIVE sendmmsg(_, _, _)
sendmmsg(k, ms, answers) ==
    LET a == Head(answers)
        took == Min({a.took, Len(ms)})
        rest == SubSeq(ms, took + 1, Len(ms))
        t == [k EXCEPT !.sent = @ \o SentAs(SubSeq(ms, 1, took))]
    IN IF answers = <<>> THEN [k EXCEPT !.sent = @ \o SentAs(ms)]
       ELSE IF rest = <<>> THEN t
       ELSE CASE a.how = "too large" -> sendmmsg([t EXCEPT !.dropped = @ + rest[1].segments], Tail(rest), Tail(answers))
              [] a.how = "full" -> [t EXCEPT !.dropped = @ + SegmentsOf(rest)]
              [] a.how = "refused" /\ k.gso ->
                   sendmmsg([t EXCEPT !.gso = FALSE], FlattenSeq([i \in DOMAIN k.msgs |-> Singles(k.msgs[i])]), Tail(answers))
              [] OTHER -> [t EXCEPT !.dropped = @ + SegmentsOf(rest)]

Answers == [how : {"too large", "full", "refused"}, took : 0 .. 2]

produce ==
    \E len \in Sizes, to \in Peers :
      /\ setting.batch /\ Len(b.asked) < 3 /\ b.sent = <<>> /\ b.dropped = 0
      /\ b' = commit(b, len, to)
      /\ UNCHANGED e

flush ==
    \E n \in 0 .. 2 : \E answers \in [1 .. n -> Answers] :
      /\ setting.batch /\ b.msgs # <<>>
      /\ b' = [sendmmsg(b, b.msgs, answers) EXCEPT !.msgs = <<>>]
      /\ UNCHANGED e

Next ==
    /\ UNCHANGED setting
    /\ \/ drain \/ flush_connection \/ fire \/ Tick \/ shutdown
       \/ produce \/ flush

Spec == Init /\ [][Next]_vars
-----------------------------------------------------------------------------
(* Properties                                                                 *)
\* The table and the counters are those of the connections there are: an id routes to a
\* live connection that has it, every live connection can be reached by an id of its own,
\* conns_ and half_open count them (a leak of either would refuse clients for ever), and
\* half-open connections stay within the budget.
TableIsLive ==
    /\ \A id \in DOMAIN e.table : e.table[id] \in Alive(e) /\ id \in e.conn[e.table[id]].ids
    /\ \A x \in Alive(e) : \A id \in e.conn[x].ids : id \in DOMAIN e.table /\ e.table[id] = x
    /\ e.conns = Cardinality(Alive(e))
    /\ e.half_open = Cardinality({x \in Conns : e.conn[x].half}) /\ e.half_open <= setting.budget
    /\ e.conns <= setting.ceiling

\* Every live connection will be looked at when its deadline passes: it is in the heap,
\* the heap's top is the earliest, and the one timer is armed for no later.
DeadlinesKept ==
    /\ ToSet(e.heap) = Alive(e) /\ IsInjective(e.heap)
    /\ \A i \in 2 .. Len(e.heap) : Deadline(e, i \div 2) <= Deadline(e, i)
    /\ e.heap # <<>> => e.armed <= Deadline(e, 1)

\* Every datagram of a wake-up is sent as it was built, or counted as dropped, whatever
\* the kernel refuses in between.
DatagramsKept ==
    b.msgs = <<>> /\ b.asked # <<>> =>
      /\ \A i \in DOMAIN b.sent : Contains(b.asked, b.sent[i])
      /\ Len(b.sent) + b.dropped >= Len(b.asked)
=============================================================================
