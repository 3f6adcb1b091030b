------------------------------ MODULE QuicSend ------------------------------
(* What one established QUIC connection sends (quic/connection.hpp,            *)
(* quic/recovery.hpp, quic/stream.hpp): the ready list, the packets and what   *)
(* they carried, acknowledgements, losses, probes, credit, resets; and the end *)
(* of a stream in http3/connection.hpp, whose objects are pooled and reused.   *)
(* A datagram may be lost or overtaken and its acknowledgement late or partial.*)
(* Offsets are units, sizes in flight are packets, a range set is the set it   *)
(* stands for.  Requests are read to their end before they are answered.       *)
EXTENDS Integers, Sequences, FiniteSets, FiniteSetsExt, SequencesExt

CONSTANTS
    NoStream,     \* nullptr
    MaxId,        \* bound: streams opened
    Turns,        \* STREAM frames tried per packet (64 in the code)
    Threshold,    \* kPacketThreshold
    Settings      \* the situations looked at

VARIABLES
    c,            \* the connection
    wire,         \* packets on their way
    client,       \* what the client has: packet numbers, bytes and ends per stream id
    setting       \* the situation, which no step changes

vars == <<c, wire, client, setting>>

Objects == 1..setting.objects     \* the stream objects: active and pooled
MaxPn == setting.pns              \* bound: packets sent
Ids == 1..MaxId
None == -1

\* QuicStream, and of H3Stream: finished, closed.
\* bad: the file behind the body can no longer be read (a choice of the environment).
Fresh ==
    [id |-> 0, open |-> FALSE, ready |-> FALSE, next_ready |-> NoStream, base |-> 0, trim |-> FALSE,
     fin |-> FALSE, total |-> 0, next |-> 0, lost |-> {}, acked |-> {}, fin_sent |-> FALSE,
     fin_acked |-> FALSE, max_send |-> 0, blocked |-> FALSE, reset_due |-> FALSE,
     reset_sent |-> FALSE, send_done |-> FALSE, bad |-> FALSE]

Conn0 ==
    [str |-> [o \in Objects |-> Fresh], head |-> NoStream, tail |-> NoStream, control |-> <<>>,
     next_pn |-> 0, pk |-> {}, largest |-> None, in_flight |-> 0, eliciting |-> 0,
     loss_time |-> FALSE, probes |-> 0, cwnd |-> setting.cwnd, ssthresh |-> MaxPn,
     recovery |-> 0, max_data |-> setting.max_data, data_sent |-> 0, opened |-> 0, faults |-> 0,
     whole |-> {}]     \* history: <<id, size>> of the answers acknowledged in full

Init ==
    /\ setting \in Settings
    /\ c = Conn0
    /\ wire = {}
    /\ client = [pns |-> {}, got |-> [i \in Ids |-> {}], fin |-> {}]

find_stream(k, id) ==
    IF \E o \in DOMAIN k.str : k.str[o].open /\ k.str[o].id = id
    THEN CHOOSE o \in DOMAIN k.str : k.str[o].open /\ k.str[o].id = id
    ELSE NoStream

has_unsent(s) == s.lost # {} \/ s.next < s.total \/ (s.fin /\ ~s.fin_sent)

Run(from, upto) == {i \in from..(upto - 1) : TRUE}

\* The first range of a set of offsets.
FrontEnd(S) == CHOOSE e \in (Min(S) + 1)..(Max(S) + 1) : Run(Min(S), e) \subseteq S /\ e \notin S

contiguous_from(S, b) == IF b \in S THEN CHOOSE e \in (b + 1)..(Max(S) + 1) : Run(b, e) \subseteq S /\ e \notin S ELSE b
-----------------------------------------------------------------------------
(* The ready list, singly linked through the objects                          *)
enqueue(k, o) ==
    IF k.str[o].ready \/ ~k.str[o].open THEN k
    ELSE LET q == [k EXCEPT !.str[o].ready = TRUE, !.str[o].next_ready = NoStream]
         IN IF q.tail # NoStream THEN [q EXCEPT !.str[q.tail].next_ready = o, !.tail = o]
            ELSE [q EXCEPT !.head = o, !.tail = o]

\* The objects reached from p before o, in order; at most one pass over them.
RECURSIVE Before(_, _, _, _)
Before(k, p, o, n) ==
    IF p = NoStream \/ n = 0 THEN <<NoStream>>
    ELSE IF p = o THEN <<>>
    ELSE <<p>> \o Before(k, k.str[p].next_ready, o, n - 1)

Listed(k) ==
    LET path == Before(k, k.head, NoStream, Cardinality(DOMAIN k.str)) IN Range(path) \ {NoStream}

dequeue(k, o) ==
    LET path == Before(k, k.head, o, Cardinality(DOMAIN k.str))
        prev == IF path = <<>> THEN NoStream ELSE Last(path)
        after == k.str[o].next_ready
        unlinked == IF NoStream \in Range(path) THEN k
                    ELSE [(IF prev = NoStream THEN [k EXCEPT !.head = after]
                           ELSE [k EXCEPT !.str[prev].next_ready = after])
                          EXCEPT !.tail = IF @ = o THEN prev ELSE @]
    IN IF ~k.str[o].ready THEN k
       ELSE [unlinked EXCEPT !.str[o].ready = FALSE, !.str[o].next_ready = NoStream]

rotate(k) ==
    IF k.head = NoStream \/ k.head = k.tail THEN k
    ELSE LET h == k.head
             q == [k EXCEPT !.head = k.str[h].next_ready, !.str[h].next_ready = NoStream]
         IN [q EXCEPT !.str[q.tail].next_ready = h, !.tail = h]
-----------------------------------------------------------------------------
(* The end of a stream                                                        *)
\* stream_closed, then the object's reset on its way to the pool.
close_stream(k, o) ==
    LET d == dequeue(k, o)
    IN [d EXCEPT !.control = SelectSeq(@, LAMBDA x : x # o), !.str[o] = Fresh]

\* finished, and the request was read to its end: maybe_close closes the stream.
on_stream_sent(k, o) == IF k.str[o].trim THEN k ELSE close_stream(k, o)

stream_reset(k, o) ==
    IF k.str[o].reset_sent \/ k.str[o].reset_due THEN k
    ELSE [k EXCEPT !.str[o].reset_due = TRUE, !.str[o].ready = FALSE, !.control = Append(@, o)]
-----------------------------------------------------------------------------
(* Acknowledgements and losses of what packets carried                        *)
\* Mutant: an acknowledged end counts for the whole body.
ack_item_fin(k, it) ==
    LET o == find_stream(k, it.id)
        s == [k.str[o] EXCEPT !.acked = @ \cup Run(it.b, it.b + it.n), !.fin_acked = @ \/ it.fin]
        done == ~s.send_done /\ s.fin_acked
    IN IF it.kind # "stream" \/ o = NoStream THEN k
       ELSE IF done THEN on_stream_sent([k EXCEPT !.str[o].send_done = TRUE, !.whole = @ \cup {<<s.id, s.total>>}], o)
       ELSE [k EXCEPT !.str[o] = s]

\* A trimmed stream drops what is acknowledged in order past TrimAt units.
ack_item(k, it) ==
    LET o == find_stream(k, it.id)
        s == [k.str[o] EXCEPT !.acked = @ \cup Run(it.b, it.b + it.n), !.fin_acked = @ \/ it.fin]
        upto == contiguous_from(s.acked, s.base)
        done == ~s.send_done /\ s.fin_acked /\ Run(0, s.total) \subseteq s.acked
    IN IF it.kind # "stream" \/ o = NoStream THEN k
       ELSE IF s.trim THEN
            IF upto > s.base + setting.trim_at
            THEN [k EXCEPT !.str[o] = [s EXCEPT !.base = upto, !.acked = {x \in @ : x >= upto}]]
            ELSE [k EXCEPT !.str[o] = s]
       ELSE IF done THEN on_stream_sent([k EXCEPT !.str[o].send_done = TRUE, !.whole = @ \cup {<<s.id, s.total>>}], o)
       ELSE [k EXCEPT !.str[o] = s]

apply_acked(k, items) == FoldLeft(ack_item, k, items)

\* Mutant: the end that was lost with its bytes is not sent again.
lost_item_fin(k, it) ==
    LET o == find_stream(k, it.id)
        s == k.str[o]
        again == [s EXCEPT !.lost = @ \cup Run(it.b, it.b + it.n)]
        q == [k EXCEPT !.str[o] = again]
    IN IF o = NoStream \/ it.kind # "stream" THEN k
       ELSE IF s.send_done \/ s.reset_sent THEN k
       ELSE IF has_unsent(again) THEN enqueue(q, o) ELSE q

lost_item(k, it) ==
    LET o == find_stream(k, it.id)
        s == k.str[o]
        again == [s EXCEPT !.lost = @ \cup Run(it.b, it.b + it.n),
                           !.fin_sent = IF it.fin THEN FALSE ELSE @]
        q == [k EXCEPT !.str[o] = again]
    IN IF o = NoStream THEN k
       ELSE IF it.kind = "reset"
       THEN IF s.reset_due THEN k
            ELSE [k EXCEPT !.str[o].reset_due = TRUE, !.control = Append(@, o)]
       ELSE IF s.send_done \/ s.reset_sent THEN k
       ELSE IF has_unsent(again) THEN enqueue(q, o) ELSE q

apply_lost(k, items) == FoldLeft(lost_item, k, items)

\* The items of a set of packets, the highest number first (acknowledged) or last.
ItemsUp(P) == FlattenSeq([i \in 1..Cardinality(P) |-> SetToSortSeq(P, LAMBDA p, q : p.pn < q.pn)[i].items])
ItemsDown(P) == FlattenSeq([i \in 1..Cardinality(P) |-> SetToSortSeq(P, LAMBDA p, q : p.pn > q.pn)[i].items])
-----------------------------------------------------------------------------
(* Recovery                                                                   *)
CountOf(P) == Cardinality({p \in P : p.in_flight})

\* Packets leave the records, and bytes and packets in flight with them.
forget(k, P) ==
    [k EXCEPT !.pk = @ \ P, !.in_flight = Max({0, @ - CountOf(P)}),
              !.eliciting = Max({0, @ - CountOf(P)})]

cc_on_lost(k, P) ==
    LET last == Max({p.pn : p \in P})
    IN IF P = {} \/ last < k.recovery THEN k
       ELSE [k EXCEPT !.recovery = k.next_pn, !.ssthresh = Max({k.cwnd \div 2, 2}),
                      !.cwnd = Max({k.cwnd \div 2, 2})]

\* old: packets sent before it are late by the clock.  The span that collapses the
\* window is a matter of the clock too: persistent.
Overdue(k, old) ==
    {p \in k.pk : p.pn < k.largest /\ (p.pn < old \/ k.largest >= p.pn + Threshold)}

detect_lost(k, old, persistent) ==
    LET P == Overdue(k, old)
        q == forget(k, P)
        cc == cc_on_lost(q, {p \in P : p.in_flight})
    IN [k |-> [cc EXCEPT !.loss_time = \E p \in q.pk : p.pn < k.largest,
                         !.cwnd = IF persistent /\ P # {} THEN 2 ELSE @],
        lost |-> ItemsUp(P)]

cc_on_acked(k, P) ==
    LET n == Cardinality({p \in P : p.in_flight /\ p.pn >= k.recovery})
    IN [k EXCEPT !.cwnd = IF @ < k.ssthresh THEN Min({@ + n, MaxPn}) ELSE @]

\* An ACK frame names packets the client has: any of them, in any later order.
on_ack ==
    \E A \in SUBSET client.pns, old \in 0..c.next_pn, persistent \in BOOLEAN :
      LET P == {p \in c.pk : p.pn \in A}
          acked == [cc_on_acked(forget(c, P), P) EXCEPT !.largest = Max({@} \cup A)]
          det == detect_lost(acked, old, persistent)
      IN /\ P # {}
         /\ persistent => setting.persistent
         /\ c' = apply_lost(apply_acked(det.k, ItemsDown(P)), det.lost)
         /\ UNCHANGED <<wire, client>>

\* The oldest packet with data, whose items the probe carries again; it stays recorded.
probe_with_data(k) ==
    LET P == {p \in k.pk : p.in_flight /\ \E i \in DOMAIN p.items : p.items[i].kind = "stream"}
        oldest == CHOOSE p \in P : \A q \in P : p.pn <= q.pn
    IN IF k.probes = 0 \/ P = {} THEN <<>>
       ELSE SelectSeq(oldest.items, LAMBDA it : it.kind = "stream")

\* The loss timer: packets declared lost by the clock, or a probe timeout.
on_timer ==
    \/ /\ c.loss_time
       /\ \E old \in 1..c.next_pn, persistent \in BOOLEAN :
            LET det == detect_lost(c, old, persistent)
            IN /\ Overdue(c, old) # {}
               /\ persistent => setting.persistent
               /\ c' = apply_lost(det.k, det.lost \o probe_with_data(det.k))
       /\ UNCHANGED <<wire, client>>
    \/ /\ ~c.loss_time /\ c.eliciting > 0
       /\ LET p == [c EXCEPT !.probes = 2] IN c' = apply_lost(p, probe_with_data(p))
       /\ UNCHANGED <<wire, client>>
-----------------------------------------------------------------------------
(* The packetiser                                                             *)
cwnd_room(k) == IF k.in_flight >= k.cwnd THEN 0 ELSE k.cwnd - k.in_flight

\* RESET_STREAM frames due; the stream's sending side is over with the frame.
\* a: the connection, and the packet being built.
ResetFrame(a) ==
    LET o == Last(a.k.control)
        s == a.k.str[o]
        popped == [a.k EXCEPT !.control = Front(@), !.str[o].reset_due = FALSE, !.str[o].reset_sent = TRUE]
    IN IF ~s.reset_due THEN [a EXCEPT !.k.control = Front(@)]
       ELSE [a EXCEPT !.k = IF s.send_done THEN popped
                            ELSE on_stream_sent(dequeue([popped EXCEPT !.str[o].send_done = TRUE], o), o),
                      !.items = Append(@, [kind |-> "reset", id |-> s.id, b |-> 0, n |-> 0, fin |-> FALSE]),
                      !.eliciting = TRUE]

RECURSIVE SendControl(_)
SendControl(a) == IF a.k.control = <<>> THEN a ELSE SendControl(ResetFrame(a))

Allowed(k, s) ==
    Min({Max({k.max_data - k.data_sent, 0}), Max({s.max_send - s.next, 0}), s.total - s.next})

copies(s, b, n) == n = 0 \/ (~s.bad /\ b >= s.base)

\* One STREAM frame of the list's head.
Framed(a, o, b, n, resend) ==
    LET s == a.k.str[o]
        fin == s.fin /\ b + n = s.total
        t == [s EXCEPT !.lost = IF resend THEN @ \ Run(b, b + n) ELSE @,
                       !.next = IF resend THEN @ ELSE b + n,
                       !.fin_sent = @ \/ fin]
        q == [a.k EXCEPT !.str[o] = t, !.data_sent = IF resend THEN @ ELSE @ + n]
    IN [a EXCEPT !.k = IF has_unsent(t) THEN rotate(q) ELSE dequeue(q, o), !.room = @ - n, !.eliciting = TRUE,
                 !.items = Append(@, [kind |-> "stream", id |-> s.id, b |-> b, n |-> n, fin |-> fin])]

Unlisted(a, o) == [a EXCEPT !.k = dequeue(@, o)]

\* One turn of the loop: the stream at the list's head.
StreamTurn(a) ==
    LET o == a.k.head
        s == a.k.str[o]
        resend == s.lost # {}
        b == IF resend THEN Min(s.lost) ELSE s.next
        n == IF resend THEN Min({FrontEnd(s.lost) - b, a.room}) ELSE Min({Allowed(a.k, s), a.room})
    IN IF ~resend /\ s.next < s.total /\ Allowed(a.k, s) = 0
       THEN Unlisted([a EXCEPT !.k.str[o].blocked = TRUE, !.eliciting = @ \/ ~s.blocked], o)
       ELSE IF ~resend /\ s.next = s.total /\ ~(s.fin /\ ~s.fin_sent) THEN Unlisted(a, o)
       ELSE IF ~copies(s, b, n) THEN Unlisted([a EXCEPT !.k = stream_reset(@, o)], o)
       ELSE Framed(a, o, b, n, resend)

RECURSIVE SendStreams(_)
SendStreams(a) ==
    IF a.k.head = NoStream \/ a.turns = 0 \/ a.room = 0 THEN a
    ELSE SendStreams([StreamTurn(a) EXCEPT !.turns = @ - 1])

\* STREAM frames within the window or as a probe.
WithStreams(a) == IF cwnd_room(a.k) >= 1 \/ a.k.probes > 0 THEN SendStreams(a) ELSE a

\* A probe with nothing else is a PING; nothing due, no packet.
Sealed(a) ==
    IF ~(a.eliciting \/ a.k.probes > 0) THEN [a EXCEPT !.over = TRUE]
    ELSE LET p == [pn |-> a.k.next_pn, items |-> a.items, in_flight |-> TRUE]
         IN [a EXCEPT !.k = [@ EXCEPT !.probes = Max({0, @ - 1}), !.next_pn = @ + 1, !.pk = @ \cup {p},
                                      !.in_flight = @ + 1, !.eliciting = @ + 1],
                      !.sent = @ \cup {p}]

build_packet(a) ==
    Sealed(WithStreams(SendControl([a EXCEPT !.items = <<>>, !.room = setting.room, !.turns = Turns,
                                             !.eliciting = FALSE])))

wants_to_send(k) ==
    k.probes > 0 \/ k.control # <<>> \/ (k.head # NoStream /\ cwnd_room(k) >= 1)

RECURSIVE Packets(_)
Packets(a) ==
    IF a.over \/ a.k.next_pn >= MaxPn \/ ~wants_to_send(a.k) THEN a ELSE Packets(build_packet(a))

produce ==
    LET p == Packets([k |-> c, items |-> <<>>, room |-> 0, turns |-> 0, eliciting |-> FALSE, over |-> FALSE,
                      sent |-> {}])
    IN /\ c.next_pn < MaxPn /\ wants_to_send(c)
       /\ c' = p.k
       /\ wire' = wire \cup p.sent
       /\ UNCHANGED client
-----------------------------------------------------------------------------
(* The application and the client                                             *)
\* The object of a stream of ours, when the situation has one.
ours(o) == setting.growing > 0 /\ o = setting.objects

\* A request arrives on a pooled object (which one makes no difference) and is
\* answered: respond, stream_ready.
respond(o, total) ==
    /\ ~c.str[o].open /\ c.opened < MaxId /\ ~ours(o)
    /\ \A x \in 1..(o - 1) : c.str[x].open
    /\ LET s == [Fresh EXCEPT !.id = c.opened + 1, !.open = TRUE, !.fin = TRUE, !.total = total,
                              !.max_send = setting.max_send]
           k == [c EXCEPT !.str[o] = [s EXCEPT !.ready = c.str[o].ready, !.next_ready = c.str[o].next_ready],
                          !.opened = @ + 1]
       IN c' = enqueue(k, o)
    /\ UNCHANGED <<wire, client>>

\* A stream of ours that goes on growing (the QPACK streams): bytes are appended.
append(o) ==
    /\ ours(o)
    /\ \/ /\ ~c.str[o].open /\ c.opened < MaxId
          /\ c' = enqueue([c EXCEPT !.str[o] = [Fresh EXCEPT !.id = c.opened + 1, !.open = TRUE,
                                                 !.trim = TRUE, !.total = 1, !.max_send = setting.growing],
                                    !.opened = @ + 1], o)
       \/ /\ c.str[o].trim /\ c.str[o].total < setting.growing
          /\ c' = enqueue([c EXCEPT !.str[o].total = @ + 1], o)
    /\ UNCHANGED <<wire, client>>

\* The file of a body is truncated under the server, and the next read of it fails.
file_fails(o) ==
    /\ c.faults < setting.faults
    /\ c.str[o].open /\ ~c.str[o].trim /\ ~c.str[o].bad
    /\ c' = [c EXCEPT !.str[o].bad = TRUE, !.faults = @ + 1]
    /\ UNCHANGED <<wire, client>>

\* STOP_SENDING for an answer.
on_stop_sending(o) ==
    /\ c.faults < setting.faults
    /\ c.str[o].open /\ ~c.str[o].trim
    /\ c' = [(IF c.str[o].send_done \/ c.str[o].reset_sent THEN c ELSE stream_reset(c, o))
             EXCEPT !.faults = @ + 1]
    /\ UNCHANGED <<wire, client>>

\* Mutant: the credit is noted and nobody is woken.
wake_blocked_none(k) == k

wake_blocked(k) ==
    FoldLeft(LAMBDA q, o : IF q.str[o].open /\ has_unsent(q.str[o]) /\ ~q.str[o].ready /\ ~q.str[o].reset_sent
                           THEN enqueue([q EXCEPT !.str[o].blocked = FALSE], o) ELSE q,
             k, [i \in 1..Cardinality(DOMAIN k.str) |-> i])

max_data ==
    /\ c.max_data < setting.max_data_end
    /\ c' = wake_blocked([c EXCEPT !.max_data = @ + 1])
    /\ UNCHANGED <<wire, client>>

max_stream_data(o) ==
    /\ c.str[o].open /\ c.str[o].max_send < setting.max_send_end
    /\ LET k == [c EXCEPT !.str[o].max_send = @ + 1, !.str[o].blocked = FALSE]
       IN c' = IF has_unsent(k.str[o]) THEN enqueue(k, o) ELSE k
    /\ UNCHANGED <<wire, client>>

\* A packet arrives; the others may be late or lost.
Arrives ==
    \E p \in wire :
      LET frames == {p.items[i] : i \in DOMAIN p.items}
          of(i) == {f \in frames : f.kind = "stream" /\ f.id = i}
      IN /\ client' = [pns |-> client.pns \cup {p.pn},
                       got |-> [i \in Ids |-> client.got[i] \cup UNION {Run(f.b, f.b + f.n) : f \in of(i)}],
                       fin |-> client.fin \cup {i \in Ids : \E f \in of(i) : f.fin}]
         /\ wire' = wire \ {p}
         /\ UNCHANGED c

Next ==
    /\ UNCHANGED setting
    /\ \/ produce \/ on_ack \/ on_timer \/ max_data \/ Arrives
       \/ \E o \in Objects :
            \/ \E total \in setting.totals : respond(o, total)
            \/ append(o) \/ file_fails(o) \/ on_stop_sending(o) \/ max_stream_data(o)

Spec == Init /\ [][Next]_vars
-----------------------------------------------------------------------------
(* Properties                                                                 *)
\* The STREAM frames of a stream in the packets on record.
Recorded(o) ==
    {f \in UNION {Range(p.items) : p \in c.pk} : f.kind = "stream" /\ f.id = c.str[o].id}

Sending(s) == s.open /\ ~s.send_done /\ ~s.reset_due /\ ~s.reset_sent

\* An answer is taken for delivered (apply_acked: send_done, logged, its object
\* reused) only when the client has every byte of it and its end, whatever packets
\* were lost, resent, probed twice or acknowledged late.
WholeMeansReceived ==
    \A w \in c.whole : w[1] \in client.fin /\ client.got[w[1]] = Run(0, w[2])

\* No byte and no end is forgotten: what the client has not acknowledged is still to
\* be sent, queued to be sent again, or in a packet whose loss or acknowledgement
\* will be noticed (apply_lost, probe_with_data, detect_lost).
NothingForgotten ==
    \A o \in Objects : Sending(c.str[o]) =>
      LET s == c.str[o]
          out == UNION {Run(f.b, f.b + f.n) : f \in Recorded(o)}
      IN /\ Run(s.base, s.next) \subseteq s.acked \cup s.lost \cup out
         /\ s.fin_sent => s.fin_acked \/ \E f \in Recorded(o) : f.fin

\* While nothing is reset, a stream with something to send is in the ready list,
\* unless it has only new bytes and no credit for them; then the client's next
\* MAX_DATA or MAX_STREAM_DATA puts it there (wake_blocked).
WaitingIsListed ==
    setting.faults = 0 =>
      \A o \in Objects : Sending(c.str[o]) /\ has_unsent(c.str[o]) =>
        \/ o \in Listed(c)
        \/ c.str[o].lost = {} /\ c.str[o].next < c.str[o].total /\ Allowed(c, c.str[o]) = 0

\* Streams take turns ("one frame per stream in turn"): the head of the list is a
\* stream marked as listed, so its turn ends with a frame or with its leaving.
TurnsAreTaken == c.head # NoStream => c.str[c.head].ready
=============================================================================
