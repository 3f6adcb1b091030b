--------------------------- MODULE QuicHandshake ---------------------------
(* The handshake of a QUIC connection and its end (quic/connection.hpp,        *)
(* quic/recovery.hpp): packet number spaces and their keys, CRYPTO data in     *)
(* pieces, what an unvalidated address may be sent, coalesced datagrams, loss  *)
(* and probes, the deadlines, closing and draining.                            *)
(* Either side repeats what it sent, so a message once sent may arrive at any  *)
(* later time, again, or never.  Spaces are 0 Initial, 1 Handshake,            *)
(* 2 application; crypto data are pieces, and the TLS library is what the code *)
(* uses it for: which pieces make which keys.                                  *)
EXTENDS Integers, Sequences, FiniteSets, FiniteSetsExt

CONSTANTS Settings      \* the situations looked at

VARIABLES
    h,        \* the server's connection
    peer,     \* the client: pieces it has, whether it knows the handshake done
    up,       \* messages sent to the server
    down,     \* packets sent to the client
    setting   \* the situation, which no step changes

vars == <<h, peer, up, down, setting>>

Spaces == 0..2
Pieces(s) == 1..setting.pieces[s + 1]     \* of the server's flights: ServerHello; certificate; tickets
Hello == 1..setting.hello                 \* of the ClientHello; 0 is the Finished

Handshaking ==
    [state |-> "handshaking", half_open |-> TRUE, closed_told |-> 0, rx |-> {0}, tx |-> {0}, got |-> {},
     out |-> [s \in Spaces |-> {}], sent |-> [s \in Spaces |-> {}], lost |-> [s \in Spaces |-> {}],
     acked |-> [s \in Spaces |-> {}], pk |-> {}, discarded |-> {}, probes |-> [s \in Spaces |-> 0],
     validated |-> setting.retried, credit |-> 0, ack_due |-> [s \in Spaces |-> FALSE],
     done_due |-> FALSE, done_acked |-> FALSE, tls |-> TRUE, close_due |-> FALSE, age |-> 0, quiet |-> 0]

Init ==
    /\ setting \in Settings
    /\ h = Handshaking
    /\ peer = [has |-> [s \in Spaces |-> {}], done |-> FALSE]
    /\ up = {} /\ down = {}

Live(k) == k.state \in {"handshaking", "established"}

leave_handshake(k) == [k EXCEPT !.half_open = FALSE]

\* fail and close: the application is told once, the close is sent.
fail(k) ==
    IF ~Live(k) THEN k
    ELSE [leave_handshake(k) EXCEPT !.state = "closing", !.close_due = TRUE, !.closed_told = @ + 1, !.age = 0]
-----------------------------------------------------------------------------
(* Spaces                                                                     *)
discard_space(k, s) ==
    [k EXCEPT !.pk = {p \in @ : p.s # s}, !.probes[s] = 0, !.discarded = @ \cup {s},
              !.rx = @ \ {s}, !.tx = @ \ {s}]

\* Established: HANDSHAKE_DONE is due, the Handshake keys go.
on_handshake_complete(k) ==
    LET t == [leave_handshake(k) EXCEPT !.state = "established", !.done_due = TRUE]
    IN IF 1 \in t.rx THEN discard_space(t, 1) ELSE t

\* The library's step over the pieces it was given in order: the flights it writes,
\* the keys it installs.
advance_tls(k) ==
    LET hello == Hello \subseteq k.got /\ k.out[0] = {}
        t == IF hello THEN [k EXCEPT !.out[0] = Pieces(0), !.out[1] = Pieces(1), !.rx = @ \cup {1}, !.tx = @ \cup {1, 2}]
             ELSE k
    IN IF 0 \in t.got /\ t.state = "handshaking"
       THEN on_handshake_complete([t EXCEPT !.out[2] = Pieces(2), !.rx = @ \cup {2}]) ELSE t

\* Pieces wait until those before them are there (the buffer of a level).
on_crypto(k, piece) == advance_tls([k EXCEPT !.got = @ \cup {piece}])
-----------------------------------------------------------------------------
(* Acknowledgements and losses                                                *)
maybe_free_tls(k) ==
    IF k.done_acked /\ k.out[2] \subseteq k.acked[2] THEN [k EXCEPT !.tls = FALSE] ELSE k

apply_acked(k, P) ==
    maybe_free_tls([k EXCEPT !.pk = @ \ P,
                             !.acked = [s \in Spaces |-> k.acked[s] \cup UNION {p.pieces : p \in {x \in P : x.s = s}}],
                             !.done_acked = @ \/ \E p \in P : p.done])

\* Mutant: HANDSHAKE_DONE goes out once.
apply_lost_done(k, P) ==
    [k EXCEPT !.lost = [s \in Spaces |-> IF s \in k.tx THEN k.lost[s] \cup UNION {p.pieces : p \in {x \in P : x.s = s}} ELSE k.lost[s]]]

apply_lost(k, P) ==
    [k EXCEPT !.lost = [s \in Spaces |-> IF s \in k.tx THEN k.lost[s] \cup UNION {p.pieces : p \in {x \in P : x.s = s}} ELSE k.lost[s]],
              !.done_due = @ \/ \E p \in P : p.done]

at_amplification_limit(k) == ~k.validated /\ k.credit = 0

\* The loss timer.  A packet of which a later one was acknowledged is lost by the clock;
\* without one a probe asks for the oldest packet's data again, which stays on record.
on_loss_timer ==
    /\ Live(h)
    /\ \/ \E p \in h.pk : p.late /\ h' = apply_lost([h EXCEPT !.pk = @ \ {p}], {p})
       \/ /\ ~at_amplification_limit(h) /\ \A p \in h.pk : ~p.late
          /\ \E p \in h.pk :
               h' = apply_lost([h EXCEPT !.probes[p.s] = 1], IF p.pieces = {} /\ ~p.done THEN {} ELSE {p})
    /\ UNCHANGED <<peer, up, down>>
-----------------------------------------------------------------------------
(* Sending                                                                    *)
Unsent(k, s) == k.lost[s] \cup (k.out[s] \ k.sent[s])

wants_to_send(k, s) ==
    /\ s \in k.tx /\ s \notin k.discarded
    /\ k.ack_due[s] \/ k.probes[s] > 0 \/ Unsent(k, s) # {} \/ (s = 2 /\ k.done_due)

\* The packet of a space in one datagram: pieces resent first, as many as fit.
Packet(k, s, room) ==
    LET from == IF k.lost[s] # {} THEN k.lost[s] ELSE Unsent(k, s)
        take == {x \in from : Cardinality({y \in from : y < x}) < room}
    IN [s |-> s, pieces |-> take, done |-> s = 2 /\ k.done_due, late |-> FALSE]

build_packet(k, s, room) ==
    LET p == Packet(k, s, room)
    IN [k EXCEPT !.lost[s] = @ \ p.pieces, !.sent[s] = @ \cup p.pieces, !.ack_due[s] = FALSE,
                 !.done_due = @ /\ ~p.done, !.probes[s] = IF @ > 0 THEN @ - 1 ELSE 0,
                 !.pk = IF p.pieces # {} \/ p.done \/ k.probes[s] > 0 THEN @ \cup {p} ELSE @]

\* One datagram of the spaces that want one, in order.
Datagram(k) ==
    LET f(acc, s) == IF wants_to_send(acc.k, s) /\ acc.room > 0
                     THEN [k |-> build_packet(acc.k, s, acc.room), pks |-> acc.pks \cup {Packet(acc.k, s, acc.room)},
                           room |-> acc.room - Cardinality(Packet(acc.k, s, acc.room).pieces)]
                     ELSE acc
        a == f(f(f([k |-> k, pks |-> {}, room |-> setting.room], 0), 1), 2)
    IN [k |-> [a.k EXCEPT !.credit = IF k.validated THEN @ ELSE @ - 1], pks |-> a.pks]

\* Datagrams until nothing is due, or an unvalidated address had three times its own.
RECURSIVE Datagrams(_, _)
Datagrams(k, pks) ==
    IF at_amplification_limit(k) \/ \A s \in Spaces : ~wants_to_send(k, s) THEN [k |-> k, pks |-> pks]
    ELSE Datagrams(Datagram(k).k, pks \cup Datagram(k).pks)

\* The close, in the highest space there are keys for.
send_close ==
    /\ h.state = "closing" /\ h.close_due
    /\ h' = [h EXCEPT !.close_due = FALSE]
    /\ down' = down \cup {[s |-> Max(h.tx), pieces |-> {}, done |-> FALSE, late |-> TRUE]}
    /\ UNCHANGED <<peer, up>>

produce ==
    \/ /\ Live(h) /\ ~at_amplification_limit(h) /\ \E s \in Spaces : wants_to_send(h, s)
       /\ LET d == Datagrams(h, {}) IN h' = d.k /\ down' = down \cup d.pks
       /\ UNCHANGED <<peer, up>>
    \/ send_close
-----------------------------------------------------------------------------
(* Receiving                                                                  *)
\* The space a message of the client is in.
SpaceOf(m) == IF m.kind \in {"hello", "ack0"} THEN 0 ELSE IF m.kind \in {"fin", "ack1"} THEN 1 ELSE 2

\* Packets an acknowledgement names; those sent before the newest of them are late.
Acks(k, m) ==
    LET P == {p \in k.pk : p.s = SpaceOf(m) /\ p.pieces \subseteq m.has /\ (p.done => m.done)}
    IN IF m.kind \in {"ack0", "ack1", "ack2", "fin"} THEN P ELSE {}

Framed(k, m) ==
    LET P == Acks(k, m)
        a == apply_acked(k, P)
        late == IF P = {} THEN a ELSE [a EXCEPT !.pk = {[p EXCEPT !.late = @ \/ p.s = SpaceOf(m)] : p \in @}]
    IN CASE m.kind = "hello" -> on_crypto(k, m.n)
         [] m.kind = "fin" -> on_crypto(late, 0)
         [] m.kind = "bad" -> fail(k)
         [] m.kind = "close" -> [k EXCEPT !.state = "draining", !.closed_told = @ + 1, !.age = 0]
         [] OTHER -> late

\* Mutant: the Initial keys go with the first packet that opens.
discard_initial_early(k, s) == IF 0 \in k.rx THEN discard_space(k, 0) ELSE k

\* A Handshake packet: the address is the client's, the Initial keys go.
discard_initial(k, s) ==
    IF s # 1 THEN k
    ELSE LET t == [k EXCEPT !.validated = TRUE] IN IF 0 \in t.rx THEN discard_space(t, 0) ELSE t

\* One datagram of the client.  A space without keys drops its packet; the datagram
\* counts for what the address may be sent all the same.
receive(m) ==
    LET s == SpaceOf(m)
        counted == [h EXCEPT !.credit = Min({@ + 3, setting.max_credit})]
        opened == Framed([counted EXCEPT !.quiet = 0], m)
    IN /\ h.state \notin {"closed", "draining"}
       /\ h' = IF h.state = "closing" THEN [counted EXCEPT !.close_due = TRUE]
               ELSE IF s \notin h.rx THEN counted
               ELSE IF ~Live(opened) THEN opened
               ELSE discard_initial([opened EXCEPT !.ack_due[s] = m.kind \in {"hello", "fin", "ping"}], s)
       /\ UNCHANGED <<peer, up, down>>
-----------------------------------------------------------------------------
(* The deadlines                                                              *)
Expired(k) == k.quiet >= setting.idle \/ (k.state = "handshaking" /\ k.age >= setting.idle)

\* A handshake ends within idle_timeout of its creation, whatever arrives; an idle
\* connection after it; a closing or draining one after three probe timeouts.
on_timer ==
    /\ \/ /\ h.state \in {"closing", "draining"} /\ h.age >= 1
          /\ h' = leave_handshake([h EXCEPT !.state = "closed"])
       \/ /\ Live(h) /\ Expired(h)
          /\ h' = leave_handshake([h EXCEPT !.state = "closed", !.closed_told = @ + 1])
    /\ UNCHANGED <<peer, up, down>>

\* Time passes; no step is put off past a deadline.
Tick ==
    /\ setting.idle > 0 /\ h.state # "closed"
    /\ IF Live(h) THEN ~Expired(h) ELSE h.age < 1
    /\ h' = [h EXCEPT !.age = Min({@ + 1, setting.idle}), !.quiet = Min({@ + 1, setting.idle})]
    /\ UNCHANGED <<peer, up, down>>
-----------------------------------------------------------------------------
(* The client                                                                 *)
Flight(s) == Pieces(s) \subseteq peer.has[s]

Ack(s) == [kind |-> <<"ack0", "ack1", "ack2">>[s + 1], n |-> 0, has |-> peer.has[s], done |-> peer.done]

\* It repeats its flight until it is answered: the ClientHello in pieces, then its
\* Finished with the acknowledgement of the certificate, then acknowledgements.
Messages ==
    {[kind |-> "hello", n |-> n, has |-> {}, done |-> FALSE] : n \in {x \in Hello : ~Flight(0)}}
    \cup {Ack(s) : s \in {x \in Spaces : peer.has[x] # {} /\ (x = 1 => Flight(0)) /\ (x = 2 => Flight(0) /\ Flight(1))}}
    \cup (IF Flight(0) /\ Flight(1) /\ ~peer.done THEN {[Ack(1) EXCEPT !.kind = "fin"]} ELSE {})
    \cup (IF setting.closes THEN {[kind |-> "close", n |-> 0, has |-> {}, done |-> FALSE],
                                   [kind |-> "bad", n |-> 0, has |-> {}, done |-> FALSE]} ELSE {})

ClientSends ==
    \E m \in Messages :
      /\ m \notin up
      /\ up' = up \cup {m}
      /\ UNCHANGED <<h, peer, down>>

\* A packet of the server arrives, when the client has the keys of its space.
ClientReceives(p) ==
    /\ (p.s = 1 => Flight(0)) /\ (p.s = 2 => Flight(0) /\ Flight(1))
    /\ peer' = [peer EXCEPT !.has[p.s] = @ \cup p.pieces, !.done = @ \/ p.done]
    /\ UNCHANGED <<h, up, down>>

Next ==
    /\ UNCHANGED setting
    /\ \/ produce \/ on_loss_timer \/ on_timer \/ Tick \/ ClientSends
       \/ \E m \in up : receive(m)
       \/ \E p \in down : ClientReceives(p)

Spec == Init /\ [][Next]_vars
-----------------------------------------------------------------------------
(* Properties                                                                 *)
\* Whatever is lost, the client can be brought to the end: each piece of a flight it
\* lacks is due, or in a packet whose loss a timer will notice (apply_lost, on_timeout);
\* the keys of a space go, and the packets on record with them, only when the client has
\* the whole flight of it (discard_initial, on_handshake_complete); HANDSHAKE_DONE is
\* repeated until acknowledged; and the TLS session is freed after all of it
\* (maybe_free_tls).
FlightsSurvive ==
    /\ Live(h) => \A s \in h.tx : h.out[s] \ peer.has[s] \subseteq Unsent(h, s) \cup UNION {p.pieces : p \in {x \in h.pk : x.s = s}}
    /\ \A s \in h.discarded : Pieces(s) \subseteq peer.has[s]
    /\ h.state = "established" /\ ~peer.done => h.done_due \/ \E p \in h.pk : p.done
    /\ ~h.tls => peer.done /\ Pieces(2) \subseteq peer.has[2]
=============================================================================
