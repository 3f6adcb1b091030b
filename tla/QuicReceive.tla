---------------------------- MODULE QuicReceive ----------------------------
(* What one established QUIC connection receives (quic/connection.hpp,         *)
(* quic/stream.hpp) and how HTTP/3 reads it (http3/connection.hpp): STREAM and *)
(* RESET_STREAM frames, the streams they open, the memory of the closed ones,  *)
(* both receive windows, MAX_STREAMS, and the packets that carry the credit.   *)
(* A frame once sent may arrive late, again or never: packets are lost and     *)
(* their frames resent, so any frame ever sent may be the next to arrive.      *)
(* Offsets are units; a request is one unit of head and the rest body.         *)
EXTENDS Integers, Sequences, FiniteSets, FiniteSetsExt

CONSTANTS Settings      \* the situations looked at

VARIABLES
    r,        \* the connection's receiving side
    cl,       \* the client: frames sent, and the credit it knows of
    out,      \* credit frames in packets neither acknowledged nor lost
    setting   \* the situation, which no step changes

vars == <<r, cl, out, setting>>

Indices == 0..(setting.streams - 1)     \* client-initiated bidirectional streams
size(i) == IF i \in setting.uploads THEN setting.size ELSE 1

Closed ==
    [open |-> FALSE, got |-> {}, consumed |-> 0, highest |-> 0, fin_seen |-> FALSE, final |-> 0,
     fin_delivered |-> FALSE, max_recv |-> 0, window |-> 0, credit_due |-> FALSE, reset |-> FALSE,
     headers_done |-> FALSE, responded |-> FALSE, finished |-> FALSE, reading |-> FALSE, discarded |-> 0]

Receiving ==
    [str |-> [i \in Indices |-> Closed], opened |-> 0, closed_map |-> {}, closed |-> 0,
     our_max_streams |-> setting.limit, advertised |-> setting.limit, streams_due |-> FALSE,
     streams_pending |-> FALSE, our_max_data |-> setting.max_data, received |-> 0, consumed |-> 0,
     max_data_due |-> FALSE, err |-> "none", handed |-> [i \in Indices |-> 0]]

Init ==
    /\ setting \in Settings
    /\ r = Receiving
    /\ cl = [log |-> {}, sent |-> [i \in Indices |-> 0], over |-> {}, max_data |-> setting.max_data,
             max_streams |-> setting.limit, max_stream |-> [i \in Indices |-> setting.window]]
    /\ out = {}

available(s) ==
    CHOOSE n \in 0..Cardinality(s.got) :
      /\ \A x \in s.consumed..(s.consumed + n - 1) : x \in s.got
      /\ s.consumed + n \notin s.got

at_end(s) == s.fin_seen /\ s.consumed = s.final

fail(k, why) == [k EXCEPT !.err = IF @ = "none" THEN why ELSE @]
-----------------------------------------------------------------------------
(* Credit                                                                     *)
grant(k, i, upto) == [k EXCEPT !.str[i].max_recv = upto, !.str[i].credit_due = TRUE]

stream_consumed(k, i, n) ==
    LET t == [k EXCEPT !.str[i].consumed = @ + n, !.consumed = @ + n]
        s == t.str[i]
        q == IF t.consumed + setting.max_data - t.our_max_data >= setting.max_data \div 4
             THEN [t EXCEPT !.our_max_data = t.consumed + setting.max_data, !.max_data_due = TRUE] ELSE t
    IN IF ~s.fin_seen /\ s.consumed + s.window - s.max_recv >= s.window \div 4
       THEN grant(q, i, s.consumed + s.window) ELSE q

stream_window(k, i, window) ==
    LET t == [k EXCEPT !.str[i].window = window]
    IN IF t.str[i].consumed + window > t.str[i].max_recv THEN grant(t, i, t.str[i].consumed + window) ELSE t

\* Mutant: the closed streams are remembered below the next to open, one too low.
stream_closed_off(k, i) ==
    [k EXCEPT !.str[i] = Closed,
              !.closed_map = IF k.opened - 1 - i < setting.remembered THEN @ \cup {i - 1} ELSE @,
              !.closed = @ + 1, !.our_max_streams = k.closed + 1 + setting.limit,
              !.streams_due = @ \/ k.advertised - Min({k.advertised, k.opened}) < setting.limit \div 4,
              !.streams_pending = TRUE]

\* The index joins the bitmap of the closed, kClosedWindow wide; MAX_STREAMS is due at
\* once when the client's room is under a quarter of the limit, else with a packet sent
\* anyway.
stream_closed(k, i) ==
    [k EXCEPT !.str[i] = Closed,
              !.closed_map = IF k.opened - 1 - i < setting.remembered THEN @ \cup {i} ELSE @,
              !.closed = @ + 1, !.our_max_streams = k.closed + 1 + setting.limit,
              !.streams_due = @ \/ k.advertised - Min({k.advertised, k.opened}) < setting.limit \div 4,
              !.streams_pending = TRUE]
-----------------------------------------------------------------------------
(* HTTP/3's side of a request stream                                          *)
maybe_close(k, i) ==
    LET s == k.str[i]
    IN IF s.open /\ s.finished /\ (s.fin_delivered \/ s.reset) THEN stream_closed(k, i) ELSE k

\* The head has arrived: a larger window for a body, and the handler starts.  A static
\* answer is filled at once, an upstream's or a verified login's comes later.
begin_request(k, i) ==
    LET s == k.str[i]
        t == [k EXCEPT !.str[i].headers_done = TRUE, !.str[i].responded = ~setting.later]
    IN IF at_end(s) THEN [t EXCEPT !.str[i].fin_delivered = TRUE]
       ELSE stream_window(t, i, setting.body_window)

\* DATA after the answer is discarded, up to kDiscardMax and then refused.
Drained(k, i) ==
    LET n == available(k.str[i])
        t == [stream_consumed(k, i, n) EXCEPT !.str[i].discarded = @ + n]
    IN IF t.str[i].discarded > setting.discard_max THEN [t EXCEPT !.str[i].fin_delivered = TRUE] ELSE t

\* DATA for a handler that reads; else the bytes wait.
Delivered(k, i) ==
    LET n == Min({available(k.str[i]), 1})
    IN [stream_consumed(k, i, n) EXCEPT !.str[i].reading = FALSE]

pump(k, i) ==
    LET s == k.str[i]
        head == IF ~s.headers_done /\ available(s) > 0 THEN begin_request(stream_consumed(k, i, 1), i) ELSE k
        h == head.str[i]
        body == IF ~h.headers_done \/ available(h) = 0 \/ h.fin_delivered THEN head
                ELSE IF h.reading THEN Delivered(head, i)
                ELSE IF h.responded THEN Drained(head, i)
                ELSE head
        b == body.str[i]
    IN maybe_close(IF at_end(b) /\ ~b.fin_delivered
                   THEN [body EXCEPT !.str[i].fin_delivered = TRUE, !.str[i].reading = FALSE] ELSE body, i)

\* A cancelled request: our side is reset, which ends it when the frame goes out.
on_stream_reset(k, i) == maybe_close([k EXCEPT !.str[i].fin_delivered = TRUE, !.str[i].responded = TRUE], i)
-----------------------------------------------------------------------------
(* Frames in                                                                  *)
\* Whether a stream may be opened by a frame that names it.
Known(k, i) == k.str[i].open
Gone(k, i) == ~Known(k, i) /\ i < k.opened /\ (k.opened - 1 - i >= setting.remembered \/ i \in k.closed_map)

\* The stream a frame is for; a new one is opened through on_new_stream.
incoming_stream(k, i) ==
    IF Known(k, i) THEN k
    ELSE LET opened == Max({k.opened, i + 1})
         IN [k EXCEPT !.opened = opened, !.closed_map = {x \in @ : opened - 1 - x < setting.remembered},
                      !.handed[i] = @ + 1,
                      !.str[i] = [Closed EXCEPT !.open = TRUE, !.window = setting.window, !.max_recv = setting.window]]

\* Mutant: the highest offset is not raised, so resent data is counted again.
on_stream_frame_again(k, f) ==
    LET s == k.str[f.i]
        end == f.off + f.n
        t == [k EXCEPT !.str[f.i] = [s EXCEPT !.fin_seen = @ \/ f.fin, !.final = IF f.fin THEN end ELSE @,
                                              !.got = IF s.reset THEN @ ELSE @ \cup {x \in f.off..(end - 1) : x >= s.consumed}],
                       !.received = @ + Max({0, end - s.highest})]
    IN IF end > s.max_recv THEN fail(k, "flow_control")
       ELSE IF s.fin_seen /\ (end > s.final \/ (f.fin /\ end # s.final)) THEN fail(k, "final_size")
       ELSE IF ~s.fin_seen /\ f.fin /\ end < s.highest THEN fail(k, "final_size")
       ELSE IF t.received > k.our_max_data THEN fail(t, "flow_control")
       ELSE IF s.reset THEN t ELSE pump(t, f.i)

on_stream_frame(k, f) ==
    LET s == k.str[f.i]
        end == f.off + f.n
        t == [k EXCEPT !.str[f.i] = [s EXCEPT !.fin_seen = @ \/ f.fin, !.final = IF f.fin THEN end ELSE @,
                                              !.highest = Max({@, end}),
                                              !.got = IF s.reset THEN @ ELSE @ \cup {x \in f.off..(end - 1) : x >= s.consumed}],
                       !.received = @ + Max({0, end - s.highest})]
    IN IF end > s.max_recv THEN fail(k, "flow_control")
       ELSE IF s.fin_seen /\ (end > s.final \/ (f.fin /\ end # s.final)) THEN fail(k, "final_size")
       ELSE IF ~s.fin_seen /\ f.fin /\ end < s.highest THEN fail(k, "final_size")
       ELSE IF t.received > k.our_max_data THEN fail(t, "flow_control")
       ELSE IF s.reset THEN t ELSE pump(t, f.i)

\* RESET_STREAM: the final size is counted, the reset is told once.
reset_stream(k, f) ==
    LET s == k.str[f.i]
        t == IF s.fin_seen THEN k
             ELSE [k EXCEPT !.received = @ + f.off - s.highest,
                            !.str[f.i] = [s EXCEPT !.highest = f.off, !.fin_seen = TRUE, !.final = f.off]]
    IN IF s.fin_seen /\ s.final # f.off THEN fail(k, "final_size")
       ELSE IF f.off < s.highest THEN fail(k, "final_size")
       ELSE IF ~s.fin_seen /\ f.off > s.max_recv THEN fail(k, "flow_control")
       ELSE IF s.reset THEN t
       ELSE on_stream_reset([t EXCEPT !.str[f.i].reset = TRUE], f.i)

\* A frame the client sent, for the first or another time.
handle_frame(f) ==
    /\ r.err = "none"
    /\ r' = IF f.i >= r.advertised THEN fail(r, "stream_limit")
            ELSE IF Gone(r, f.i) THEN r
            ELSE LET k == incoming_stream(r, f.i)
                 IN IF f.reset THEN reset_stream(k, f) ELSE on_stream_frame(k, f)
    /\ UNCHANGED <<cl, out>>
-----------------------------------------------------------------------------
(* The handler                                                                *)
read_body(i) ==
    /\ r.err = "none" /\ r.str[i].open /\ r.str[i].headers_done
    /\ ~r.str[i].responded /\ ~r.str[i].reading /\ ~r.str[i].fin_delivered
    /\ r' = pump([r EXCEPT !.str[i].reading = TRUE], i)
    /\ UNCHANGED <<cl, out>>

\* The answer of an upstream or of a verified login.  Without setting.early the
\* handler read the body to its end first.
respond(i) ==
    /\ r.err = "none" /\ r.str[i].open /\ r.str[i].headers_done /\ ~r.str[i].responded
    /\ setting.early \/ r.str[i].fin_delivered
    /\ r' = [r EXCEPT !.str[i].responded = TRUE]
    /\ UNCHANGED <<cl, out>>

\* The answer is acknowledged in full, or our RESET_STREAM has gone out.
on_stream_sent(i) ==
    /\ r.err = "none" /\ r.str[i].open /\ r.str[i].responded /\ ~r.str[i].finished
    /\ r' = maybe_close([r EXCEPT !.str[i].finished = TRUE], i)
    /\ UNCHANGED <<cl, out>>
-----------------------------------------------------------------------------
(* Packets that carry the credit                                              *)
\* What the next packet of the connection carries.  MAX_STREAMS rides on any packet
\* that asks for an acknowledgement; other: such a packet is sent for another reason.
build_packet(other) ==
    LET credit == {i \in Indices : r.str[i].credit_due}
        rides == r.streams_pending /\ (r.streams_due \/ other \/ r.max_data_due \/ credit # {})
        frames == {[kind |-> "max_stream_data", i |-> i, v |-> r.str[i].max_recv] : i \in credit}
                  \cup (IF r.max_data_due THEN {[kind |-> "max_data", i |-> 0, v |-> r.our_max_data]} ELSE {})
                  \cup (IF rides THEN {[kind |-> "max_streams", i |-> 0, v |-> r.our_max_streams]} ELSE {})
    IN /\ r.err = "none" /\ frames # {}
       /\ r' = [r EXCEPT !.max_data_due = FALSE,
                         !.str = [i \in Indices |-> [r.str[i] EXCEPT !.credit_due = FALSE]],
                         !.streams_due = IF rides THEN FALSE ELSE @,
                         !.streams_pending = IF rides THEN FALSE ELSE @,
                         !.advertised = IF rides THEN r.our_max_streams ELSE @]
       /\ out' = out \cup frames
       /\ UNCHANGED cl

\* Mutant: a lost MAX_STREAM_DATA is not sent again.
apply_lost_once(k, f) ==
    CASE f.kind = "max_data" -> [k EXCEPT !.max_data_due = TRUE]
      [] f.kind = "max_streams" -> [k EXCEPT !.streams_due = TRUE, !.streams_pending = TRUE]
      [] OTHER -> k

\* The packet of a credit frame is declared lost: the frame is due again, with what
\* its value is by then.
apply_lost(k, f) ==
    CASE f.kind = "max_data" -> [k EXCEPT !.max_data_due = TRUE]
      [] f.kind = "max_streams" -> [k EXCEPT !.streams_due = TRUE, !.streams_pending = TRUE]
      [] OTHER -> IF k.str[f.i].open /\ ~k.str[f.i].fin_seen THEN grant(k, f.i, k.str[f.i].max_recv) ELSE k

Lost(f) ==
    /\ out' = out \ {f}
    /\ r' = apply_lost(r, f)
    /\ UNCHANGED cl

\* It arrives.
Told(f) ==
    /\ out' = out \ {f}
    /\ cl' = [cl EXCEPT !.max_data = IF f.kind = "max_data" THEN Max({@, f.v}) ELSE @,
                        !.max_streams = IF f.kind = "max_streams" THEN Max({@, f.v}) ELSE @,
                        !.max_stream[f.i] = IF f.kind = "max_stream_data" THEN Max({@, f.v}) ELSE @]
    /\ UNCHANGED r
-----------------------------------------------------------------------------
(* The client, within the credit it knows of                                  *)
Spent == FoldSet(LAMBDA i, n : n + cl.sent[i], 0, Indices)

MaySend(i) ==
    /\ i < cl.max_streams /\ i \notin cl.over
    /\ \A j \in 0..(i - 1) : cl.sent[j] > 0
    /\ Spent < cl.max_data /\ cl.sent[i] < cl.max_stream[i]

\* One more unit of stream i, the last with its end.
ClientSends(i) ==
    /\ MaySend(i)
    /\ LET fin == cl.sent[i] + 1 = size(i)
           f == [i |-> i, off |-> cl.sent[i], n |-> 1, fin |-> fin, reset |-> FALSE]
       IN cl' = [cl EXCEPT !.log = @ \cup {f}, !.sent[i] = @ + 1, !.over = IF fin THEN @ \cup {i} ELSE @]
    /\ UNCHANGED <<r, out>>

\* The client gives a request up.
ClientResets(i) ==
    /\ setting.cancels /\ cl.sent[i] > 0 /\ i \notin cl.over
    /\ cl' = [cl EXCEPT !.log = @ \cup {[i |-> i, off |-> cl.sent[i], n |-> 0, fin |-> FALSE, reset |-> TRUE]},
                        !.over = @ \cup {i}]
    /\ UNCHANGED <<r, out>>

Next ==
    /\ UNCHANGED setting
    /\ \/ \E f \in cl.log : handle_frame(f)
       \/ \E f \in out : Lost(f) \/ Told(f)
       \/ \E other \in BOOLEAN : build_packet(other)
       \/ \E i \in Indices : ClientSends(i) \/ ClientResets(i) \/ read_body(i) \/ respond(i) \/ on_stream_sent(i)

Spec == Init /\ [][Next]_vars
-----------------------------------------------------------------------------
(* Properties                                                                 *)
\* A client that keeps within the credit it was told of is never failed for flow
\* control, a stream limit or a final size (on_stream_frame, incoming_stream,
\* reset_stream), however its frames are lost, repeated and reordered.
HonestNeverFailed == r.err = "none"

\* A request is handed to HTTP/3 once (on_new_stream), however late its frames come
\* again: the bitmap remembers the closed streams, and what is below it is refused.
EachRequestOnce == \A i \in Indices : r.handed[i] <= 1

OnWay(kind, i, v) == \E f \in out : f.kind = kind /\ f.i = i /\ f.v > v

\* A client that waits for credit gets some, as long as it gives no request up: when
\* everything it sent has been consumed, or every stream it may open has been closed,
\* the frame that lets it go on is due or on its way.
CreditComesBack ==
    (~setting.cancels /\ ~setting.early) =>
      /\ Spent = cl.max_data /\ r.consumed = Spent =>
           r.max_data_due \/ OnWay("max_data", 0, cl.max_data)
      /\ \A i \in Indices : r.str[i].open /\ i \notin cl.over /\ cl.sent[i] = cl.max_stream[i]
                              /\ r.str[i].consumed = cl.sent[i] =>
           r.str[i].credit_due \/ OnWay("max_stream_data", i, cl.max_stream[i])
      /\ r.closed = cl.max_streams => r.streams_due \/ OnWay("max_streams", 0, cl.max_streams)

\* DATA nobody reads is discarded after the answer: once a request was answered and
\* all its frames have arrived, no byte of it stays in the stream's buffer.
DiscardedAfterAnswer ==
    \A i \in Indices : r.str[i].open /\ r.str[i].finished /\ r.str[i].fin_seen => available(r.str[i]) = 0
=============================================================================
