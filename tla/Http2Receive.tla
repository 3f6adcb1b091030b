---------------------------- MODULE Http2Receive ----------------------------
(* The request bodies of one HTTP/2 connection (http2/connection.hpp): DATA    *)
(* frames into the stream's buffer, the handler's reads out of it, the windows *)
(* given back, the limits, and the ways a stream with a body ends.  A stream's *)
(* id is its request; objects and the sending side are in Http2Writer.         *)
(* Bytes are units.  The client keeps to the connection's window.              *)
EXTENDS Integers, Sequences, FiniteSets, FiniteSetsExt

CONSTANTS
    Streams,         \* requests
    DefaultWindow,   \* kDefaultWindow
    Drain,           \* kDrainAfterResponse
    Settings         \* the connections looked at, each a record of what follows

VARIABLES
    s,               \* H2Stream's receiving side, per stream
    grant,           \* conn_recv_grant_
    unreturned,      \* conn_unreturned_
    setting          \* the connection's setting, which no step changes

Body == setting.body                    \* bound: units a client sends on one stream
Lengths == setting.lengths              \* announced content-length; NoLength: none
Limit == setting.limit                  \* max_body_size
ConnWindow == setting.conn_window       \* kConnectionWindow
StreamWindow == setting.stream_window   \* kStreamWindowMax
ReadAll == setting.read_all             \* handlers answer only once they have read the body
Polite == setting.polite                \* the client keeps to its streams' windows, sends no
                                        \* DATA without body bytes before the end, and no
                                        \* stream is reset, timed out or loses its slot
NoLength == -1

ASSUME ReceiveAssumption ==
    /\ Drain \in Nat /\ DefaultWindow \in Nat \ {0}
    /\ \A x \in Settings :
         /\ {x.body, x.limit} \subseteq Nat /\ {x.conn_window, x.stream_window} \subseteq Nat \ {0}
         /\ x.lengths \subseteq Nat \cup {NoLength} /\ {x.read_all, x.polite} \subseteq BOOLEAN

vars == <<s, grant, unreturned, setting>>

\* reader: none, waiting (pending_handler), end or error as its last read told it.
\* handler: not started, at work on the request, or done with it.
\* sent, ended and read are histories: the client's body and the handler's.
Idle ==
    [state |-> "idle", length |-> NoLength, received |-> 0, pending |-> 0, grant |-> 0,
     unreturned |-> 0, body_done |-> FALSE, discarded |-> 0, answer |-> "none",
     handler |-> "none", reader |-> "none", sent |-> 0, ended |-> FALSE, read |-> 0]

Init ==
    /\ setting \in Settings
    /\ s = [i \in Streams |-> Idle]
    /\ grant = ConnWindow /\ unreturned = 0

\* The handlers of one frame change a stream and the connection's window.
Conn == [t |-> Idle, g |-> grant, u |-> unreturned]

With(i) == [Conn EXCEPT !.t = s[i]]

Becomes(i, k) == s' = [s EXCEPT ![i] = k.t] /\ grant' = k.g /\ unreturned' = k.u
-----------------------------------------------------------------------------
(* The windows                                                                *)
\* Mutant: what was given back is still owed.
return_conn_window_kept(k, n) ==
    LET u == k.u + n
    IN IF n = 0 THEN k
       ELSE IF u >= ConnWindow \div 2 \/ k.g < ConnWindow \div 4
       THEN [k EXCEPT !.g = @ + u, !.u = n] ELSE [k EXCEPT !.u = u]

return_conn_window(k, n) ==
    LET u == k.u + n
    IN IF n = 0 THEN k
       ELSE IF u >= ConnWindow \div 2 \/ k.g < ConnWindow \div 4
       THEN [k EXCEPT !.g = @ + u, !.u = 0] ELSE [k EXCEPT !.u = u]

return_window(k, n) ==
    LET r == return_conn_window(k, n)
        t == [r.t EXCEPT !.unreturned = @ + n]
        owed == t.unreturned >= Max({t.grant + t.pending, 1}) \div 2
                \/ t.grant <= DefaultWindow \div 4
    IN IF n = 0 THEN k
       ELSE IF t.state \in {"closed", "half_closed_remote"} \/ t.body_done THEN r
       ELSE [r EXCEPT !.t = IF owed THEN [t EXCEPT !.grant = @ + t.unreturned, !.unreturned = 0]
                            ELSE t]
-----------------------------------------------------------------------------
(* The streams                                                                *)
\* The object goes back to the pool, its counters reset.
Emptied(k) == [k EXCEPT !.t.pending = 0, !.t.grant = 0, !.t.unreturned = 0,
                        !.t.received = 0, !.t.discarded = 0]

\* The buffered bytes of a body that was still coming are given back to the
\* connection.
close_stream(k) ==
    LET c == [k EXCEPT !.t.state = "closed",
                       !.t.reader = IF @ = "waiting" THEN "error" ELSE @]
        r == IF ~k.t.body_done /\ k.t.pending > 0 THEN return_window(c, k.t.pending) ELSE c
    IN IF k.t.state = "closed" THEN k ELSE Emptied(r)

stream_error(k) == close_stream(k)

\* As much of the buffer as the handler asked for: any part of it.
deliver(k, n) ==
    IF k.t.reader # "waiting" THEN k
    ELSE IF n = 0 THEN [k EXCEPT !.t.reader = "end"]
    ELSE return_window([k EXCEPT !.t.reader = "none", !.t.read = @ + n, !.t.pending = @ - n], n)

\* Mutant: the length that came is not compared with the one announced.
end_of_body_short(k, n) == deliver([k EXCEPT !.t.body_done = TRUE], n)

end_of_body(k, n) ==
    LET d == [k EXCEPT !.t.body_done = TRUE]
    IN IF d.t.length # NoLength /\ d.t.received # d.t.length THEN stream_error(d)
       ELSE deliver(d, n)

\* What a stream with a body is granted: the limit, up to a maximum.
FullWindow == Max({DefaultWindow, Min({Max({Limit, 1}), StreamWindow})})

\* A request with a body; one announced over the limit is a 413 at once.
begin_request(i, len) ==
    /\ s[i].state = "idle"
    /\ s' = [s EXCEPT ![i] = [Idle EXCEPT
               !.state = "open", !.length = len,
               !.grant = IF len > Limit THEN DefaultWindow ELSE FullWindow,
               !.handler = IF len > Limit THEN "none" ELSE "busy",
               !.answer = IF len > Limit THEN "ready" ELSE "none"]]
    /\ UNCHANGED <<grant, unreturned>>

\* More than the limit: a 413 unless an answer is under way, and the rest is
\* not taken.  A read that waits is told; one that comes later finds body_done.
TooLarge(k, n) ==
    LET r == return_window([k EXCEPT !.t.body_done = TRUE], n)
    IN [r EXCEPT !.t.state = "half_closed_remote",
                 !.t.answer = IF @ = "none" THEN "ready" ELSE @,
                 !.t.reader = IF @ = "waiting" THEN "error" ELSE @]

\* n units on an open stream: into the buffer, to a read that waits.  The read
\* is completed by a frame without body bytes too.
Taken(k, n, end, m) ==
    LET b == [k EXCEPT !.t.received = @ + n]
        f == [b EXCEPT !.t.pending = @ + n]
    IN CASE b.t.length # NoLength /\ b.t.received > b.t.length -> stream_error(b)
         [] ~(b.t.length # NoLength /\ b.t.received > b.t.length) /\ b.t.received > Limit
              -> TooLarge(b, n)
         [] OTHER -> IF end THEN end_of_body([f EXCEPT !.t.state = "half_closed_remote"], m)
                     ELSE deliver(f, m)

\* The response is out: taken and dropped, up to a limit.
Dropped(k, n, h, end) ==
    LET b == [return_window(k, h) EXCEPT !.t.received = @ + n, !.t.discarded = @ + n]
        long == b.t.length # NoLength /\ b.t.received > b.t.length
    IN IF long \/ end \/ b.t.discarded > Drain THEN close_stream(b) ELSE b

\* What a waiting read gets of a buffer of p units.
Portions(k, p) == IF k.t.reader = "waiting" /\ p > 0 THEN 1 .. p ELSE {0}

\* DATA beyond the stream's window.
Beyond(i, h) == h > s[i].grant

\* Mutant: padding is not given back.
Padding_kept(k, pad) == k

\* Padding never waits for the handler.
Padding(k, pad) == return_window(k, pad)

\* A DATA frame of n units and pad of padding.
on_data(i, n, pad, end) ==
    LET h == n + pad
        k == [With(i) EXCEPT !.g = @ - h, !.t.sent = @ + n, !.t.ended = end]
        w == [k EXCEPT !.t.grant = @ - h]
    IN /\ s[i].state # "idle" /\ ~s[i].ended /\ s[i].sent + n <= Body /\ h <= grant
       /\ n > 0 \/ end \/ ~Polite
       /\ Polite /\ s[i].state \in {"open", "half_closed_local"} => h <= s[i].grant
       /\ IF s[i].state \in {"closed", "half_closed_remote"}
          THEN Becomes(i, stream_error(return_conn_window(k, h)))
          ELSE IF Beyond(i, h) THEN Becomes(i, stream_error(k))
          ELSE IF s[i].state = "half_closed_local"
          THEN Becomes(i, Dropped(w, n, h, end))
          ELSE \E m \in Portions(k, s[i].pending + n) :
                 Becomes(i, Taken(Padding(w, pad), n, end, m))

\* The handler reads: what is there, the end, or it waits for the next frame.
read_body(i) ==
    LET k == [With(i) EXCEPT !.t.reader = "waiting"]
    IN /\ s[i].state # "closed" /\ s[i].handler = "busy" /\ s[i].reader = "none"
       /\ IF s[i].pending > 0 \/ s[i].body_done
          THEN \E m \in Portions(k, s[i].pending) : Becomes(i, deliver(k, m))
          ELSE Becomes(i, k)

\* The handler is done: its response is filled.  An upstream that answers early
\* leaves a read waiting.
respond(i) ==
    /\ s[i].state # "closed" /\ s[i].handler = "busy"
    /\ ReadAll => s[i].reader \in {"end", "error"}
    /\ s' = [s EXCEPT ![i].handler = "done",
                      ![i].answer = IF @ = "none" THEN "ready" ELSE @]
    /\ UNCHANGED <<grant, unreturned>>

\* END_STREAM reached the kernel: a small rest of the body is drained, a large
\* one is cut.
on_stream_written(i) ==
    LET t == s[i]
        large == t.received > Limit \/ (t.length # NoLength /\ t.length - t.received > Drain)
    IN /\ t.state \in {"open", "half_closed_remote"} /\ t.answer = "ready"
       /\ IF ~t.body_done /\ t.state = "open" /\ ~large
          THEN Becomes(i, [With(i) EXCEPT !.t.state = "half_closed_local", !.t.answer = "sent"])
          ELSE Becomes(i, close_stream([With(i) EXCEPT !.t.answer = "sent"]))

\* Reset by the client, cut by a timeout, or its slot needed.
closes(i) ==
    /\ ~Polite /\ s[i].state \notin {"idle", "closed"}
    /\ Becomes(i, close_stream(With(i)))

Next == UNCHANGED setting /\ \E i \in Streams :
    \/ \E len \in Lengths : begin_request(i, len)
    \/ \E n \in 0 .. 2, pad \in 0 .. 1, end \in BOOLEAN : on_data(i, n, pad, end)
    \/ read_body(i)
    \/ respond(i)
    \/ on_stream_written(i)
    \/ closes(i)

Spec == Init /\ [][Next]_vars
-----------------------------------------------------------------------------
(* Properties                                                                 *)
\* The members have their types; no counter of bytes is negative
\* (http2/stream.hpp, connection.hpp).
TypeOK ==
    /\ grant \in Nat /\ unreturned \in Nat
    /\ \A i \in Streams :
         /\ s[i].state \in {"idle", "open", "half_closed_remote", "half_closed_local", "closed"}
         /\ {s[i].received, s[i].pending, s[i].grant, s[i].unreturned, s[i].read} \subseteq Nat
         /\ s[i].answer \in {"none", "ready", "sent"}
         /\ s[i].handler \in {"none", "busy", "done"}
         /\ s[i].reader \in {"none", "waiting", "end", "error"}

Buffered == MapThenSumSet(LAMBDA i : s[i].pending, Streams)

\* The client is never let send more than the connection's window beyond what
\* the handlers consumed, whatever order reads, padding, drains and closes give
\* it back in: the bytes buffered for one connection are bounded
\* (connection.hpp return_conn_window, close_stream).
ConnBounded == grant + unreturned + Buffered <= ConnWindow

\* A handler that is told the end has read all that the client sent, and the
\* client ended it, at the announced length if there was one: an application
\* never takes a part of an upload for the whole (connection.hpp deliver:
\* "0 only at the end of the body").  For clients that send no empty DATA and
\* keep to the limit; either refutes it.
EndMeansWhole ==
    \A i \in Streams : Polite /\ s[i].reader = "end" /\ s[i].sent <= Limit =>
        /\ s[i].ended /\ s[i].read = s[i].sent
        /\ s[i].length # NoLength => s[i].read = s[i].length

\* While handlers read, client and server never wait for each other: where a
\* read waits for the client, the stream's window is open, and the connection's
\* is too, or other handlers have bytes to consume that will open it
\* (connection.hpp return_window, return_conn_window and their thresholds).
UploadsGoOn ==
    \A i \in Streams : ReadAll /\ s[i].reader = "waiting" =>
        s[i].grant > 0 /\ (grant > 0 \/ Buffered > 0)
=============================================================================
