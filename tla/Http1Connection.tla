--------------------------- MODULE Http1Connection ---------------------------
(***************************************************************************)
(* An HTTP/1.1 connection (http1/connection.hpp): the receive buffer in_,  *)
(* the body buffer body_buf_, the reads in flight on the socket, and the   *)
(* life of each request from its parse to the next one.                    *)
(*                                                                         *)
(* The client's bytes are numbered units 1, 2, 3, ...: HeadLen units of    *)
(* head and Bodies[r] units of body for each request r.  A unit keeps its  *)
(* number in the buffers, so the model sees where memmove, a late read or  *)
(* a second read puts each of them.  One record k holds the connection;    *)
(* each function of the code is an operator from k to k, each callback of  *)
(* the event loop an action.                                               *)
(***************************************************************************)
EXTENDS Integers, Sequences, FiniteSets

CONSTANT Settings   \* the connections looked at, each a record of what follows

VARIABLES
    k,         \* the connection
    plan,      \* the handler of each request
    setting    \* the connection's setting, which no step changes

Bodies == setting.bodies     \* the body length of each request, in units
Chunked == setting.chunked   \* the requests whose body length is not declared
Limit == setting.limit       \* max_body_size
HeadLen == setting.head      \* units of a request head
Room == setting.room         \* the size of in_ and of body_buf_
Kinds == setting.kinds       \* the handlers a request may be routed to
May == setting.may           \* what may happen: "pipeline", "slow", "fail", "leave", "shed"

AllKinds == {"static", "auth", "buffered", "streamed"}
Requests == 1..Len(Bodies)

Http1Assumption ==
    \A x \in Settings :
        /\ x.bodies \in Seq(Nat) /\ x.chunked \subseteq 1..Len(x.bodies)
        /\ x.limit \in Nat /\ x.head \in Nat \ {0} /\ x.room \in Nat /\ x.room >= x.head
        /\ x.kinds \subseteq AllKinds
        /\ x.may \subseteq {"pipeline", "slow", "fail", "leave", "shed"}

vars == <<k, plan, setting>>

\* The first unit of each request's head, and the unit after the last request.
Start[r \in 1..(Len(Bodies) + 1)] ==
    IF r = 1 THEN 1 ELSE Start[r - 1] + HeadLen + Bodies[r - 1]

MinOf(a, b) == IF a < b THEN a ELSE b

\* Units the client has sent: everything; or, once a request is answered and the
\* last unit before it has been received, the next one.
Sent ==
    LET r == MinOf(k.answered + 1, Len(Bodies))
    IN IF "pipeline" \in May THEN Start[Len(Bodies) + 1] - 1
       ELSE IF k.next >= Start[r] THEN Start[r + 1] - 1
       ELSE Start[r] - 1

\* memcpy of `units` to position `at` (0-based) of a buffer.
Put(buf, at, units) ==
    [i \in 1..Room |-> IF i - at \in 1..Len(units) THEN units[i - at] ELSE buf[i]]

\* The parser, a handler or the drain takes these units as the next ones.
Take(c, units) ==
    IF \A i \in 1..Len(units) : units[i] = c.taken + i
    THEN [c EXCEPT !.taken = @ + Len(units)]
    ELSE [c EXCEPT !.garbled = TRUE]

ReadPending(c) == \E i \in 1..Len(c.reads) : c.reads[i].to \in {"in", "ready"}

--------------------------------------------------------------------------
(* Reading and parsing.                                                   *)

\* A request refused before its handler runs, or without one: everything buffered is dropped.
fail_request(c) ==
    [c EXCEPT !.consumed = c.inlen, !.pending = FALSE, !.keep = FALSE, !.writing = TRUE]

arm_read(c) ==
    [c EXCEPT !.reads = Append(@, [to |-> "in", who |-> "head", at |-> c.inlen, room |-> Room - c.inlen]),
              !.readAt = c.inlen]

\* One read of the connection's own at a time; a full buffer without a head is 431.
do_read(c) ==
    IF ReadPending(c) THEN c
    ELSE IF c.inlen >= Room THEN fail_request(c)
    ELSE arm_read(c)

\* A mutant: the count is added and the bytes stay where the read was armed.
settle_read_count(c, n) == [c EXCEPT !.inlen = @ + n, !.readAt = c.inlen + n]

\* The bytes a read delivered are moved down to where the buffer now ends.
settle_read(c, n) ==
    [c EXCEPT !.in = Put(@, c.inlen, SubSeq(c.in, c.readAt + 1, MinOf(c.readAt + n, Room))),
              !.inlen = MinOf(@ + n, Room), !.readAt = MinOf(c.inlen + n, Room)]

\* Drops the consumed prefix of the receive buffer.
compact(c) ==
    [c EXCEPT !.in = Put(@, 0, SubSeq(c.in, c.consumed + 1, c.inlen)),
              !.inlen = @ - c.consumed, !.consumed = 0]

\* The answer is ready: apply it and hand it to the writer.
respond(c) == [c EXCEPT !.stage = "none", !.responding = TRUE, !.writing = TRUE]

\* Static answers at once; auth and the exchanges later, under a new request_gen_.
dispatch(c) ==
    IF plan[c.req] = "static" THEN respond(c)
    ELSE [c EXCEPT !.stage = IF plan[c.req] = "auth" THEN "busy" ELSE "exchange",
                   !.gen = @ + 1,
                   !.calls = @ \cup {[gen |-> c.gen + 1, req |-> c.req]}]

\* The request whose head lies at the start of in_, 0 when what lies there is no head.
Parsed(c) ==
    IF \E r \in Requests : \A i \in 1..HeadLen : c.in[i] = Start[r] + i - 1
    THEN CHOOSE r \in Requests : c.in[1] = Start[r] ELSE 0

process(c) ==
    IF c.inlen < HeadLen THEN do_read(c)
    ELSE LET r == Parsed(c)
             d == [Take(c, SubSeq(c.in, 1, HeadLen)) EXCEPT !.consumed = HeadLen, !.req = r, !.logged = FALSE]
         IN IF r = 0 THEN [c EXCEPT !.garbled = TRUE]
            ELSE IF r \notin Chunked /\ Bodies[r] > Limit THEN fail_request(d)
            ELSE dispatch([d EXCEPT !.left = Bodies[r], !.pending = Bodies[r] > 0, !.got = 0,
                                          !.chunked = r \in Chunked])

next_request(c) == IF c.inlen > 0 THEN process(c) ELSE do_read(c)

--------------------------------------------------------------------------
(* The request's body.                                                    *)

\* log_request: one access log line for the current request.
log_request(c) == [c EXCEPT !.logs[c.req] = MinOf(@ + 1, 2), !.logged = TRUE]


\* The connection ends; a request cut before its answer went out is logged.
close(c) ==
    [(IF ~c.logged /\ c.req # 0 THEN log_request(c) ELSE c) EXCEPT
        !.closed = TRUE, !.gen = @ + 1, !.stage = "none", !.writing = FALSE, !.responding = FALSE,
        !.pending = FALSE, !.bpos = 0, !.blen = 0, !.reads = <<>>, !.req = 0]

\* A body over the limit while its handler reads it: 413 now, what the handler
\* answers later is dropped; with an answer already on its way, close.
refuse_body(c) ==
    IF c.responding \/ c.stage = "none" THEN close(c)
    ELSE [respond(c) EXCEPT !.keep = FALSE, !.pending = FALSE, !.gen = @ + 1]

\* decode_body on what the buffers hold: first in_ behind the head, then body_buf_.
decode_body(c) ==
    LET fromHead == c.consumed < c.inlen
        avail == IF fromHead THEN SubSeq(c.in, c.consumed + 1, c.inlen) ELSE SubSeq(c.body, c.bpos + 1, c.blen)
        n == MinOf(c.left, Len(avail))
        d == [Take(c, SubSeq(avail, 1, n)) EXCEPT
                !.consumed = IF fromHead THEN @ + n ELSE @, !.bpos = IF fromHead THEN @ ELSE @ + n,
                !.left = @ - n, !.got = @ + n, !.pending = c.left > n]
    IN IF ~c.pending THEN c ELSE IF c.chunked /\ d.got > Limit THEN refuse_body(d) ELSE d

\* The socket read of a body, into what is free of body_buf_.
read_socket(c, who) ==
    LET b == IF c.bpos = c.blen THEN 0 ELSE c.blen
    IN [c EXCEPT !.bpos = IF b = 0 THEN 0 ELSE @, !.blen = b,
                 !.reads = Append(@, [to |-> "body", who |-> who, at |-> b, room |-> Room - b])]

Buffered(c) == c.consumed < c.inlen \/ c.bpos < c.blen

\* A mutant: the rest of an unread body is left to the parser.
drain_skipped(c) == next_request([compact(c) EXCEPT !.pending = FALSE])

\* Discards the rest of a body the handler did not read, then the next request.
drain(c) ==
    LET d == decode_body(decode_body(c))
    IN IF d.closed THEN d
       ELSE IF d.pending THEN read_socket(d, "drain")
       ELSE next_request(compact(d))

\* A mutant: pipelined bytes read with the body stay behind.
Returned_kept(c) == c

\* Bytes of a next request that were read with the body go back to in_.
Returned(c) ==
    LET n == MinOf(c.blen - c.bpos, Room - c.inlen)
    IN [c EXCEPT !.in = Put(@, c.inlen, SubSeq(c.body, c.bpos + 1, c.bpos + n)),
                 !.inlen = @ + n,
                 !.bpos = IF c.bpos + n = c.blen THEN 0 ELSE @ + n,
                 !.blen = IF c.bpos + n = c.blen THEN 0 ELSE @]

--------------------------------------------------------------------------
(* The callbacks of the event loop.                                       *)

\* The socket gives units to the oldest read; what follows depends on the read.
on_read ==
    /\ Len(k.reads) > 0
    /\ k.next <= Sent
    /\ LET r == k.reads[1]
           c == [k EXCEPT !.reads = Tail(@)]
       IN IF r.to = "ready" THEN k' = arm_read(c)
          ELSE \E n \in 1..MinOf(r.room, Sent - k.next + 1) :
            LET units == [i \in 1..n |-> k.next + i - 1]
            IN IF r.to = "in"
               THEN LET d == settle_read([c EXCEPT !.in = Put(@, r.at, units), !.next = @ + n], n)
                    IN k' = IF d.stage = "exchange" \/ d.responding THEN d ELSE process(d)
               ELSE LET d == [c EXCEPT !.body = Put(@, r.at, units), !.next = @ + n, !.blen = MinOf(@ + n, Room)]
                    IN k' = IF r.who = "drain" THEN drain(d) ELSE decode_body(d)
    /\ UNCHANGED <<plan, setting>>

\* A handler asks for more of the body: from the buffers, or from the socket.
read_body ==
    /\ k.stage = "exchange" /\ k.pending
    /\ ~\E i \in 1..Len(k.reads) : k.reads[i].who = "pull"
    /\ k' = IF Buffered(k) THEN decode_body(k) ELSE read_socket(k, "pull")
    /\ UNCHANGED <<plan, setting>>

\* A handler answers, or an exchange that streams the body fails before its end;
\* an answer under an old request_gen_ is dropped.
HandlerDone ==
    /\ \E call \in k.calls :
         /\ call.gen = k.gen /\ k.stage = "exchange" =>
                ~k.pending \/ (plan[call.req] = "streamed" /\ "fail" \in May)
         /\ k' = LET c == [k EXCEPT !.calls = @ \ {call}]
                 IN IF call.gen = c.gen THEN respond(c) ELSE c
    /\ UNCHANGED <<plan, setting>>

\* An exchange that runs for a tick is watched for its client leaving.
on_slow_exchange ==
    /\ "slow" \in May
    /\ k.stage = "exchange" /\ ~k.pending /\ ~ReadPending(k) /\ k.inlen < Room
    /\ k' = arm_read(k)
    /\ UNCHANGED <<plan, setting>>

\* The whole response is written: log, compact, then the body's rest or the next request.
on_response_written ==
    /\ k.writing
    /\ LET c == Returned(compact([log_request(k) EXCEPT !.writing = FALSE, !.responding = FALSE, !.answered = @ + 1]))
           d == [c EXCEPT !.req = 0]
       IN k' = IF ~k.keep THEN close(d) ELSE IF c.pending THEN drain(d) ELSE next_request(d)
    /\ UNCHANGED <<plan, setting>>

\* Idle long enough: the buffers go and readiness is awaited instead.
shed ==
    /\ "shed" \in May
    /\ k.stage = "none" /\ ~k.responding /\ ~k.writing /\ ~k.pending /\ k.inlen = 0
    /\ Len(k.reads) = 1 /\ k.reads[1].to = "in"
    /\ k' = [k EXCEPT !.reads = <<[to |-> "ready", who |-> "head", at |-> 0, room |-> Room]>>,
                      !.in = [i \in 1..Room |-> 0], !.bpos = 0, !.blen = 0]
    /\ UNCHANGED <<plan, setting>>

\* The client leaves, or a limit passes: a read or the write ends with an error.
Leave ==
    /\ "leave" \in May
    /\ ~k.closed
    /\ Len(k.reads) > 0 \/ k.writing
    /\ k' = close(k)
    /\ UNCHANGED <<plan, setting>>

Init ==
    /\ setting \in Settings
    /\ plan \in [Requests -> Kinds]
    /\ k = arm_read([in |-> [i \in 1..Room |-> 0], inlen |-> 0, consumed |-> 0, readAt |-> 0,
                     body |-> [i \in 1..Room |-> 0], bpos |-> 0, blen |-> 0, reads |-> <<>>, next |-> 1,
                     req |-> 0, left |-> 0, got |-> 0, chunked |-> FALSE, pending |-> FALSE, stage |-> "none",
                     responding |-> FALSE, writing |-> FALSE, keep |-> TRUE, closed |-> FALSE,
                     gen |-> 0, calls |-> {}, logged |-> FALSE, logs |-> [r \in Requests |-> 0],
                     answered |-> 0, taken |-> 0, garbled |-> FALSE])

Next == ~k.garbled /\ (on_read \/ read_body \/ HandlerDone \/ on_slow_exchange \/ on_response_written \/ shed \/ Leave)

\* A step that the client's bytes, a handler or the writer brings about, and when
\* there is one: weak fairness, with the guards of Step for ENABLED Step.
Step == ~k.garbled /\ (on_read \/ read_body \/ HandlerDone \/ on_response_written)

CanStep ==
    /\ ~k.garbled
    /\ \/ Len(k.reads) > 0 /\ k.next <= Sent
       \/ k.stage = "exchange" /\ k.pending /\ ~\E i \in 1..Len(k.reads) : k.reads[i].who = "pull"
       \/ k.calls # {} /\ ~k.pending
       \/ k.writing

\* The client sends what it has to, the handlers and the writer finish.
Spec == Init /\ [][Next]_vars /\ (<>[]CanStep => []<><<Step>>_vars)

--------------------------------------------------------------------------
(* Properties.                                                            *)

\* The receive and the body buffer stay within their sizes and their marks in
\* order: what is consumed of in_ never passes what it holds (compact's assertion).
TypeOK ==
    /\ k.inlen \in 0..Room /\ k.consumed \in 0..k.inlen /\ k.readAt \in 0..Room
    /\ k.blen \in 0..Room /\ k.bpos \in 0..k.blen
    /\ k.req \in 0..Len(Bodies) /\ k.left \in Nat /\ k.answered \in 0..Len(Bodies)
    /\ k.stage \in {"none", "busy", "exchange"} /\ k.calls \subseteq [gen : 1..k.gen, req : Requests]

\* The parser, the handlers and the drain take the client's bytes in the order
\* they were sent, each once: no read lands where others' bytes are, none is
\* parsed twice (settle_read, compact, on_response_written).
BytesInOrder == ~k.garbled

\* While the connection waits for a request head, no received byte lies in the
\* body buffer, where the parser never looks.
NothingStranded == k.req = 0 /\ ~k.pending /\ ~k.writing /\ ReadPending(k) => k.bpos = k.blen

\* Every request parsed has one access log line when the connection is closed,
\* and never two (log_request from the writer and from close).
LoggedOnce ==
    \A r \in Requests :
        /\ k.logs[r] <= 1
        /\ k.closed /\ Start[r] + HeadLen - 1 <= k.taken => k.logs[r] = 1

Answered == "shed" \in May \/ k.closed \/ k.answered = Len(Bodies)

\* Every request the client sends is answered, or the connection is closed
\* (process, drain, on_response_written).  A shed that loses against arriving
\* bytes is not counted on to be rare, so settings with sheds are left out.
AllAnswered == <>Answered

=============================================================================
