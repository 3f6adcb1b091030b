-------------------------- MODULE UpstreamResponse -------------------------
(* How the answer of an origin reaches the client: the receiving phase of     *)
(* UpstreamRequest (src/upstream/client.cpp) under the decoder of HttpRequest *)
(* (src/upstream/http_client.cpp), the pull source behind a streamed answer,  *)
(* and the owners of the exchange: the connection until the head is           *)
(* delivered, then the body source of the response, a read in flight, the     *)
(* decoder's own frame.                                                       *)
(*                                                                            *)
(* The origin's answer is a sequence of items: interim heads, the head, the   *)
(* units of its body, and the last chunk of a chunked one.  A read brings one *)
(* or more; the decoder takes them one at a time, and what its callbacks run  *)
(* inline (the writer of the client's connection: a pull, or the close after  *)
(* a failed write) are the steps between two items.                           *)
EXTENDS Integers, Sequences, SequencesExt

CONSTANTS
    Cases,         \* what an origin may send, [interim, head, body, framing],
                   \* and options_.buffering of the request it answers
    Upgrade,       \* upgrade_: the request asked for a tunnel
    BufferMax,     \* options_.buffer_max, in units
    FileMax,       \* options_.buffer_file_max
    HighWater,     \* kHighWater
    MaxPull        \* the writer's chunk: a pull asks for at most as much

VARIABLES
    answer,    \* what this origin sends
    x          \* the exchange

vars == <<answer, x>>

Item(kind, unit) == [kind |-> kind, unit |-> unit]

Items ==
    [k \in 1 .. answer.interim |-> Item("interim", 0)] \o <<Item(answer.head, 0)>>
        \o (IF answer.head = "switch" THEN <<>> ELSE [k \in 1 .. answer.body |-> Item("unit", k)])
        \o (IF answer.framing = "chunked" THEN <<Item("last", 0)>> ELSE <<>>)

Body == [k \in 1 .. answer.body |-> k]

\* The members of UpstreamRequest once its request is sent, with the items of
\* the answer read (came) and decoded (used); who holds it (owner: upstream_ of
\* the connection, source: the response's body); whether the pool counts it
\* (slot); and what the client's side was given: the head (told), body units
\* (got) and how the body ended.
Sent(buffering) ==
    [came |-> 0, used |-> 0, phase |-> "receiving", buffering |-> buffering,
     status |-> "none", head_done |-> FALSE, failure |-> "none", upgraded |-> FALSE,
     body |-> <<>>, spilled |-> FALSE, spill_read |-> 0, pending |-> <<>>, waiter |-> 0,
     reading |-> TRUE, in_data |-> FALSE, late |-> FALSE,
     owner |-> TRUE, source |-> FALSE, slot |-> TRUE,
     told |-> "nothing", got |-> <<>>, ended |-> "no"]

Init == \E c \in Cases : answer = c.answer /\ x = Sent(c.buffering)

\* Somebody still refers to the exchange; without that its destructor has run.
Alive(e) == e.owner \/ e.source \/ e.reading \/ e.in_data

-----------------------------------------------------------------------------
(* What the handlers call, as functions of the exchange.                      *)
Least(m, n) == IF m < n THEN m ELSE n

From(units, n) == SubSeq(units, n + 1, Len(units))

\* The waiting pull is answered: with n units of the file, with n of the pending
\* ones, or with the end or the error.
FromSpill(e, n) ==
    [e EXCEPT !.waiter = 0, !.spill_read = @ + n,
              !.got = @ \o SubSeq(e.body, e.spill_read + 1, e.spill_read + n)]

FromPending(e, n) ==
    [e EXCEPT !.waiter = 0, !.got = @ \o SubSeq(e.pending, 1, n), !.pending = From(@, n)]

\* Mutant: a failed exchange ends like a finished one.
EndOf_hides_the_error(e) == [e EXCEPT !.waiter = 0, !.ended = "end"]

EndOf(e) ==
    [e EXCEPT !.waiter = 0, !.ended = IF e.phase = "finished" THEN "end" ELSE "error"]

\* Mutant: what arrived since the switch to streaming goes first.
satisfy_waiter_pending_first(e) ==
    LET m == IF e.spilled THEN Least(e.waiter, Len(e.body) - e.spill_read) ELSE 0
        n == Least(e.waiter, Len(e.pending))
    IN CASE e.waiter = 0 -> e
         [] e.waiter > 0 /\ n > 0 -> FromPending(e, n)
         [] e.waiter > 0 /\ n = 0 /\ m > 0 -> FromSpill(e, m)
         [] OTHER -> IF e.phase \in {"finished", "failed"} THEN EndOf(e) ELSE e

\* Spilled units first, then pending ones, then the end or the error; while more
\* may come the pull waits.
satisfy_waiter(e) ==
    LET m == IF e.spilled THEN Least(e.waiter, Len(e.body) - e.spill_read) ELSE 0
        n == Least(e.waiter, Len(e.pending))
    IN CASE e.waiter = 0 -> e
         [] e.waiter > 0 /\ m > 0 -> FromSpill(e, m)
         [] e.waiter > 0 /\ m = 0 /\ n > 0 -> FromPending(e, n)
         [] OTHER -> IF e.phase \in {"finished", "failed"} THEN EndOf(e) ELSE e

\* The completion runs once, and the connection lets go of the exchange before
\* it answers (Http1Connection::dispatch).  A collected body is the response's
\* own; a streamed one is pulled through the source; a failure and a head below
\* 200 have none (apply_upstream_result).
deliver_head(e) ==
    IF e.told # "nothing" THEN e
    ELSE IF e.failure # "none" THEN [e EXCEPT !.told = "error", !.owner = FALSE]
    ELSE IF e.upgraded THEN [e EXCEPT !.told = "tunnel", !.owner = FALSE]
    ELSE IF e.status # "final" THEN [e EXCEPT !.told = e.status, !.owner = FALSE]
    ELSE IF e.buffering
    THEN [e EXCEPT !.told = "final", !.owner = FALSE, !.got = e.body, !.ended = "end"]
    ELSE [e EXCEPT !.told = "final", !.owner = FALSE, !.source = TRUE]

\* mark_success, the connection and the slot go back, then whoever waits is told.
finish(e) ==
    LET f == [e EXCEPT !.phase = "finished", !.slot = FALSE]
    IN IF e.buffering THEN deliver_head(f) ELSE satisfy_waiter(deliver_head(f))

finish_upgraded(e) ==
    deliver_head([e EXCEPT !.phase = "finished", !.slot = FALSE, !.upgraded = TRUE])

\* fail: the answer has begun, or there is no other address (try_next_address).
fail(e, why) ==
    LET f == [e EXCEPT !.phase = "failed", !.slot = FALSE, !.failure = why]
    IN IF e.phase # "receiving" THEN e
       ELSE IF e.told = "nothing" THEN deliver_head(f) ELSE satisfy_waiter(f)

read_more(e) ==
    IF e.reading \/ e.in_data \/ e.phase # "receiving" THEN e
    ELSE IF ~e.buffering /\ e.told # "nothing" /\ Len(e.pending) >= HighWater THEN e
    ELSE [e EXCEPT !.reading = TRUE, !.late = FALSE]

Streaming(e, u) == satisfy_waiter([e EXCEPT !.pending = Append(@, u)])

\* A body unit: to the waiting pull or behind it, or collected in memory, then in
\* a temporary file, then from the file's cap on streamed after all.  disk says
\* whether the file could be written.
store_body(e, u, disk) ==
    IF ~e.buffering THEN Streaming(e, u)
    ELSE IF e.spilled /\ Len(e.body) + 1 > FileMax
    THEN Streaming(deliver_head([e EXCEPT !.buffering = FALSE]), u)
    ELSE IF e.spilled \/ Len(e.body) + 1 > BufferMax
    THEN IF disk THEN [e EXCEPT !.body = Append(@, u), !.spilled = TRUE]
         ELSE fail(e, "spill_error")
    ELSE [e EXCEPT !.body = Append(@, u)]

\* feed_head: without buffering the head is delivered as it is parsed.
feed_head(e, kind) ==
    LET h == [e EXCEPT !.status = kind, !.head_done = TRUE]
    IN IF e.buffering THEN h ELSE deliver_head(h)

reset_head(e) == [e EXCEPT !.head_done = FALSE, !.status = "none"]

\* on_head_complete, after feed_head, and the end of an answer without a body.
HeadItem(e, kind) ==
    LET h == feed_head(e, kind)
    IN IF kind = "interim" THEN reset_head(h)
       ELSE IF kind = "switch"
       THEN IF Upgrade THEN finish_upgraded(h) ELSE fail(h, "protocol_error")
       ELSE IF answer.framing = "length" /\ answer.body = 0 THEN finish(h)
       ELSE h

Unit(e, u, disk) ==
    LET s == store_body(e, u, disk)
    IN IF s.phase = "receiving" /\ answer.framing = "length" /\ u = answer.body THEN finish(s)
       ELSE s

decode(e, item, disk) ==
    CASE item.kind = "unit" -> Unit(e, item.unit, disk)
      [] item.kind = "last" -> finish(e)
      [] OTHER -> HeadItem(e, item.kind)
-----------------------------------------------------------------------------
(* The steps.                                                                 *)
Becomes(e) == x' = e /\ UNCHANGED answer

\* The read's handler, with the next n items; the decoder starts on them.
on_read(n) ==
    /\ x.reading /\ x.phase = "receiving"
    /\ x.came + n <= Len(Items)
    /\ Becomes([x EXCEPT !.reading = FALSE, !.came = @ + n, !.in_data = TRUE])

\* The read's handler with an error: the end of a body that ends with the
\* connection, else a failure.
on_read_error(eof) ==
    LET e == [x EXCEPT !.reading = FALSE]
    IN /\ x.reading /\ x.phase = "receiving"
       /\ Becomes(IF eof /\ x.head_done /\ answer.framing = "close"
                  THEN finish(e) ELSE fail(e, "closed_early"))

\* The handler of a read whose exchange is over.
on_read_late ==
    /\ x.reading /\ x.phase # "receiving"
    /\ Becomes([x EXCEPT !.reading = FALSE])

\* on_data: the next item of what was read.
on_item(disk) ==
    /\ x.in_data /\ x.phase = "receiving" /\ x.used < x.came
    /\ Becomes(decode([x EXCEPT !.used = @ + 1], Items[x.used + 1], disk))

\* Mutant: on_data leaves the next read to the next pull.
on_data_end_without_read ==
    /\ x.in_data /\ (x.used = x.came \/ x.phase # "receiving")
    /\ Becomes([x EXCEPT !.in_data = FALSE])

\* The rest of on_data, once the decoder returned.
on_data_end ==
    /\ x.in_data /\ (x.used = x.came \/ x.phase # "receiving")
    /\ Becomes(read_more([x EXCEPT !.in_data = FALSE]))

\* The writer asks for up to n units.
pull(n) ==
    LET e == satisfy_waiter([x EXCEPT !.waiter = n])
    IN /\ x.source /\ x.waiter = 0 /\ x.ended = "no"
       /\ Becomes(IF e.waiter = 0 THEN e ELSE read_more(e))

\* The writer is done: the body ended, or all of its declared length is out.
written ==
    LET whole == answer.framing = "length" /\ Len(x.got) = answer.body
    IN /\ x.source /\ x.waiter = 0 /\ (x.ended # "no" \/ whole)
       /\ Becomes([x EXCEPT !.source = FALSE, !.ended = IF @ = "no" THEN "end" ELSE @])

\* The client's connection closes: it cancels the exchange it still holds, and
\* drops the response with its body source.
close ==
    \/ /\ x.owner /\ ~x.in_data
       /\ Becomes([x EXCEPT !.phase = "cancelled", !.slot = FALSE, !.owner = FALSE])
    \/ /\ x.source
       /\ Becomes([x EXCEPT !.source = FALSE])

\* Time passes the deadline that read_more armed; the pool's tick finds it.
overdue ==
    /\ Alive(x) /\ ~x.in_data /\ x.phase = "receiving" /\ ~x.late
    /\ Becomes([x EXCEPT !.late = TRUE])

on_tick ==
    /\ Alive(x) /\ ~x.in_data /\ x.phase = "receiving" /\ x.late
    /\ Becomes(fail(x, "read_timeout"))

Next ==
    \/ \E n \in 1 .. Len(Items) : on_read(n)
    \/ \E eof \in BOOLEAN : on_read_error(eof)
    \/ on_read_late
    \/ \E disk \in BOOLEAN : on_item(disk)
    \/ on_data_end
    \/ \E n \in 1 .. MaxPull : pull(n)
    \/ written
    \/ close
    \/ overdue
    \/ on_tick

\* The event loop runs the handler of a read the origin answers, the decoder
\* returns, and a writer that was given bytes asks for more.
Fairness ==
    /\ WF_vars(\E n \in 1 .. Len(Items) : on_read(n))
    /\ WF_vars(on_item(TRUE)) /\ WF_vars(on_data_end)
    /\ WF_vars(\E n \in 1 .. MaxPull : pull(n))
    /\ WF_vars(on_read_error(TRUE) /\ x.came = Len(Items))

Spec == Init /\ [][Next]_vars /\ Fairness
-----------------------------------------------------------------------------
(* Properties                                                                 *)
\* The members in their ranges; a pull waits only for a source.
TypeOK ==
    /\ \E c \in Cases : answer = c.answer
    /\ x.came \in 0 .. Len(Items) /\ x.used \in 0 .. x.came
    /\ x.phase \in {"receiving", "finished", "failed", "cancelled"}
    /\ {x.buffering, x.head_done, x.upgraded, x.spilled, x.reading, x.in_data,
        x.late, x.owner, x.source, x.slot} \subseteq BOOLEAN
    /\ x.told \in {"nothing", "final", "error", "tunnel", "interim", "switch"}
    /\ x.spill_read \in 0 .. Len(x.body) /\ x.waiter \in 0 .. MaxPull
    /\ x.ended \in {"no", "end", "error"}

\* The client is given the units of the body in the origin's order, none lost,
\* none twice, also across the switch from the temporary file to streaming
\* (store_body, satisfy_waiter).
InOrder == IsPrefix(x.got, Body)

\* A body that did not arrive whole never ends like one that did: the writer
\* cuts the connection only on an error (finish, fail, satisfy_waiter).
NoSilentTruncation ==
    (x.ended = "end" /\ answer.framing # "close") => x.got = Body

Ended == x.ended # "no" \/ x.told \in {"error", "tunnel"} \/ ~(x.owner \/ x.source)

\* While the client stays and pulls and the origin sends, the body comes to its
\* end without the help of a timeout: a read is started whenever a pull waits
\* for one (on_data, pull).
EventuallyWhole == <>Ended

=============================================================================
