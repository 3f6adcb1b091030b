-------------------------------- MODULE Http3 --------------------------------
(* The requests of an HTTP/3 connection (http3/connection.hpp): stream objects *)
(* from a pool, header sections that wait for the QPACK encoder stream, the    *)
(* password check and the upstream that answer later, the client's resets, the *)
(* critical streams, the access log, and the configuration generations a       *)
(* connection serves from.  The transport is in QuicSend and QuicReceive; here *)
(* a frame arrives or a reset is gone in one step.                             *)
EXTENDS Integers, Sequences, FiniteSets, FiniteSetsExt, SequencesExt

CONSTANTS Settings      \* the situations looked at

VARIABLES
    x,        \* the connection
    later,    \* completions that will come: password checks and upstreams
    gens,     \* the configuration: the server's and the worker's generation
    setting   \* the situation, which no step changes

vars == <<x, later, gens, setting>>

Requests == 1 .. setting.requests
Objects == 1 .. setting.objects          \* stream objects, reused through the pool
MaxBlocked == setting.max_blocked        \* qpack::Decoder::kMaxBlocked

NoSite == -1

\* A stream object; `req` is the request it carries (0: in the pool), `gen` the count of
\* its reuses that a late completion compares, `recv_over` fin_delivered, `site` the
\* generation its site is of.
Fresh == [req |-> 0, gen |-> 0, headers_done |-> FALSE, blocked |-> FALSE, required |-> 0, responded |-> FALSE,
          reset |-> "no", sent |-> FALSE, finished |-> FALSE, fin |-> FALSE, recv_over |-> FALSE, upstream |-> FALSE,
          logged |-> FALSE, site |-> NoSite]

Init ==
    /\ setting \in Settings
    /\ x = [closed |-> FALSE, str |-> [o \in Objects |-> Fresh], blocked |-> <<>>, inserts |-> 0,
            ici_due |-> FALSE, cancelled |-> {}, gen |-> 0, uni |-> {}, settings |-> FALSE, goaway |-> 0,
            seen |-> {}, answers |-> {}, logs |-> [i \in Requests |-> <<>>]]
    /\ later = {}
    /\ gens = [server |-> 0, worker |-> 0]

Live(k) == {o \in Objects : k.str[o].req # 0}
-----------------------------------------------------------------------------
(* The access log and the end of a stream                                     *)
\* Once per request: the answer's status when a byte of it went out, else why none did.
log_request(k, o) ==
    LET s == k.str[o]
    IN IF s.logged THEN k
       ELSE [k EXCEPT !.str[o].logged = TRUE,
                      !.logs[s.req] = Append(@, IF s.sent THEN "answer" ELSE IF s.responded THEN "refused" ELSE "left")]

\* Mutant: a stream that goes while it is blocked stays in the list of blocked streams.
close_stream_listed(k, o) ==
    LET s == k.str[o]
        logged == IF s.headers_done THEN log_request(k, o) ELSE k
    IN [logged EXCEPT !.cancelled = IF s.blocked THEN @ \cup {s.req} ELSE @,
                      !.str[o] = [Fresh EXCEPT !.gen = s.gen + 1]]

\* Logged when its headers were read; a blocked section is cancelled with the encoder; the
\* object goes to the pool, a reuse further.
close_stream(k, o) ==
    LET s == k.str[o]
        logged == IF s.headers_done THEN log_request(k, o) ELSE k
    IN [logged EXCEPT !.blocked = SelectSeq(@, LAMBDA p : p # o),
                      !.cancelled = IF s.blocked THEN @ \cup {s.req} ELSE @,
                      !.str[o] = [Fresh EXCEPT !.gen = s.gen + 1]]

SendOver(s) == s.finished \/ (~s.responded /\ s.reset = "sent")

maybe_close(k, o) == IF SendOver(k.str[o]) /\ k.str[o].recv_over THEN close_stream(k, o) ELSE k

stream_reset(k, o) == IF k.str[o].reset # "no" THEN k ELSE [k EXCEPT !.str[o].reset = "due"]

on_closed(k) ==
    LET shut == [k EXCEPT !.closed = TRUE, !.str = [o \in Objects |-> [k.str[o] EXCEPT !.upstream = FALSE]]]
    IN FoldSet(LAMBDA o, t : log_request(t, o), shut, {o \in Live(k) : k.str[o].headers_done})

connection_error(k) == IF k.closed THEN k ELSE on_closed(k)
-----------------------------------------------------------------------------
(* A request                                                                  *)
respond(k, o, who) ==
    IF k.str[o].responded \/ k.closed THEN k
    ELSE [k EXCEPT !.str[o].responded = TRUE, !.answers = @ \cup {[to |-> k.str[o].req, of |-> who]}]

\* A malformed request: reset, the rest of it not read.
malformed(k, o) ==
    maybe_close([stream_reset(k, o) EXCEPT !.str[o].headers_done = TRUE, !.str[o].responded = TRUE,
                                           !.str[o].recv_over = TRUE], o)

\* Routed in the connection's generation: served at once, or by the password check or the
\* upstream, whose completion names the object and its count of reuses.
dispatch(k, o, passed) ==
    LET s == k.str[o]
        kind == IF passed /\ setting.kinds[s.req] = "auth" THEN "static" ELSE setting.kinds[s.req]
        routed == [k EXCEPT !.str[o].site = k.gen]
    IN CASE kind = "static" -> [k |-> respond(routed, o, s.req), asks |-> {}]
         [] kind = "auth" -> [k |-> routed, asks |-> {[kind |-> "auth", o |-> o, gen |-> s.gen, req |-> s.req]}]
         [] OTHER -> [k |-> [routed EXCEPT !.str[o].upstream = TRUE],
                      asks |-> {[kind |-> "upstream", o |-> o, gen |-> s.gen, req |-> s.req]}]

\* The section is decoded, or waits for the inserts it needs; a connection with too many
\* waiting is closed.
begin_request(k, o) ==
    LET s == k.str[o] IN
    IF setting.needs[s.req] > k.inserts
    THEN [k |-> IF Len(k.blocked) >= MaxBlocked THEN connection_error(k)
                ELSE [k EXCEPT !.str[o].blocked = TRUE, !.str[o].required = setting.needs[s.req], !.blocked = Append(@, o)],
          asks |-> {}]
    ELSE IF setting.kinds[s.req] = "malformed" THEN [k |-> malformed(k, o), asks |-> {}]
    ELSE dispatch([k EXCEPT !.str[o].headers_done = TRUE, !.str[o].recv_over = s.fin], o, FALSE)

\* After inserts: every blocked stream the table now satisfies goes on.
RECURSIVE Unblocked(_)
Unblocked(r) ==
    LET ready == SelectSeq(r.k.blocked, LAMBDA o : r.k.str[o].required <= r.k.inserts)
    IN IF ready = <<>> \/ r.k.closed THEN r
       ELSE LET o == Head(ready)
                t == begin_request([r.k EXCEPT !.blocked = SelectSeq(@, LAMBDA p : p # o), !.str[o].blocked = FALSE], o)
            IN Unblocked([k |-> t.k, asks |-> r.asks \cup t.asks])

unblock_streams(r) == Unblocked(r)

\* The generation the worker hands out, unless the listener left the configuration.
refresh_generation(k) == IF setting.leaves /\ gens.worker # 0 THEN k ELSE [k EXCEPT !.gen = gens.worker]

\* An upstream exchange that was cancelled never completes (UpstreamRequest::cancel).
Uncancelled(k, asks) == {c \in asks : c.kind = "upstream" => k.str[c.o].gen = c.gen /\ k.str[c.o].upstream}

Becomes(r) == x' = r.k /\ later' = Uncancelled(r.k, later \cup r.asks) /\ UNCHANGED gens
Plainly(k) == Becomes([k |-> k, asks |-> {}])

\* A request's HEADERS, with or without the stream's end.
on_new_stream ==
    \E i \in Requests \ x.seen, fin \in BOOLEAN :
      LET o == Min(Objects \ Live(x))
          k == [refresh_generation(x) EXCEPT !.seen = @ \cup {i}, !.str[o].req = i, !.str[o].fin = fin]
      IN /\ ~x.closed /\ Objects \ Live(x) # {} /\ \A j \in Requests \ x.seen : i <= j
         /\ Becomes(begin_request(k, o))

\* The rest of the body and the stream's end.
body_ends ==
    \E o \in Live(x) :
      /\ ~x.closed /\ ~x.str[o].recv_over /\ ~x.str[o].fin
      /\ Plainly(IF x.str[o].blocked THEN [x EXCEPT !.str[o].fin = TRUE]
                 ELSE maybe_close([x EXCEPT !.str[o].fin = TRUE, !.str[o].recv_over = TRUE], o))

\* The client gives the request up; what we were doing stops.
on_stream_reset ==
    \E o \in Live(x) :
      LET s == x.str[o]
          k == [x EXCEPT !.str[o].upstream = FALSE, !.str[o].recv_over = TRUE]
      IN /\ ~x.closed /\ ~s.recv_over /\ ~s.fin /\ setting.resets
         /\ Plainly(maybe_close(IF ~s.finished /\ s.reset # "sent" THEN stream_reset(k, o) ELSE [k EXCEPT !.str[o].finished = TRUE], o))

on_stop_sending ==
    \E o \in Live(x) :
      LET s == x.str[o]
          k == IF s.responded THEN x ELSE [x EXCEPT !.str[o].upstream = FALSE]
      IN /\ ~x.closed /\ setting.resets /\ s.reset = "no" /\ ~s.finished
         /\ Plainly(maybe_close(stream_reset(k, o), o))

\* A byte of the answer goes into a packet; later every byte of it is acknowledged, or the
\* reset is gone.
sends ==
    \E o \in Live(x) :
      /\ ~x.closed /\ x.str[o].responded /\ ~x.str[o].sent /\ x.str[o].reset = "no"
      /\ Plainly([x EXCEPT !.str[o].sent = TRUE])

on_stream_sent ==
    \E o \in Live(x) :
      LET s == x.str[o]
          k == [x EXCEPT !.str[o].finished = TRUE, !.str[o].reset = IF s.reset = "due" THEN "sent" ELSE @]
      IN /\ ~x.closed /\ ~s.finished /\ (s.reset = "due" \/ (s.sent /\ s.reset = "no"))
         /\ Plainly(maybe_close(log_request(k, o), o))

\* Mutant: a completion is taken by whichever request has the object now.
Current_any(c) == x.str[c.o].req # 0

Current(c) == x.str[c.o].gen = c.gen

\* A password was checked: the request routes again, if it is still the object's.
auth_done ==
    \E c \in later :
      /\ c.kind = "auth" /\ UNCHANGED gens
      /\ LET r == IF Current(c) /\ ~x.closed THEN dispatch(x, c.o, TRUE) ELSE [k |-> x, asks |-> {}]
             own == [r.k EXCEPT !.answers = {IF a \in x.answers THEN a ELSE [a EXCEPT !.of = c.req] : a \in @}]
         IN x' = own /\ later' = (later \ {c}) \cup r.asks

\* An upstream answered.
upstream_done ==
    \E c \in later :
      /\ c.kind = "upstream" /\ later' = later \ {c} /\ UNCHANGED gens
      /\ x' = IF Current(c) /\ ~x.closed THEN respond([x EXCEPT !.str[c.o].upstream = FALSE], c.o, c.req) ELSE x
-----------------------------------------------------------------------------
(* The client's unidirectional streams                                        *)
Critical == {"control", "encoder", "decoder"}

\* A stream announces its type: each critical one once, a push stream never.
on_uni_data ==
    \E t \in Critical \cup {"push", "unknown"} :
      /\ ~x.closed /\ setting.streams
      /\ Plainly(IF t = "push" \/ t \in x.uni THEN connection_error(x)
                 ELSE IF t = "unknown" THEN refresh_generation(x)
                 ELSE [refresh_generation(x) EXCEPT !.uni = @ \cup {t}])

\* The first frame of the control stream is SETTINGS, and it is the only one.
control_frame ==
    \E settings \in BOOLEAN :
      /\ ~x.closed /\ "control" \in x.uni
      /\ Plainly(IF settings = x.settings THEN connection_error(x) ELSE [x EXCEPT !.settings = TRUE])

\* Inserts on the encoder stream: counted for the increment, and the blocked go on.
encoder_stream ==
    /\ ~x.closed /\ "encoder" \in x.uni /\ x.inserts < setting.inserts
    /\ Becomes(unblock_streams([k |-> [x EXCEPT !.inserts = @ + 1, !.ici_due = TRUE], asks |-> {}]))

before_produce ==
    /\ ~x.closed /\ x.ici_due
    /\ Plainly([x EXCEPT !.ici_due = FALSE])

\* A critical stream's end or reset.
uni_closed ==
    \E t \in x.uni :
      /\ ~x.closed /\ setting.streams
      /\ Plainly(connection_error(x))

\* The server goes: the first request it will not process is named, then the close.
shutdown ==
    /\ ~x.closed /\ setting.stops
    /\ Plainly(IF x.goaway = 0 THEN [x EXCEPT !.goaway = Cardinality(x.seen) + 1] ELSE on_closed(x))
-----------------------------------------------------------------------------
(* Generations                                                                *)
\* A reload switches the server, then each worker on its own loop.
reload == gens.server < setting.reloads /\ gens' = [gens EXCEPT !.server = @ + 1] /\ UNCHANGED <<x, later>>
worker_switches == gens.worker < gens.server /\ gens' = [gens EXCEPT !.worker = gens.server] /\ UNCHANGED <<x, later>>

Next ==
    /\ UNCHANGED setting
    /\ \/ on_new_stream \/ body_ends \/ on_stream_reset \/ on_stop_sending \/ sends \/ on_stream_sent
       \/ auth_done \/ upstream_done
       \/ on_uni_data \/ control_frame \/ encoder_stream \/ before_produce \/ uni_closed \/ shutdown
       \/ reload \/ worker_switches

Spec == Init /\ [][Next]_vars
-----------------------------------------------------------------------------
(* Properties                                                                 *)
\* An answer goes to the request it was made for, although stream objects are reused while
\* password checks and upstreams are under way (the count of reuses in dispatch's
\* completions).
AnswersAreOwn == \A a \in x.answers : a.to = a.of

\* A request whose headers were read is logged exactly once when it is over, by whichever
\* of the answer's end, the resets and the connection's end comes last, and never twice
\* (log_request, close_stream, on_closed).
LoggedWhenOver ==
    \A i \in Requests :
      /\ Len(x.logs[i]) <= 1
      /\ i \in x.seen \ x.cancelled /\ (\A o \in Live(x) : x.str[o].req # i) => Len(x.logs[i]) = 1
      /\ x.closed => \A o \in Live(x) : x.str[o].headers_done => x.str[o].logged

\* Every request is answered, reset, or something will come back for it: the inserts it
\* waits for are still missing, or a completion is under way; and the list of blocked
\* streams holds exactly those, within its limit.  A stream whose two sides are over is
\* closed, at least when its section never waited (block, unblock_streams, maybe_close).
NobodyForgotten ==
    /\ ~x.closed => \A o \in Live(x) : LET s == x.str[o] IN
         \/ s.responded \/ s.reset # "no"
         \/ s.blocked /\ s.required > x.inserts
         \/ \E c \in later : c.o = o /\ c.gen = s.gen
    /\ ~x.closed => \A o \in Live(x) : setting.needs[x.str[o].req] = 0 => ~(SendOver(x.str[o]) /\ x.str[o].recv_over)
    /\ ToSet(x.blocked) = {o \in Objects : x.str[o].blocked} /\ IsInjective(x.blocked)
    /\ Len(x.blocked) <= MaxBlocked

\* "A connection keeps the generation it is serving a request from alive": the generation
\* a request was routed in is held by the server, the worker or the connection.
GenerationHeld ==
    \A o \in Live(x) : x.str[o].site # NoSite /\ ~x.str[o].logged =>
      x.str[o].site \in {gens.server, gens.worker, x.gen}
=============================================================================
