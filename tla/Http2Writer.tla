---------------------------- MODULE Http2Writer ----------------------------
(* How the answers of one HTTP/2 connection are sent: Http2Writer             *)
(* (http2/writer.hpp) with the stream table and the handlers of               *)
(* Http2Connection (http2/connection.hpp) that open, answer, cut and close    *)
(* streams, and the pool of stream objects (http/stream_pool.hpp).            *)
(*                                                                            *)
(* A stream object serves one request after another, and the writer's lists   *)
(* refer to objects, so the objects are modelled, with their use counter gen. *)
(* Bytes are units; the frames of one stream in one cycle are one run of      *)
(* units.  A cycle is built stream by stream, and nothing else happens while  *)
(* it is built except what a body source answers inline.                      *)
EXTENDS Integers, Sequences, SequencesExt, FiniteSets, FiniteSetsExt

CONSTANTS
    Objects,       \* stream objects: max_concurrent_streams of them
    Chunk,         \* stream_chunk_size
    Quantum,       \* kQuantum
    MaxCycle,      \* kMaxCycleBytes
    Settings       \* the connections looked at, each a record of what follows

VARIABLES
    c,             \* the connection
    setting        \* its setting, which no step changes

MaxStreams == setting.streams     \* bound: requests on the connection
Bodies == setting.bodies          \* what may be answered: [kind, size, sized]
PullBudget == setting.pulls       \* kPullBudget
CopyMax == setting.copy_max       \* kCopyMax
Copies == setting.tls             \* TLS: every payload but a file's is copied
Windows == setting.windows        \* values of SETTINGS_INITIAL_WINDOW_SIZE
MaxWindow == setting.max_window   \* bound: no window is raised above it
Cuts == setting.cuts              \* streams may be cut: by a reset, by the idle clock
FilesShrink == setting.shrink     \* a file may turn out shorter than it was

Ids == 1 .. MaxStreams
Later == -1       \* a source answers a read after the cycle
Failed == -2      \* a source's read fails
Reads == {Later, Failed} \cup 0 .. Chunk

NoBody == [kind |-> "memory", size |-> 0, sized |-> FALSE]

\* H2Stream after reset(): the members of the response, and whether the table
\* holds it (active).  left: what its source has still to give.
Fresh(id, gen) ==
    [id |-> id, gen |-> gen, state |-> "idle", active |-> FALSE, awaited |-> FALSE,
     body |-> NoBody, head_sent |-> FALSE, finished |-> FALSE, sent |-> 0, chunk |-> 0,
     left |-> 0, source_done |-> FALSE, pulling |-> FALSE, window |-> 0,
     defer_release |-> FALSE, in_cycle |-> FALSE]

\* What the client saw of a request: its own account of the window in credit.
Unseen ==
    [at |-> "none", answered |-> FALSE, closed |-> FALSE, size |-> 0, data |-> 0, credit |-> 0]

Init ==
    /\ setting \in Settings
    /\ \E w \in Windows :
      c = [s |-> [o \in Objects |-> Fresh(0, 0)], opened |-> 0, initial |-> w,
           ready |-> <<>>, waiting |-> <<>>, ctl |-> FALSE, out |-> FALSE, bytes |-> 0,
           writing |-> FALSE, building |-> FALSE, rounds |-> 0, again |-> FALSE,
           holding |-> FALSE, posted |-> FALSE, finished |-> {}, inflight |-> {},
           refs |-> {}, pulls |-> 0, window |-> MaxWindow, credit |-> MaxWindow,
           wire |-> [i \in Ids |-> Unseen]]

-----------------------------------------------------------------------------
(* The lists and the frames                                                   *)

enqueue_silent(k, o) ==
    IF o \in Range(k.ready) \/ k.s[o].state = "closed" THEN k
    ELSE [k EXCEPT !.ready = Append(@, o)]

\* cycle() up to its loop: control frames go first.
cycle(k) ==
    [k EXCEPT !.building = TRUE, !.again = FALSE, !.rounds = Len(k.ready),
              !.finished = {}, !.inflight = {}, !.out = @ \/ k.ctl, !.ctl = FALSE]

schedule(k) ==
    IF k.holding \/ k.writing \/ k.building THEN [k EXCEPT !.again = TRUE] ELSE cycle(k)

\* Mutant: a closed stream is queued.
enqueue_closed_too(k, o) ==
    schedule(IF o \in Range(k.ready) THEN k ELSE [k EXCEPT !.ready = Append(@, o)])

enqueue(k, o) == IF k.s[o].state = "closed" THEN k ELSE schedule(enqueue_silent(k, o))

control(k) == schedule([k EXCEPT !.ctl = TRUE])

\* A stream that is not in the ready list is not looked for in the other one.
dequeue(k, o) ==
    IF o \notin Range(k.ready) THEN k
    ELSE [k EXCEPT !.ready = SelectSeq(@, LAMBDA p : p # o),
                   !.waiting = SelectSeq(@, LAMBDA p : p # o)]

\* A frame of request i goes into the cycle's buffer.
Frame(k, i, kind, n) ==
    LET v == k.wire[i]
        seen == CASE v.closed \/ ~v.answered \/ (kind = "head") # (v.at = "none") \/ v.at = "ended"
                       -> [v EXCEPT !.at = "wrong"]
                  [] n > 0 /\ (n > v.credit \/ n > k.credit) -> [v EXCEPT !.at = "overrun"]
                  [] OTHER -> [v EXCEPT !.at = IF kind = "end" THEN "ended" ELSE "head",
                                        !.data = @ + n, !.credit = @ - n]
    IN [k EXCEPT !.wire[i] = seen, !.credit = @ - n, !.out = TRUE]
-----------------------------------------------------------------------------
(* The streams                                                                *)
in_flight(k, o) == k.writing /\ k.s[o].in_cycle

\* Out of the table and, reset, into the pool; the id is left as it was.
release(k, o) ==
    IF k.s[o].active THEN [k EXCEPT !.s[o] = Fresh(@.id, @.gen + 1)] ELSE k

\* The stream takes no more frames; what it waits for is cancelled.
Closing(k, o) ==
    dequeue([k EXCEPT !.s[o].state = "closed", !.s[o].awaited = FALSE,
                      !.wire[k.s[o].id].closed = TRUE, !.wire[k.s[o].id].credit = 0], o)

\* Mutant: the object goes back although its bytes are being written.
close_stream_in_flight(k, o) ==
    IF k.s[o].state = "closed" THEN k
    ELSE IF k.s[o].pulling THEN [Closing(k, o) EXCEPT !.s[o].defer_release = TRUE]
    ELSE release(Closing(k, o), o)

close_stream(k, o) ==
    IF k.s[o].state = "closed" THEN k
    ELSE IF in_flight(k, o) \/ k.s[o].pulling
    THEN [Closing(k, o) EXCEPT !.s[o].defer_release = TRUE]
    ELSE release(Closing(k, o), o)

release_deferred(k, o) ==
    IF in_flight(k, o) \/ k.s[o].pulling THEN k
    ELSE release([k EXCEPT !.s[o].defer_release = FALSE], o)

\* RST_STREAM and the close, on a failed source and on a timeout.
on_stream_failed(k, o) == control(close_stream(k, o))

\* A small complete answer while the connection holds the writer.
Immediate(k, o) ==
    LET b == k.s[o].body
    IN /\ k.holding /\ ~k.writing /\ ~k.building /\ k.bytes < MaxCycle
       /\ b.kind = "memory" /\ b.size <= CopyMax
       /\ b.size > 0 => b.size <= k.s[o].window /\ b.size <= k.window

emit_now(k, o) ==
    LET n == k.s[o].body.size
        i == k.s[o].id
    IN [Frame(Frame(k, i, "head", 0), i, "end", n) EXCEPT
            !.window = @ - n, !.s[o].window = @ - n, !.bytes = @ + 1 + n, !.again = TRUE]

\* The response is filled: into the buffer and done with, or to the ready list.
respond(k, o, b) ==
    LET a == [k EXCEPT !.s[o].body = b, !.s[o].awaited = FALSE,
                       !.s[o].left = IF b.kind = "source" THEN b.size ELSE 0,
                       !.wire[k.s[o].id].answered = TRUE, !.wire[k.s[o].id].size = b.size]
    IN IF Immediate(a, o) THEN close_stream(emit_now(a, o), o) ELSE enqueue(a, o)
-----------------------------------------------------------------------------
(* One stream's part of a cycle                                               *)
\* Mutant: a failed read is taken for the end of the body.
on_pulled_failed_is_end(k, o, r) ==
    LET d == [k EXCEPT !.pulls = @ - 1, !.s[o].pulling = FALSE]
    IN IF d.s[o].state = "closed" THEN release_deferred(d, o)
       ELSE enqueue(IF r <= 0 THEN [d EXCEPT !.s[o].source_done = TRUE]
                    ELSE [d EXCEPT !.s[o].chunk = r, !.s[o].left = @ - r], o)

\* The answer of a read: the stream it was for may be closed by now.
on_pulled(k, o, r) ==
    LET d == [k EXCEPT !.pulls = @ - 1, !.s[o].pulling = FALSE]
    IN IF d.s[o].state = "closed" THEN release_deferred(d, o)
       ELSE IF r = Failed THEN on_stream_failed(d, o)
       ELSE enqueue(IF r = 0 THEN [d EXCEPT !.s[o].source_done = TRUE]
                    ELSE [d EXCEPT !.s[o].chunk = r, !.s[o].left = @ - r], o)

pull(k, o, r) ==
    IF k.s[o].body.sized /\ k.s[o].left = 0
    THEN enqueue_silent([k EXCEPT !.s[o].source_done = TRUE], o)
    ELSE LET d == [k EXCEPT !.s[o].pulling = TRUE, !.pulls = @ + 1]
         IN IF r = Later THEN d ELSE on_pulled(d, o, r)

Finished(k, o) ==
    [k EXCEPT !.s[o].finished = TRUE, !.finished = @ \cup {<<o, k.s[o].gen>>}]

\* n units of stream o, with END_STREAM or without.
Framed(k, o, n, kind) ==
    [Frame(k, k.s[o].id, kind, n) EXCEPT
        !.s[o].sent = @ + n, !.s[o].window = @ - n, !.window = @ - n, !.bytes = @ + n,
        !.s[o].chunk = IF k.s[o].body.kind = "source" THEN @ - n ELSE @,
        !.refs = IF n = 0 \/ (k.s[o].body.kind # "file" /\ (Copies \/ n <= CopyMax))
                 THEN @ ELSE @ \cup {o}]

SendHead(k, o) ==
    IF k.s[o].head_sent THEN k
    ELSE [Frame(k, k.s[o].id, "head", 0) EXCEPT !.s[o].head_sent = TRUE, !.bytes = @ + 1]

\* The chunk of a source is used up by its last n units: the end, or a read,
\* which waits for the write of bytes sent from the chunk itself, for the read
\* in flight, or for the budget.
NextRead(k, o, n, r) ==
    IF k.s[o].source_done THEN Finished(Framed(k, o, n, "end"), o)
    ELSE LET f == IF n > 0 THEN Framed(k, o, n, "data") ELSE k
         IN CASE n = Quantum -> enqueue_silent(f, o)
              [] n # Quantum /\ f.s[o].pulling -> f
              [] n # Quantum /\ ~f.s[o].pulling /\ o \in f.refs -> enqueue_silent(f, o)
              [] OTHER -> IF f.pulls >= PullBudget THEN [f EXCEPT !.waiting = Append(@, o)]
                          ELSE pull(f, o, r)

\* emit: the head, then units up to the quantum and the windows; Emit::more puts
\* the stream back to the end of the list.
emit(k, o, r) ==
    LET h == SendHead(k, o)
        b == k.s[o].body
        avail == IF b.kind = "source" THEN h.s[o].chunk ELSE b.size - h.s[o].sent
        n == Max({0, Min({avail, Quantum, h.s[o].window, h.window})})
        part == IF n > 0 THEN Framed(h, o, n, "data") ELSE h
    IN CASE b.kind # "source" /\ n = avail -> Finished(Framed(h, o, n, "end"), o)
         [] b.kind = "source" /\ n = avail -> NextRead(h, o, n, r)
         [] n < avail /\ n = Quantum -> enqueue_silent(part, o)
         [] OTHER -> part

\* The file shrank under the writer: the stream is cut inside the cycle, after
\* what was read of the file before.
Shrunk(k, o, n) ==
    LET h == SendHead(k, o)
    IN on_stream_failed(IF n > 0 THEN Framed(h, o, n, "data") ELSE h, o)

note_inflight(k, o) ==
    [k EXCEPT !.s[o].in_cycle = TRUE,
              !.inflight = IF k.s[o].in_cycle THEN @ ELSE @ \cup {<<o, k.s[o].gen>>}]
-----------------------------------------------------------------------------
(* The steps                                                                  *)
Loop == ~c.building /\ ~c.holding

\* The loop of cycle(): the next ready stream, once each.
Turn(k, before, o) == IF k.bytes > before \/ k.inflight # {} THEN note_inflight(k, o) ELSE k

Going == c.building /\ c.rounds > 0 /\ c.bytes < MaxCycle /\ c.ready # <<>>

Popped == [c EXCEPT !.rounds = @ - 1, !.ready = Tail(@)]

\* What a read of o's source may answer inline.
Answerable(k, o, r) ==
    \/ r \in {Later, Failed}
    \/ r = 0 /\ k.s[o].left = 0
    \/ r > 0 /\ r <= k.s[o].left

emit_ready(r) ==
    LET o == c.ready[1] IN
    /\ Going /\ Answerable(c, o, r)
    /\ c' = Turn(emit(Popped, o, r), c.bytes, o)

emit_shrunk(n) ==
    LET o == c.ready[1]
        b == c.s[o].body
    IN /\ Going /\ FilesShrink /\ b.kind = "file"
       /\ n < Min({b.size - c.s[o].sent, Quantum, c.s[o].window, c.window})
       /\ c' = Turn(Shrunk(Popped, o, n), c.bytes, o)

\* The rest of cycle(): the write, or nothing to write.
cycle_end ==
    LET b == [c EXCEPT !.building = FALSE]
    IN /\ c.building /\ ~Going
       /\ c' = IF c.out THEN [b EXCEPT !.writing = TRUE]
               ELSE IF c.again THEN schedule(b) ELSE b

Landed(k, e) == [k EXCEPT !.s[e[1]].in_cycle = FALSE]

Freed(k, e) ==
    IF k.s[e[1]].gen = e[2] /\ k.s[e[1]].defer_release THEN release_deferred(k, e[1]) ELSE k

\* on_stream_written: the request had arrived whole, so the stream is closed.
Ended(k, e) ==
    IF k.s[e[1]].gen = e[2] /\ ~k.s[e[1]].defer_release THEN close_stream(k, e[1]) ELSE k

\* Mutant: deferred releases are left to the reads.
Completed_without_freeing(k) ==
    LET landed == FoldSet(LAMBDA e, a : Landed(a, e), k, k.inflight)
    IN FoldSet(LAMBDA e, a : Ended(a, e), landed, k.finished)

\* The callbacks of a completed write.
Completed(k) ==
    LET landed == FoldSet(LAMBDA e, a : Landed(a, e), k, k.inflight)
        freed == FoldSet(LAMBDA e, a : Freed(a, e), landed, k.inflight)
    IN FoldSet(LAMBDA e, a : Ended(a, e), freed, k.finished)


\* The reads that waited for the budget.
Rejoin(k) ==
    IF k.pulls < PullBudget
    THEN [FoldLeft(enqueue_silent, k, k.waiting) EXCEPT !.waiting = <<>>] ELSE k

\* on_written.  After some cycles completed inline the next one is posted.
on_written(post) ==
    LET w == [c EXCEPT !.writing = FALSE, !.out = FALSE, !.bytes = 0, !.refs = {}]
        d == [Completed(w) EXCEPT !.finished = {}, !.inflight = {}]
        q == Rejoin(d)
    IN /\ c.writing /\ Loop
       /\ IF q.again \/ q.ready # <<>> \/ q.ctl
          THEN c' = IF post THEN [q EXCEPT !.posted = TRUE] ELSE cycle(q)
          ELSE ~post /\ c' = q

posted ==
    /\ c.posted /\ Loop
    /\ c' = schedule([c EXCEPT !.posted = FALSE])

pulled(o, r) ==
    /\ c.s[o].pulling /\ Loop
    /\ r # Later /\ Answerable(c, o, r)
    /\ c' = on_pulled(c, o, r)

\* An upstream's answer, a verified password: later than the request's frames.
answer(o, b) ==
    /\ c.s[o].awaited /\ Loop
    /\ c' = respond(c, o, b)

\* check_timeouts finds a response without progress.
cut(o) ==
    /\ Cuts /\ Loop
    /\ c.s[o].state = "open" /\ c.s[o].head_sent /\ ~c.s[o].finished /\ ~c.s[o].pulling
    /\ c' = on_stream_failed(c, o)

\* A read of frames: the writer is held from its first frame to its last.
Held == [c EXCEPT !.holding = TRUE]

end_read ==
    LET h == [c EXCEPT !.holding = FALSE]
    IN /\ c.holding
       /\ c' = IF c.again THEN schedule(h) ELSE h

\* An object of the pool, a new one when the pool is empty.
Pooled == {o \in Objects : ~c.s[o].active /\ c.s[o].id # 0}

take == IF Pooled # {} THEN Pooled ELSE {CHOOSE o \in Objects : ~c.s[o].active}

\* A request that is within the concurrency limit, answered at once or later.
on_headers(o, b, now) ==
    LET i == c.opened + 1
        k == [Held EXCEPT !.opened = i, !.wire[i].credit = c.initial,
                       !.s[o].id = i, !.s[o].state = "open", !.s[o].active = TRUE,
                       !.s[o].awaited = TRUE, !.s[o].window = c.initial]
    IN /\ ~c.building /\ ~c.s[o].active /\ o \in take /\ c.opened < MaxStreams
       /\ IF now THEN c' = respond(k, o, b) ELSE b = NoBody /\ c' = k

Answering(k, o) == k.s[o].active /\ k.s[o].head_sent /\ ~k.s[o].finished

on_window_update(o, n) ==
    LET i == c.s[o].id
        k == [Held EXCEPT !.s[o].window = @ + n,
                          !.wire[i].credit = IF c.wire[i].closed THEN @ ELSE @ + n]
    IN /\ ~c.building /\ c.s[o].active /\ k.s[o].window <= MaxWindow
       /\ c' = IF Answering(k, o) THEN enqueue(k, o) ELSE k

Open(k, o) == Answering(k, o) /\ k.s[o].window > 0

\* The table's order is the order of the queue: any, here the objects' own.
EnqueueAll(k, os) == FoldSet(LAMBDA o, a : enqueue(a, o), k, os)

on_conn_window_update(n) ==
    LET k == [Held EXCEPT !.window = @ + n, !.credit = @ + n]
    IN /\ ~c.building /\ k.window <= MaxWindow
       /\ c' = EnqueueAll(k, {o \in Objects : Open(k, o)})

\* Mutant: streams that are not answered yet keep the old window.
Moved_answering_only(k, o, delta) ==
    IF k.s[o].head_sent THEN k.s[o].window + delta ELSE k.s[o].window

Moved(k, o, delta) == k.s[o].window + delta

\* SETTINGS_INITIAL_WINDOW_SIZE: every stream's window moves by the difference.
on_settings(w) ==
    LET delta == w - c.initial
        k == [Held EXCEPT !.initial = w,
                !.s = [o \in Objects |-> IF c.s[o].active
                        THEN [c.s[o] EXCEPT !.window = Moved(c, o, delta)] ELSE c.s[o]],
                !.wire = [i \in Ids |-> IF i <= c.opened /\ ~c.wire[i].closed
                        THEN [c.wire[i] EXCEPT !.credit = @ + delta] ELSE c.wire[i]]]
    IN /\ ~c.building /\ delta # 0
       /\ \A o \in Objects : k.s[o].window <= MaxWindow
       /\ c' = control(EnqueueAll(k, {o \in Objects : Open(k, o)}))

on_rst_stream(o) ==
    /\ Cuts /\ ~c.building /\ c.s[o].active
    /\ c' = close_stream(Held, o)

Next ==
    /\ UNCHANGED setting
    /\ \/ \E r \in Reads : emit_ready(r)
       \/ \E n \in 0 .. Quantum : emit_shrunk(n)
       \/ cycle_end
       \/ \E post \in BOOLEAN : on_written(post)
       \/ posted
       \/ \E o \in Objects, r \in Reads : pulled(o, r)
       \/ \E o \in Objects, b \in Bodies : answer(o, b)
       \/ \E o \in Objects : cut(o)
       \/ end_read
       \/ \E o \in Objects, b \in Bodies \cup {NoBody}, now \in BOOLEAN : on_headers(o, b, now)
       \/ \E o \in Objects, n \in 1 .. 2 : on_window_update(o, n)
       \/ \E n \in 1 .. 2 : on_conn_window_update(n)
       \/ \E w \in Windows : on_settings(w)
       \/ \E o \in Objects : on_rst_stream(o)

vars == <<c, setting>>

Spec == Init /\ [][Next]_vars
-----------------------------------------------------------------------------
(* Properties                                                                 *)
StreamType ==
    [id : 0 .. MaxStreams, gen : 0 .. MaxStreams, state : {"idle", "open", "closed"},
     active : BOOLEAN, awaited : BOOLEAN, body : Bodies \cup {NoBody}, head_sent : BOOLEAN,
     finished : BOOLEAN, sent : Nat, chunk : 0 .. Chunk, left : Nat, source_done : BOOLEAN,
     pulling : BOOLEAN, window : Int, defer_release : BOOLEAN, in_cycle : BOOLEAN]

\* The members of the connection, the writer and the streams have their types,
\* and the ready list holds no stream twice (http2/writer.hpp in_ready).
TypeOK ==
    /\ c.s \in [Objects -> StreamType]
    /\ c.opened \in 0 .. MaxStreams /\ c.initial \in Windows
    /\ Range(c.ready) \cup Range(c.waiting) \subseteq Objects /\ IsInjective(c.ready)
    /\ \A q \in {c.finished, c.inflight} : q \subseteq Objects \X (0 .. MaxStreams)
    /\ c.pulls \in 0 .. Cardinality(Objects) /\ c.bytes \in Nat

\* On every stream HEADERS go out once, first, and only once the request has
\* its answer; nothing follows END_STREAM; and nothing goes out on a stream
\* that is closed, whichever request its pooled object serves by then
\* (writer.hpp enqueue, emit; connection.hpp close_stream, respond).
InOrder == \A i \in Ids : c.wire[i].at # "wrong"

\* The same where the budget lets every stream read at once.  A stream that
\* ends while the waiting list holds it refutes InOrder (writer.hpp dequeue).
FramesInOrder == Cardinality(Objects) <= PullBudget => InOrder

\* No DATA beyond the stream's or the connection's window as the client counts
\* them, through WINDOW_UPDATE, a shrinking SETTINGS_INITIAL_WINDOW_SIZE and
\* pooled objects (writer.hpp emit, emit_now; connection.hpp on_settings).
WithinWindows == \A i \in Ids : c.wire[i].at # "overrun"

\* END_STREAM follows the whole body and no more: never after a part of it,
\* however reads, cycles and windows cut it up (writer.hpp emit, pull).
WholeBody == \A i \in Ids : c.wire[i].at = "ended" => c.wire[i].data = c.wire[i].size

Underway(o) ==
    c.s[o].state = "open" /\ c.wire[c.s[o].id].answered /\ ~c.s[o].finished

\* A closed stream that keeps its place in the table waits for a read or a
\* write that will release it: the concurrency limit is never used up by dead
\* streams (connection.hpp close_stream, release_deferred).
DeadStreamsLeave ==
    \A o \in Objects : c.s[o].active /\ c.s[o].state = "closed" =>
        c.s[o].defer_release /\ (c.s[o].pulling \/ in_flight(c, o))

\* The bytes a cycle sends from where they are stay put until they are written:
\* no read fills the chunk (writer.hpp emit: chunk_referenced, pulling), and the
\* object is not given to another stream (writer.hpp in_flight: "its buffers
\* must live on").  A file that shrinks under the writer refutes the second
\* part, so those settings are left out of it.
BuffersLiveOn ==
    \A o \in c.refs : ~c.s[o].pulling /\ (c.writing /\ ~FilesShrink => c.s[o].active)

CycleComes == c.building \/ c.writing \/ c.holding \/ c.posted

\* Something comes back for whatever is not sent: a cycle for the ready
\* streams, the control frames and the buffer; and for an answer that is not at
\* its end its place in the ready list, its read in flight, a window to be
\* granted, or, in the waiting list, a write or a read in flight that will look
\* there (writer.hpp schedule, cycle, emit, pull, on_written; connection.hpp
\* on_window_update).
NoneStranded ==
    /\ ~CycleComes => c.ready = <<>> /\ ~c.ctl /\ ~c.out
    /\ \A o \in Objects : Underway(o) =>
          \/ o \in Range(c.ready) \/ c.s[o].pulling
          \/ c.s[o].window <= 0 \/ c.window <= 0
          \/ o \in Range(c.waiting) /\ (CycleComes \/ c.pulls > 0)
=============================================================================
