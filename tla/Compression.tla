--------------------------- MODULE Compression ---------------------------
(* The answers one worker compresses in pieces (src/handlers/                 *)
(* compressed_body.cpp): each a body the writer pulls, over an encoder taken  *)
(* from the worker's pool (src/compress.cpp) and a source that is memory, a   *)
(* spilled file or the exchange with the application.                         *)
(*                                                                            *)
(* A body is a sequence of units, an encoder a queue of the units it took and *)
(* has not written yet.  drive() is a loop that runs inside one call: one     *)
(* step of the model is one turn of it, and nothing else of the worker runs   *)
(* until it answers the writer or waits for the application (s.driving).  A   *)
(* writer that is answered inside the call may read again before the loop     *)
(* turns (s.chain).                                                           *)
EXTENDS Integers, Sequences, FiniteSetsExt, SequencesExt

CONSTANT Settings

VARIABLES
    s,         \* the worker: its encoder pool and its answers
    setting

vars == <<s, setting>>

Answers == DOMAIN setting.answers

Asked(a) == setting.answers[a]

NoSlot == [coding |-> "none", kind |-> "none", level |-> 0, charge |-> 0, held |-> 0]

\* The members of CompressedBody and of its StreamEncoder, with what the encoder
\* still has to write before the data (pad) and holds of it (queue); the exchange
\* behind a stream: what it has pending, whether the pull waits in it, how much
\* the application sent; and the client's side: the units it can decode.
Unbegun ==
    [phase |-> "new", slot |-> NoSlot, pad |-> 0, queue |-> <<>>, in |-> <<>>, pos |-> 0,
     source_done |-> FALSE, unflushed |-> FALSE, finished |-> FALSE, op |-> "none", marked |-> FALSE,
     reading |-> FALSE, room |-> 0, made |-> <<>>, taken |-> 0, since_yield |-> 0, posted |-> FALSE,
     pulling |-> FALSE, have_pull |-> FALSE, pulled |-> <<>>, pull_failed |-> FALSE, remaining |-> 0,
     pending |-> <<>>, sent |-> 0, exchange |-> "open", waiter |-> FALSE, got |-> <<>>, late |-> FALSE]

Init ==
    /\ setting \in Settings
    /\ s = [charged |-> 0, free |-> <<>>, taken |-> FALSE, active |-> 0, over_budget |-> 0,
            driving |-> 0, chain |-> 0, turn |-> 0, a |-> [i \in Answers |-> Unbegun]]

Least(m, n) == IF m < n THEN m ELSE n

Most(m, n) == IF m > n THEN m ELSE n

Past(q, n) == SubSeq(q, n + 1, Len(q))

Put(k, i, b) == [k EXCEPT !.a[i] = b]

\* Between two events of the worker's loop.
Idle(k) == k.driving = 0 /\ k.chain = 0

-----------------------------------------------------------------------------
(* The encoders of the worker: StreamEncoder and its pool.                    *)

\* A kept encoder of the coding, kind and level asked for, or a new one: its
\* place among the free ones, 0 for none.
kept(k, i) ==
    LET like == {j \in DOMAIN k.free : /\ k.free[j].coding = Asked(i).coding
                                       /\ k.free[j].kind = Asked(i).kind
                                       /\ k.free[j].level = Asked(i).level}
    IN IF like = {} THEN 0 ELSE Min(like)

\* The encoder as it begins, charged the estimate or what it holds already.
\* Mutant: a kept encoder is charged the estimate alone.
fresh_estimate(k, i, j) ==
    [coding |-> Asked(i).coding, kind |-> Asked(i).kind, level |-> Asked(i).level,
     charge |-> Asked(i).estimate, held |-> IF j = 0 THEN 0 ELSE k.free[j].held]

fresh(k, i, j) ==
    [coding |-> Asked(i).coding, kind |-> Asked(i).kind, level |-> Asked(i).level,
     charge |-> Most(Asked(i).estimate, IF j = 0 THEN 0 ELSE k.free[j].held),
     held |-> IF j = 0 THEN 0 ELSE k.free[j].held]

begin(k, i, j) ==
    [k EXCEPT !.free = IF j = 0 THEN @ ELSE RemoveAt(@, j),
              !.charged = @ + fresh(k, i, j).charge, !.taken = TRUE, !.active = @ + 1,
              !.a[i] = [@ EXCEPT !.phase = "body", !.slot = fresh(k, i, j), !.pad = Asked(i).padding,
                                 !.in = IF Asked(i).from = "memory" THEN Asked(i).body ELSE <<>>,
                                 !.remaining = Asked(i).declared]]

\* The library cannot set the encoder up: nothing is charged, a kept one is gone.
failed(k, i, j) == [k EXCEPT !.free = IF j = 0 THEN @ ELSE RemoveAt(@, j), !.a[i].phase = "plain"]

\* ~StreamEncoder: the charge given back, the encoder kept or freed (brotli's
\* state always).
Given(t) == IF t.coding = "br" THEN [t EXCEPT !.charge = 0, !.held = 0] ELSE [t EXCEPT !.charge = 0]


released(k, i) ==
    LET t == k.a[i].slot
    IN [k EXCEPT !.charged = @ - Least(@, t.charge), !.active = @ - 1,
                 !.free = IF Len(@) < setting.keep THEN Append(@, Given(t)) ELSE @]

\* The budget counts what the library holds, once it is more than the charge.
\* Mutant: only the encoder's own charge grows.
grown_alone(k, i) ==
    IF Asked(i).memory <= k.a[i].slot.charge
    THEN Put(k, i, [k.a[i] EXCEPT !.slot.held = Asked(i).memory])
    ELSE Put(k, i, [k.a[i] EXCEPT !.slot.held = Asked(i).memory, !.slot.charge = Asked(i).memory])

grown(k, i) ==
    IF Asked(i).memory <= k.a[i].slot.charge
    THEN Put(k, i, [k.a[i] EXCEPT !.slot.held = Asked(i).memory])
    ELSE Put([k EXCEPT !.charged = @ + Asked(i).memory - k.a[i].slot.charge], i,
             [k.a[i] EXCEPT !.slot.held = Asked(i).memory, !.slot.charge = Asked(i).memory])

\* ~CompressedBody: a pull in flight is abandoned, the encoder given back.
\* Mutant: the exchange keeps the handler of a body that is gone.
destroyed_waiting(k, i, phase) ==
    Put(released(k, i), i, [k.a[i] EXCEPT !.phase = phase, !.slot = NoSlot, !.reading = FALSE,
                                          !.posted = FALSE, !.pulling = FALSE])

destroyed(k, i, phase) ==
    Put(released(k, i), i, [k.a[i] EXCEPT !.phase = phase, !.slot = NoSlot, !.reading = FALSE,
                                          !.posted = FALSE, !.pulling = FALSE,
                                          !.waiter = @ /\ ~k.a[i].pulling])

-----------------------------------------------------------------------------
(* One call of the coding's library.                                          *)

\* What goes before the data: the padding, as far as there is room.
padded(b) == LET n == Least(b.pad, b.room) IN [b EXCEPT !.pad = @ - n, !.room = @ - n]

\* n units leave the encoder for the writer's buffer.
emitted(b, n) == [b EXCEPT !.made = @ \o SubSeq(b.queue, 1, n), !.queue = Past(@, n), !.room = @ - n]

\* process: it takes what it is given unless the room is filled, and writes any
\* part of what it holds, at least what passes its window.
Process(b, give) ==
    IF b.pad > 0 THEN {b}
    ELSE {emitted([b EXCEPT !.queue = @ \o SubSeq(b.in, 1, u), !.in = Past(@, u),
                            !.taken = @ + u, !.unflushed = @ \/ u > 0], n) :
          <<u, n>> \in {p \in (0 .. give) \X (0 .. b.room) :
                          /\ p[2] <= Len(b.queue) + p[1]
                          /\ p[1] < give => p[2] = b.room
                          /\ Len(b.queue) + p[1] - p[2] > setting.window => p[2] = b.room}}

\* flush and finish: everything it holds, then the mark that ends them, as far
\* as there is room.  zlib's flush is done only when room is left after it.
Marked(b) == IF b.room > 0 /\ ~b.marked THEN [b EXCEPT !.room = @ - 1, !.marked = TRUE] ELSE b

Drained(b) ==
    IF b.pad > 0 THEN b
    ELSE LET c == emitted(b, Least(Len(b.queue), b.room))
         IN IF c.queue = <<>> THEN Marked(c) ELSE c

Done(i, b) ==
    /\ b.marked
    /\ b.op = "flush" /\ Asked(i).coding = "gzip" => b.room > 0

-----------------------------------------------------------------------------
(* CompressedBody.                                                            *)

\* complete: the read is answered with what was made, inside the call or, after
\* a yield's worth of input, through the loop.
Spent(b) == [b EXCEPT !.since_yield = @ + b.taken, !.taken = 0]

\* Mutant: a read always answers inside the call.
Yields_never(b) == FALSE

Yields(b) == b.since_yield >= setting.yield_input

\* The writer's handler: bytes go on to the client, none ends the answer.
handler(k, i, b) ==
    IF b.made = <<>> /\ b.room = setting.room
    THEN destroyed(Put(k, i, b), i, "ended")
    ELSE Put(k, i, [b EXCEPT !.got = @ \o b.made, !.made = <<>>, !.reading = FALSE])

complete(k, i, b) ==
    IF Yields(Spent(b))
    THEN Put([k EXCEPT !.driving = 0], i, [Spent(b) EXCEPT !.since_yield = 0, !.posted = TRUE])
    ELSE [handler(k, i, Spent(b)) EXCEPT !.driving = 0,
                 !.chain = IF b.made = <<>> /\ b.room = setting.room THEN 0 ELSE i]

\* An error: the writer closes the connection, and the client sees a short body.
cut(k, i, b) == [destroyed(Put(k, i, b), i, "cut") EXCEPT !.driving = 0]

Open(b, op) == [b EXCEPT !.op = op, !.marked = FALSE]

\* A flush or finish in progress.
AfterOp(k, i, b) ==
    IF ~Done(i, b) THEN (IF b.room < setting.room THEN complete(k, i, b) ELSE cut(k, i, b))
    ELSE IF b.op = "finish" THEN complete(k, i, [b EXCEPT !.op = "none", !.finished = TRUE])
    ELSE IF b.room < setting.room THEN complete(k, i, [b EXCEPT !.op = "none", !.unflushed = FALSE])
    ELSE Put(k, i, [b EXCEPT !.op = "none", !.unflushed = FALSE])

RunOp(k, i, b) ==
    IF b.room < setting.flush_room /\ b.room < setting.room THEN complete(k, i, b)
    ELSE AfterOp(grown(k, i), i, [Drained(padded(b)) EXCEPT !.slot = grown(k, i).a[i].slot])

\* Input waits: one piece of it.
AfterProcess(k, i, b, c) ==
    IF c.room = 0 THEN complete(k, i, c)
    ELSE IF c.taken = b.taken /\ c.room = b.room THEN cut(k, i, c)
    ELSE Put(k, i, c)

RunPiece(k, i, b) ==
    IF b.taken >= setting.capacity /\ b.room < setting.room
    THEN {complete(k, i, b)}
    ELSE {AfterProcess([grown(k, i) EXCEPT !.turn = @ + c.taken - b.taken], i, b,
                       [c EXCEPT !.slot = grown(k, i).a[i].slot])
          : c \in Process(padded(b), Least(Len(b.in), setting.capacity))}

\* The exchange answers the pull with what it has, its end or its error.
Capped(b, i, q) == IF Asked(i).sized THEN SubSeq(q, 1, Least(Len(q), b.remaining)) ELSE q

satisfied(b, i, want) ==
    LET n == Least(want, Len(b.pending))
        q == Capped(b, i, SubSeq(b.pending, 1, n))
    IN [b EXCEPT !.pending = Past(@, n), !.pulling = FALSE, !.waiter = FALSE, !.have_pull = TRUE,
                 !.pulled = q, !.pull_failed = b.pending = <<>> /\ b.exchange = "failed",
                 !.remaining = @ - Len(q)]

ready(b) == b.pending # <<>> \/ b.exchange # "open"

Want(b, i) == IF Asked(i).sized THEN Least(setting.capacity, b.remaining) ELSE setting.capacity

pull_source(k, i, b) ==
    IF ready(b) THEN Put(k, i, satisfied(b, i, Want(b, i)))
    ELSE Put([k EXCEPT !.driving = 0], i, [b EXCEPT !.pulling = TRUE, !.waiter = TRUE])

\* What a pull brought.
\* Mutant: a source that ends short of what it declared ends the answer.
TakePull_short(k, i, b) ==
    IF b.pull_failed THEN cut(k, i, [b EXCEPT !.have_pull = FALSE])
    ELSE IF b.pulled = <<>> THEN Put(k, i, [b EXCEPT !.have_pull = FALSE, !.source_done = TRUE])
    ELSE Put(k, i, [b EXCEPT !.have_pull = FALSE, !.in = b.pulled, !.pulled = <<>>])

TakePull(k, i, b) ==
    IF b.pull_failed THEN cut(k, i, [b EXCEPT !.have_pull = FALSE])
    ELSE IF b.pulled = <<>>
         THEN IF Asked(i).sized /\ b.remaining > 0 THEN cut(k, i, [b EXCEPT !.have_pull = FALSE])
              ELSE Put(k, i, [b EXCEPT !.have_pull = FALSE, !.source_done = TRUE])
    ELSE Put(k, i, [b EXCEPT !.have_pull = FALSE, !.in = b.pulled, !.pulled = <<>>])

\* The next input: of a file, a piece as long as it has not shrunk; of the
\* application, flushing first what was compressed when it has nothing ready.
FromFile(k, i, b) ==
    IF b.pos >= Asked(i).declared THEN Put(k, i, [b EXCEPT !.source_done = TRUE])
    ELSE LET q == SubSeq(Asked(i).body, b.pos + 1,
                         Least(b.pos + Least(setting.capacity, Asked(i).declared - b.pos), Len(Asked(i).body)))
         IN IF q = <<>> THEN cut(k, i, b) ELSE Put(k, i, [b EXCEPT !.pos = @ + Len(q), !.in = q])

\* Mutant: what was compressed waits for more of the application.
FromStream_unflushed(k, i, b) ==
    IF b.have_pull THEN TakePull(k, i, b)
    ELSE IF Asked(i).sized /\ b.remaining = 0 THEN Put(k, i, [b EXCEPT !.source_done = TRUE])
    ELSE IF ~ready(b) /\ b.room < setting.room THEN complete(k, i, b)
    ELSE pull_source(k, i, b)

FromStream(k, i, b) ==
    IF b.have_pull THEN TakePull(k, i, b)
    ELSE IF Asked(i).sized /\ b.remaining = 0 THEN Put(k, i, [b EXCEPT !.source_done = TRUE])
    ELSE IF ~ready(b) /\ b.unflushed THEN Put(k, i, Open(b, "flush"))
    ELSE IF ~ready(b) /\ b.room < setting.room THEN complete(k, i, b)
    ELSE pull_source(k, i, b)

\* One turn of the loop.
drive(k, i, b) ==
    IF b.op # "none" THEN {RunOp(k, i, b)}
    ELSE IF b.finished THEN {complete(k, i, b)}
    ELSE IF b.in # <<>> THEN RunPiece(k, i, b)
    ELSE {IF b.source_done THEN Put(k, i, Open(b, "finish"))
          ELSE IF Asked(i).from = "memory" THEN Put(k, i, [b EXCEPT !.source_done = TRUE])
          ELSE IF Asked(i).from = "file" THEN FromFile(k, i, b)
          ELSE FromStream(k, i, b)}

-----------------------------------------------------------------------------
(* Actions.                                                                   *)

\* apply_upstream_result with Reason::pieces: the encoder before the head; past
\* the budget the answer goes out as it came.
Fits(k, i) == k.charged + Asked(i).estimate <= setting.budget

Begin(i) ==
    /\ Idle(s) /\ s.a[i].phase = "new"
    /\ IF Fits(s, i) THEN s' \in {begin(s, i, kept(s, i)), failed(s, i, kept(s, i))}
       ELSE s' = [s EXCEPT !.over_budget = @ + 1, !.a[i].phase = "plain"]

\* The writer reads: from an event of its own, or inside the answer of the last.
async_read(k, i) ==
    [k EXCEPT !.driving = i, !.chain = 0,
              !.a[i] = [@ EXCEPT !.reading = TRUE, !.room = setting.room, !.taken = 0]]

Readable(b) == b.phase = "body" /\ ~b.reading

Read(i) == Idle(s) /\ Readable(s.a[i]) /\ s' = [async_read(s, i) EXCEPT !.turn = 0]

ReadOn == s.driving = 0 /\ s.chain # 0 /\ s' = async_read(s, s.chain)

\* The socket takes no more: the loop turns.
Wait == s.driving = 0 /\ s.chain # 0 /\ s' = [s EXCEPT !.chain = 0, !.turn = 0]

Drive == s.driving # 0 /\ s' \in drive(s, s.driving, s.a[s.driving])

\* The posted handler of a read that yielded.
Posted(i) ==
    /\ Idle(s) /\ s.a[i].posted
    /\ s' = [handler([s EXCEPT !.turn = 0], i, [s.a[i] EXCEPT !.posted = FALSE])
                 EXCEPT !.chain = IF s.a[i].made = <<>> /\ s.a[i].room = setting.room THEN 0 ELSE i]

\* The application sends its next unit, or ends, or fails; a waiting pull is
\* answered and the loop of its body resumes.
Answered(k, i) ==
    IF k.a[i].phase = "body" /\ k.a[i].waiter
    THEN [Put(k, i, satisfied(k.a[i], i, Want(k.a[i], i))) EXCEPT !.driving = i, !.turn = 0]
    ELSE IF k.a[i].waiter THEN [k EXCEPT !.a[i].late = TRUE, !.a[i].waiter = FALSE]
    ELSE k

Alive(b) == b.phase = "body" \/ b.waiter

Sends(i) ==
    /\ Idle(s) /\ Asked(i).from = "stream" /\ Alive(s.a[i])
    /\ s.a[i].exchange = "open" /\ s.a[i].sent < Len(Asked(i).body)
    /\ s' = Answered([s EXCEPT !.a[i] = [@ EXCEPT !.sent = @ + 1,
                                                  !.pending = Append(@, Asked(i).body[s.a[i].sent + 1])]], i)

Ends(i) ==
    /\ Idle(s) /\ Asked(i).from = "stream" /\ Alive(s.a[i]) /\ s.a[i].exchange = "open"
    /\ \E how \in {"finished", "failed"} :
         /\ how = "finished" => s.a[i].sent = Len(Asked(i).body)
         /\ s' = Answered([s EXCEPT !.a[i].exchange = how], i)

\* The connection closes: the client is gone, or a timeout passed.
Closes(i) == Idle(s) /\ s.a[i].phase = "body" /\ s' = destroyed(s, i, "gone")

\* arm_flush's second: the free encoders of a worker that took none since the last.
release_idle_encoders ==
    /\ Idle(s) /\ (s.taken \/ s.free # <<>>)
    /\ s' = IF s.taken THEN [s EXCEPT !.taken = FALSE] ELSE [s EXCEPT !.free = <<>>]

Next ==
    /\ UNCHANGED setting
    /\ \/ \E i \in Answers : Begin(i) \/ Read(i) \/ Posted(i) \/ Sends(i) \/ Ends(i) \/ Closes(i)
       \/ ReadOn \/ Wait \/ Drive \/ release_idle_encoders

Spec == Init /\ [][Next]_vars

-----------------------------------------------------------------------------
(* Properties.                                                                *)

TypeOK ==
    /\ s.charged \in Nat /\ s.active \in 0 .. Len(setting.answers)
    /\ \A i \in Answers : s.a[i].room \in 0 .. setting.room

\* The client decodes what the application sent, in its order, and an answer
\* that ends ended whole: never a false end after a cut or a short source
\* (compressed_body.cpp:95 "never a false end").
Exact ==
    \A i \in Answers : LET b == s.a[i] IN
        /\ IsPrefix(b.got, Asked(i).body)
        /\ b.phase = "ended" => Len(b.got) = Asked(i).declared

\* While the answer waits for the application, the client has everything the
\* application sent so far (compressed_body.hpp: each server-sent event reaches
\* the client as it was sent).
Prompt ==
    \A i \in Answers : LET b == s.a[i] IN
        b.phase = "body" /\ b.waiter => b.got = SubSeq(Asked(i).body, 1, b.sent)

\* What the budget counts is what the encoders in use hold, whatever path ended
\* their answers, and the pool keeps no more than its few.
Accounted ==
    /\ s.charged = MapThenSumSet(LAMBDA i : s.a[i].slot.charge, Answers)
    /\ s.active = Cardinality({i \in Answers : s.a[i].phase = "body"})
    /\ Len(s.free) <= setting.keep
    /\ \A i \in Answers : s.a[i].slot.held <= s.a[i].slot.charge

\* A body that is gone is never called back, nor its buffer written to.
NeverLate == \A i \in Answers : ~s.a[i].late

\* One turn of the loop compresses at most a yield's worth and what one read
\* may add to it.
TurnBounded == s.turn <= setting.yield_input + setting.capacity + setting.window

CompressionStep == (TypeOK /\ Exact /\ Prompt /\ Accounted /\ NeverLate /\ TurnBounded)'

=============================================================================
