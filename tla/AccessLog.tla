------------------------------ MODULE AccessLog ------------------------------
(* The log files (services/log.cpp, server.cpp): one sink per path, written by *)
(* every worker from buffers of its own, reopened by worker 0 after logrotate  *)
(* renamed the files, added and dropped by reloads, and opened below the log   *)
(* directory by a walk that follows no link.  A write loads the sink's         *)
(* descriptor and uses it later, while worker 0 may reopen the sink: the       *)
(* descriptor replaced is closed at the reopen after that.                     *)
EXTENDS Integers, Sequences, FiniteSets, FiniteSetsExt, SequencesExt

CONSTANTS Settings      \* the situations looked at

VARIABLES
    s,        \* the process and the disk
    setting   \* the situation, which no step changes

vars == <<s, setting>>

Workers == 0 .. setting.workers - 1
Paths == DOMAIN setting.dirs              \* the logs, each with the directories it is below
Idle == [sink |-> 0, fd |-> 0, n |-> 0, reopens |-> 0]
NoGen == {"none"}                          \* no generation prepared
-----------------------------------------------------------------------------
(* The walk.  A layout says what stands at the log directory, at each directory below it, and *)
(* at the log itself.                                                                         *)
Kinds == {"missing", "regular", "link", "fifo", "hard", "foreign"}

\* The log itself: never through a link, never another kind of file, never one with two
\* names or of another account; a missing one is made where the account may.
open_last(file, create, probe, may) ==
    CASE file = "regular" -> "opened"
      [] file = "missing" -> IF probe THEN "fine" ELSE IF create /\ may THEN "opened" ELSE "refused"
      [] OTHER -> "refused"


\* One component at a time: the log directory and sites/ are made, no other directory is, and
\* the read-only probe answers what the start would meet.
walk_below(lay, dirs, create, probe, may) ==
    LET bad == {i \in DOMAIN dirs : lay.dirs[i] # "dir"}
        i == Min(bad)
        makes == lay.dirs[i] = "missing" /\ i = 1 /\ dirs[1] = "sites"
    IN IF lay.top = "missing" THEN
           (IF probe THEN "fine" ELSE IF create /\ dirs \in {<<>>, <<"sites">>} THEN open_last("missing", create, probe, may) ELSE "refused")
       ELSE IF bad = {} THEN open_last(lay.file, create, probe, may)
       ELSE IF makes /\ create THEN (IF Len(dirs) = 1 THEN open_last("missing", create, probe, may) ELSE "refused")
       ELSE IF makes /\ probe /\ Len(dirs) = 1 THEN "fine"
       ELSE "refused"

open_below_log_dir(lay, p, may) == walk_below(lay, setting.dirs[p], TRUE, FALSE, may)
probe_below_log_dir(lay, p) == walk_below(lay, setting.dirs[p], FALSE, TRUE, TRUE) # "refused"
-----------------------------------------------------------------------------
(* Descriptors and sinks.                                                     *)
FreeFd(k) == CHOOSE f \in 1..Len(k.fds) : k.fds[f] = 0 /\ \A g \in 1..(f - 1) : k.fds[g] # 0
sys_close(k, fd) == IF fd = 0 THEN k ELSE [k EXCEPT !.fds[fd] = 0]

Cleared(p) == [top |-> "dir", dirs |-> [i \in DOMAIN setting.dirs[p] |-> "dir"], file |-> "regular"]

\* The file a path names, made when there is none.
Named(k, p) ==
    IF k.names[p] # 0 THEN k
    ELSE [k EXCEPT !.files = Append(@, [of |-> p, lines |-> [q \in Paths |-> 0]]), !.names[p] = Len(k.files) + 1,
                   !.layout[p] = Cleared(p)]

\* Mutant: the descriptor replaced is closed at once.
LogFile_open_closes(k, i) ==
    LET n == Named(k, k.sinks[i].path)
        fd == FreeFd(n)
    IN sys_close([n EXCEPT !.fds[fd] = n.names[k.sinks[i].path], !.sinks[i].fd = fd], k.sinks[i].fd)

\* Opened, swapped in, and the one replaced at the open before this one closed.
LogFile_open(k, i) ==
    LET n == Named(k, k.sinks[i].path)
        fd == FreeFd(n)
        swapped == [n EXCEPT !.fds[fd] = n.names[k.sinks[i].path], !.sinks[i].fd = fd, !.sinks[i].prev = k.sinks[i].fd,
                             !.skipped = @ \ {k.sinks[i].path},
                             !.writing = [w \in Workers |-> IF @[w].sink = i THEN [@[w] EXCEPT !.reopens = @ + 1] ELSE @[w]]]
    IN sys_close(swapped, k.sinks[i].prev)

SinkOf(k, p) == CHOOSE i \in DOMAIN k.sinks : k.sinks[i].path = p
Known(k, p) == \E i \in DOMAIN k.sinks : k.sinks[i].path = p

\* LogRegistry::add: the path's sink, wanted from now on.
add(k, p) ==
    IF Known(k, p) THEN [k EXCEPT !.sinks[SinkOf(k, p)].wanted = TRUE]
    ELSE [k EXCEPT !.sinks = Append(@, [path |-> p, wanted |-> TRUE, fd |-> 0, prev |-> 0])]

\* Mutant: only what the configuration adds is marked.
assign_log_sinks_new(k, cfg) ==
    FoldSet(LAMBDA p, t : IF Known(t, p) THEN t ELSE add(t, p),
            [k EXCEPT !.sinks = [i \in DOMAIN @ |-> [@[i] EXCEPT !.wanted = FALSE]]], cfg)

\* Only the files this configuration names are opened and reopened from now on.
assign_log_sinks(k, cfg) ==
    FoldSet(LAMBDA p, t : add(t, p), [k EXCEPT !.sinks = [i \in DOMAIN @ |-> [@[i] EXCEPT !.wanted = FALSE]]], cfg)

Unopened(k) == {i \in DOMAIN k.sinks : k.sinks[i].wanted /\ k.sinks[i].fd = 0}
Opens(k, i) == open_below_log_dir(k.layout[k.sinks[i].path], k.sinks[i].path, k.root) = "opened"

\* The new configuration's logs; a site whose log does not open is set aside.
isolate_logs(k, cfg) ==
    LET a == assign_log_sinks(k, cfg)
        failed == {a.sinks[i].path : i \in {j \in Unopened(a) : ~Opens(a, j)}}
        opened == FoldSet(LAMBDA i, t : LogFile_open(t, i), a, {i \in Unopened(a) : Opens(a, i)})
    IN [assign_log_sinks(opened, cfg \ failed) EXCEPT !.prepared = cfg \ failed]

\* The start, as root, over what stands in the log directory.
Init ==
    /\ setting \in Settings
    /\ \E layout \in setting.layouts :
         LET none == [sinks |-> <<>>, fds |-> [f \in 1..setting.fds |-> 0], files |-> <<>>, names |-> [p \in Paths |-> 0],
                      layout |-> [p \in Paths |-> IF p \in DOMAIN layout THEN layout[p] ELSE Cleared(p)], root |-> TRUE,
                      prepared |-> NoGen, gen |-> {}, wgen |-> [w \in Workers |-> {}], posted |-> [w \in Workers |-> NoGen],
                      buf |-> [w \in Workers |-> [p \in Paths |-> 0]], writing |-> [w \in Workers |-> Idle],
                      logged |-> [p \in Paths |-> 0], todo |-> <<>>, signal |-> FALSE, failed |-> {}, newly |-> {}, skipped |-> {},
                      rotations |-> 0, reloads |-> 0, refused |-> FALSE, late |-> FALSE, stopped |-> FALSE]
             first == isolate_logs(none, setting.first)
         IN s = [first EXCEPT !.gen = first.prepared, !.wgen = [w \in Workers |-> first.prepared], !.prepared = NoGen,
                              !.root = setting.root]
-----------------------------------------------------------------------------
(* Workers.                                                                   *)
Free(w) == ~s.stopped /\ s.writing[w] = Idle /\ (w = 0 => s.todo = <<>>)

\* The buffer goes out: the descriptor is loaded now, the bytes are written later.
Begin(k, w, p) == [k EXCEPT !.writing[w] = [sink |-> SinkOf(k, p), fd |-> k.sinks[SinkOf(k, p)].fd, n |-> k.buf[w][p], reopens |-> 0],
                            !.buf[w][p] = 0]

\* A request's line, by the generation the worker serves from.
log ==
    \E w \in Workers, p \in Paths :
      /\ Free(w) /\ p \in s.wgen[w] /\ s.logged[p] < setting.lines
      /\ LET k == [s EXCEPT !.buf[w][p] = @ + 1, !.logged[p] = @ + 1]
         IN s' = IF k.buf[w][p] >= setting.flush_size THEN Begin(k, w, p) ELSE k

\* The flush timer, one buffer after the other.
flush == \E w \in Workers, p \in Paths : Free(w) /\ s.buf[w][p] > 0 /\ s' = Begin(s, w, p)

\* write(2) on the descriptor loaded; one that is closed drops the lines.
LogFile_write(k, wr) ==
    LET p == k.sinks[wr.sink].path
        late == [k EXCEPT !.late = @ \/ wr.reopens > 1]
    IN IF k.fds[wr.fd] = 0 THEN late ELSE [late EXCEPT !.files[k.fds[wr.fd]].lines[p] = @ + wr.n]

written == \E w \in Workers : s.writing[w] # Idle /\ s' = [LogFile_write(s, s.writing[w]) EXCEPT !.writing[w] = Idle]

\* The worker's own loop takes the generation.
take == \E w \in Workers : Free(w) /\ s.posted[w] # NoGen /\ s' = [s EXCEPT !.wgen[w] = s.posted[w], !.posted[w] = NoGen]

\* Mutant: the loops end and nobody flushes.
run_ends_unflushed == setting.stops /\ (\A w \in Workers : Free(w)) /\ s' = [s EXCEPT !.stopped = TRUE]

\* The loops ended: every worker's buffers are flushed.
run_ends ==
    /\ setting.stops /\ \A w \in Workers : Free(w)
    /\ LET out == {x \in Workers \X Paths : s.buf[x[1]][x[2]] > 0}
       IN s' = [FoldSet(LAMBDA x, t : LogFile_write([t EXCEPT !.buf[x[1]][x[2]] = 0],
                                                    [sink |-> SinkOf(t, x[2]), fd |-> t.sinks[SinkOf(t, x[2])].fd, n |-> t.buf[x[1]][x[2]], reopens |-> 0]),
                        s, out) EXCEPT !.stopped = TRUE]
-----------------------------------------------------------------------------
(* Rotation, reopen, reload.                                                  *)
\* logrotate renames a log and signals; what stands in the way may appear meanwhile.
rotate ==
    \E p \in Paths, kind \in setting.planted :
      /\ ~s.stopped /\ s.rotations < setting.rotations /\ s.names[p] # 0
      /\ s' = [s EXCEPT !.names[p] = 0, !.signal = TRUE, !.rotations = @ + 1, !.layout[p].file = kind]

\* SIGUSR1: every wanted sink again, in their order.
on_reopen ==
    /\ Free(0) /\ s.signal
    /\ s' = [s EXCEPT !.signal = FALSE, !.newly = {}, !.skipped = @ \cup {s.sinks[i].path : i \in {j \in DOMAIN s.sinks : ~s.sinks[j].wanted}},
                      !.todo = SelectSeq([i \in DOMAIN s.sinks |-> i], LAMBDA i : s.sinks[i].wanted)]

\* One that does not open keeps its descriptor, and is in the answer.
reopen_next ==
    /\ s.todo # <<>>
    /\ LET i == Head(s.todo)
           k == IF Opens(s, i) THEN LogFile_open(s, i) ELSE [s EXCEPT !.newly = @ \cup {s.sinks[i].path}]
       IN s' = [k EXCEPT !.todo = Tail(@), !.failed = IF Len(s.todo) = 1 THEN k.newly ELSE @]

\* A reload prepares its generation, and the logs with it.
prepare_reload ==
    \E cfg \in setting.configs :
      /\ Free(0) /\ s.prepared = NoGen /\ s.reloads < setting.reloads
      /\ s' = [isolate_logs(s, cfg) EXCEPT !.reloads = @ + 1]

\* It is refused after that, by a certificate, the preflight or a port.
refused == Free(0) /\ s.prepared # NoGen /\ s' = [s EXCEPT !.prepared = NoGen, !.refused = @ \/ s.prepared # s.gen]

\* The switch: the sinks again, then each worker's loop.
switch_to ==
    /\ Free(0) /\ s.prepared # NoGen
    /\ LET k == assign_log_sinks(s, s.prepared)
       IN s' = [k EXCEPT !.gen = s.prepared, !.posted = [w \in Workers |-> s.prepared], !.prepared = NoGen, !.refused = FALSE]

Next == UNCHANGED setting /\ (log \/ flush \/ written \/ take \/ run_ends \/ rotate \/ on_reopen \/ reopen_next
                              \/ prepare_reload \/ refused \/ switch_to)

Spec == Init /\ [][Next]_vars
-----------------------------------------------------------------------------
(* Properties.                                                                *)
\* A line reaches a file that was opened for its own log, and none is lost, through
\* rotations, reloads that add and drop logs, and the end of the server (LogFile::open and
\* write, WorkerLogs::log and flush, run): unless a second reopen came within one write,
\* which closes the descriptor under it.
LinesKept ==
    ~s.late =>
    /\ \A f \in DOMAIN s.files, p \in Paths : s.files[f].lines[p] > 0 => s.files[f].of = p
    /\ \A p \in Paths :
         s.logged[p] = MapThenSumSet(LAMBDA f : s.files[f].lines[p], DOMAIN s.files) + MapThenSumSet(LAMBDA w : s.buf[w][p], Workers)
                       + MapThenSumSet(LAMBDA w : IF s.writing[w].sink # 0 /\ s.sinks[s.writing[w].sink].path = p THEN s.writing[w].n ELSE 0, Workers)
    /\ s.stopped => \A w \in Workers, p \in Paths : s.buf[w][p] = 0

\* The marks are those of the configuration in force once a reload is over, and after a
\* rotation every log of it goes on in the file its path names, or the reopen is due, or its
\* failure was reported (reopen_and_report): nothing is written unseen into a file logrotate
\* will remove.  Two ways to skip a log remain in the code: a refused reload leaves its own
\* marks, and a log that comes back after a reopen it missed keeps the file it had.
RotationsFollowed ==
    ~s.stopped => \A p \in s.gen : LET k == s.sinks[SinkOf(s, p)] IN
      /\ k.fd # 0 /\ (s.refused \/ s.prepared # NoGen \/ k.wanted)
      /\ s.fds[k.fd] = s.names[p] \/ s.signal \/ p \in s.failed \cup s.newly \cup s.skipped \/ SinkOf(s, p) \in Range(s.todo)

\* What -t and the notices say of a log is what the start will meet: the probe passes exactly
\* the paths the start opens (walk_below), where the log directory is there.
ProbeAgrees ==
    \A p \in Paths : \A file \in Kinds, dirs \in [DOMAIN setting.dirs[p] -> {"dir", "link", "missing"}] :
      LET lay == [top |-> "dir", dirs |-> dirs, file |-> file]
      IN probe_below_log_dir(lay, p) <=> open_below_log_dir(lay, p, TRUE) = "opened"
=============================================================================
