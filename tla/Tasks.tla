-------------------------------- MODULE Tasks --------------------------------
(* Tasks of a site and the root helpers they go through (services/tasks.cpp,   *)
(* of services/provision.cpp the helpers, their channels and task_run, of      *)
(* control/handler.cpp site_task, of server.cpp task_async and helper_async).  *)
(*                                                                             *)
(* A control request is taken on worker 0, waits on a thread of its own for    *)
(* its helper's channel, and comes back to worker 0.  The main helper serves   *)
(* one request at a time, a task for as long as its program runs; the reader   *)
(* serves the reads.  Time is in units of the loop's coarsest interval.        *)
EXTENDS Naturals, Sequences, FiniteSets

CONSTANTS Settings      \* the situations looked at

VARIABLES
    s,        \* the requests, the channels, the helpers and the programs
    setting   \* the situation, which no step changes

vars == <<s, setting>>

Ops == setting.ops                   \* the requests: what each asks, of which site
Requests == DOMAIN Ops
Sites == {Ops[q].site : q \in Requests}
Kind(q) == Ops[q].kind               \* "task", "dry", "scheduled", "read", "peek"
Fault(f) == f \in setting.faults
None == "none"

Timeout == 2                         \* a task's limit, in units
Grace == 1                           \* term_grace
KillWait == 1                        \* how long SIGKILL is waited for
Drain == 1                           \* output read after the exit
Limit == Timeout + 12                \* run_as_account's own
ReadWait == 2                        \* kReadWait

IsRun(q) == Kind(q) \in {"task", "scheduled"}
Idle == [state |-> "none"]
Answer(q, what) == [of |-> q, what |-> what]
-----------------------------------------------------------------------------
(* The channels (Provisioner)                                                 *)
\* The main helper serves everything while the reader did not start.
channel_for(q) == IF Kind(q) = "read" /\ setting.reader THEN "reader" ELSE "main"

\* try_request, and a read that goes to the main helper, never wait.
Tries(q) == Kind(q) = "peek" \/ (Kind(q) = "read" /\ channel_for(q) = "main")

Posted(k, q, answer) == [k EXCEPT !.r[q].pc = "posted", !.r[q].answer = answer]

Exchanged(k, q) ==
    LET c == channel_for(q)
    IN IF ~k.ch[c].up THEN Posted(k, q, Answer(q, "gone"))
       ELSE [k EXCEPT !.r[q].pc = "sent", !.ch[c].holder = q, !.ch[c].wire = Append(@, q)]

\* Mutant: a read that waits too long for its answer is given up with its answer to come.
GivesUp_reading(k, q) ==
    /\ Kind(q) = "read" /\ k.r[q].pc \in {"wait", "sent"} /\ k.r[q].waited >= ReadWait

\* Only the reader's mutex is waited for with a limit.
GivesUp(k, q) == channel_for(q) = "reader" /\ k.r[q].pc = "wait" /\ k.r[q].waited >= ReadWait

\* request, read: the thread has the channel, or the channel is busy.
Acquire(q) ==
    /\ s.r[q].pc = "wait"
    /\ \/ s.ch[channel_for(q)].holder = None /\ s' = Exchanged(s, q)
       \/ s.ch[channel_for(q)].holder # None /\ Tries(q) /\ s' = Posted(s, q, Answer(q, "busy"))

Release(k, q) == [k EXCEPT !.ch = [c \in DOMAIN k.ch |-> IF k.ch[c].holder = q THEN [k.ch[c] EXCEPT !.holder = None] ELSE k.ch[c]]]

WaitOver(q) == GivesUp(s, q) /\ s' = Release(Posted(s, q, Answer(q, "busy")), q)

\* exchange: one line back, or the helper's end closed.
ReadReply(q) ==
    /\ s.r[q].pc = "sent" /\ s.ch[channel_for(q)].holder = q
    /\ LET c == channel_for(q)
           free == [s EXCEPT !.ch[c].holder = None]
       IN \/ s.ch[c].back # <<>> /\ s' = [Posted(free, q, Head(s.ch[c].back)) EXCEPT !.ch[c].back = Tail(@)]
          \/ s.ch[c].back = <<>> /\ ~s.ch[c].up /\ s' = Posted(free, q, Answer(q, "gone"))
-----------------------------------------------------------------------------
(* A task: its checks, its program, what it leaves                            *)
\* What a task needs, each looked at by a function of its own: what is wrong is a fact.
validate(facts) == "request" \notin facts
site_on_disk(facts) == {"config", "site", "task", "path"} \cap facts = {}
check_params(facts) == "params" \notin facts
install_account(facts) == "account" \notin facts
ensure_home(facts, dry) == dry \/ "home" \notin facts            \* made for a run, only said for a dry run
read_environment(facts) == "environment" \notin facts
task_setup(facts) == "setup" \notin facts
open_site(facts) == {"downloads", "directory", "not_empty"} \cap facts = {}
trusted_program(facts) == "runtime" \notin facts
venv_support(facts) == "venv" \notin facts
check_needs(facts) == "needs" \notin facts
missing_env(facts) == "needs_env" \in facts

Refused(facts, dry) ==
    ~(/\ validate(facts) /\ site_on_disk(facts) /\ check_params(facts) /\ install_account(facts) /\ ensure_home(facts, dry)
      /\ read_environment(facts) /\ task_setup(facts) /\ open_site(facts) /\ trusted_program(facts) /\ venv_support(facts)
      /\ check_needs(facts) /\ ~missing_env(facts))

\* Mutant: a dry run answers before what the task needs is looked at.
execute_refuses_early(q, facts) ==
    IF Kind(q) = "dry" THEN Refused(facts \ {"needs", "needs_env"}, TRUE) ELSE Refused(facts, FALSE)

execute_refuses(q, facts) == Refused(facts, Kind(q) = "dry")

Started(k, q) ==
    [k EXCEPT !.prog[q] = [state |-> "runs", age |-> 0, group |-> {"program"}, apart |-> FALSE, alive |-> TRUE, exited |-> FALSE,
                           exit_at |-> 0, timed |-> FALSE, term_at |-> 0, killed |-> FALSE, kill_at |-> 0, code |-> 0,
                           wedged |-> FALSE, loose |-> "no"]]

\* Whoever runs the loop answers: the helper on its channel, or the thread itself.
Reply(k, q, what) ==
    IF setting.helper THEN [k EXCEPT !.helper["main"] = None, !.ch["main"].back = IF k.ch["main"].up THEN Append(@, Answer(q, what)) ELSE @]
    ELSE Posted(k, q, Answer(q, what))

\* A refusal or a dry run is answered at once, a run starts its program.
execute(k, q) ==
    IF execute_refuses(q, setting.facts) THEN Reply(k, q, "refused")
    ELSE IF Kind(q) = "dry" THEN Reply(k, q, "ok") ELSE Started(k, q)

Eof(p) == p.group = {} /\ ~p.apart

\* sweep: the credential files the program left open are closed; another account's is told.
sweep(p) == IF p.loose = "own" THEN [p EXCEPT !.loose = "no"] ELSE p

\* Mutant: what the program started in its group is left running.
LoopEnds_left(k, q, stuck) ==
    LET p == sweep(k.prog[q])
        ok == p.alive = FALSE /\ p.code = 0 /\ ~p.timed /\ p.loose = "no"
    IN Reply([k EXCEPT !.prog[q] = [p EXCEPT !.state = IF stuck THEN "stuck" ELSE "over", !.age = 0, !.exit_at = 0, !.term_at = 0, !.kill_at = 0]], q, IF ok THEN "ok" ELSE "failed")

\* The end of run and of execute: the group is killed while the program is still a zombie
\* that keeps its number, then the program is reaped.
LoopEnds(k, q, stuck) ==
    LET p == sweep([k.prog[q] EXCEPT !.group = IF k.prog[q].wedged THEN {"program"} ELSE {}])
        ok == p.alive = FALSE /\ p.code = 0 /\ ~p.timed /\ p.loose = "no"
    IN Reply([k EXCEPT !.prog[q] = [p EXCEPT !.state = IF stuck THEN "stuck" ELSE "over", !.age = 0, !.exit_at = 0, !.term_at = 0, !.kill_at = 0]], q, IF ok THEN "ok" ELSE "failed")

Terminated(p) == [p EXCEPT !.timed = TRUE, !.term_at = p.age]
Killed(p) ==
    [p EXCEPT !.killed = TRUE, !.kill_at = p.age, !.group = IF p.wedged THEN {"program"} ELSE {}, !.alive = p.wedged, !.code = 9]

\* Mutant: output is read until the pipe ends.
Drained_to_eof(p) == p.exited /\ Eof(p)

Drained(p) == p.exited /\ (Eof(p) \/ p.age - p.exit_at >= Drain)

\* One turn of run's loop that finds something to do.
Turns(p) ==
    /\ p.state = "runs"
    /\ \/ ~p.exited /\ ~p.alive
       \/ Drained(p)
       \/ ~p.exited /\ ~p.timed /\ p.age >= Timeout
       \/ p.timed /\ ~p.killed /\ p.age - p.term_at >= Grace
       \/ p.killed /\ ~p.exited /\ p.age - p.kill_at >= KillWait

run(q) ==
    LET p == s.prog[q] IN
    /\ Turns(p)
    /\ s' = IF ~p.exited /\ ~p.alive THEN [s EXCEPT !.prog[q].exited = TRUE, !.prog[q].exit_at = p.age]
            ELSE IF Drained(p) THEN LoopEnds(s, q, FALSE)
            ELSE IF ~p.exited /\ ~p.timed /\ p.age >= Timeout THEN [s EXCEPT !.prog[q] = Terminated(@)]
            ELSE IF p.timed /\ ~p.killed /\ p.age - p.term_at >= Grace THEN [s EXCEPT !.prog[q] = Killed(@)]
            ELSE LoopEnds(s, q, TRUE)

\* The program: it starts others that keep its output open, in its group or apart, leaves a
\* credential file open, ends, or cannot be ended.
Program(q) ==
    LET p == s.prog[q] IN
    /\ p.state = "runs" /\ p.alive
    /\ \/ \E child \in setting.children : p.group = {"program"} /\ ~p.apart
             /\ s' = [s EXCEPT !.prog[q] = IF child = "apart" THEN [p EXCEPT !.apart = TRUE] ELSE [p EXCEPT !.group = @ \cup {"child"}]]
       \/ \E loose \in setting.loose : p.loose = "no" /\ s' = [s EXCEPT !.prog[q].loose = loose]
       \/ \E code \in setting.codes : ~p.wedged /\ s' = [s EXCEPT !.prog[q].alive = FALSE, !.prog[q].code = code, !.prog[q].group = @ \ {"program"}]
       \/ Fault("wedged") /\ ~p.wedged /\ s' = [s EXCEPT !.prog[q].wedged = TRUE]
-----------------------------------------------------------------------------
(* The helpers                                                                *)
\* helper_loop: one line in, one line out.
helper_loop(c) ==
    /\ s.ch[c].up /\ s.helper[c] = None /\ s.ch[c].wire # <<>>
    /\ LET q == Head(s.ch[c].wire)
           k == [s EXCEPT !.ch[c].wire = Tail(@), !.helper[c] = q]
           done == [k EXCEPT !.helper[c] = None, !.ch[c].back = Append(@, Answer(q, "ok"))]
       IN s' = IF Kind(q) \in {"read", "peek"} THEN (IF c = "reader" /\ Fault("slow") /\ ~s.slowed THEN [k EXCEPT !.slowed = TRUE] ELSE done)
               ELSE execute(k, q)

\* A read that takes long is answered in the end.
SlowRead ==
    /\ s.helper["reader"] # None
    /\ s' = [s EXCEPT !.helper["reader"] = None, !.ch["reader"].back = Append(@, Answer(s.helper["reader"], "ok"))]

HelperDies(c) ==
    /\ Fault("dies") /\ s.ch[c].up
    /\ s' = [s EXCEPT !.ch[c].up = FALSE, !.ch[c].wire = <<>>, !.helper[c] = None]
-----------------------------------------------------------------------------
(* Worker 0: site_task and its answer                                         *)
\* Mutant: the scheduler's run looks at its own last run only.
Skips_tasks(k, q) == Ops[q].site \in k.scheduling

\* The scheduler's minute is skipped while a task or the last minute's run goes on.
Skips(k, q) == k.slot[Ops[q].site] # None \/ Ops[q].site \in k.scheduling

Waiting(k, q) == [k EXCEPT !.r[q].pc = "wait", !.r[q].waited = 0]

\* Without a helper the thread runs the task itself.
task_async(k, q) == IF setting.helper THEN Waiting(k, q) ELSE execute([k EXCEPT !.r[q].pc = "runs"], q)

site_task(q) ==
    /\ s.r[q].pc = "new" /\ Kind(q) \in {"task", "dry", "scheduled"}
    /\ LET site == Ops[q].site
       IN s' = CASE Kind(q) = "dry" -> task_async(s, q)
                 [] Kind(q) = "scheduled" ->
                      IF Skips(s, q) THEN [s EXCEPT !.r[q].pc = "done", !.r[q].answer = Answer(q, "skipped")]
                      ELSE task_async([s EXCEPT !.scheduling = @ \cup {site}], q)
                 [] OTHER ->
                      IF s.slot[site] # None THEN [s EXCEPT !.r[q].pc = "done", !.r[q].answer = Answer(q, "running")]
                      ELSE task_async([s EXCEPT !.slot[site] = q], q)

helper_async(q) == s.r[q].pc = "new" /\ Kind(q) \in {"read", "peek"} /\ s' = Waiting(s, q)

\* The result at worker 0: the slot is free again, the caller answered.
Completed(q) ==
    /\ s.r[q].pc = "posted"
    /\ s' = [s EXCEPT !.r[q].pc = "done",
                      !.slot = [x \in Sites |-> IF Kind(q) = "task" /\ x = Ops[q].site THEN None ELSE @[x]],
                      !.scheduling = IF Kind(q) = "scheduled" THEN @ \ {Ops[q].site} ELSE @]

\* A unit of time passes for the programs that run and the reads that wait.
Times(q) == s.prog[q].state = "runs" \/ (s.r[q].pc = "wait" /\ channel_for(q) = "reader")
Tick ==
    /\ \E q \in Requests : Times(q)
    /\ \A q \in Requests : ~Turns(s.prog[q]) /\ ~GivesUp(s, q)
    /\ s' = [s EXCEPT !.prog = [q \in Requests |-> IF @[q].state = "runs" THEN [@[q] EXCEPT !.age = @ + 1] ELSE @[q]],
                      !.r = [q \in Requests |-> IF @[q].pc = "wait" /\ channel_for(q) = "reader" THEN [@[q] EXCEPT !.waited = @ + 1] ELSE @[q]]]

Init ==
    /\ setting \in Settings
    /\ s = [r |-> [q \in Requests |-> [pc |-> "new", waited |-> 0, answer |-> Answer(q, None)]],
            ch |-> [c \in {"main", "reader"} |-> [holder |-> None, wire |-> <<>>, back |-> <<>>, up |-> setting.helper]],
            helper |-> [c \in {"main", "reader"} |-> None], prog |-> [q \in Requests |-> Idle],
            slot |-> [x \in Sites |-> None], scheduling |-> {}, slowed |-> FALSE]

Next ==
    /\ UNCHANGED setting
    /\ \/ \E q \in Requests : \/ site_task(q) \/ helper_async(q) \/ Completed(q)
                              \/ Acquire(q) \/ WaitOver(q) \/ ReadReply(q) \/ run(q) \/ Program(q)
       \/ \E c \in {"main", "reader"} : helper_loop(c) \/ HelperDies(c)
       \/ SlowRead \/ Tick
-----------------------------------------------------------------------------
Over(q) == s.r[q].pc \in {"posted", "done"}

\* An answer is of the request it is given to, however long others wait (exchange, request).
AnswersOwn == \A q \in Requests : Over(q) => s.r[q].answer.of = q

\* At most one task and one scheduled run work in a site, and through the helper one of both
\* (site_task, running_tasks_, scheduling_).
Working(kinds, x) == {q \in Requests : Kind(q) \in kinds /\ Ops[q].site = x /\ s.prog[q].state = "runs"}
OnePerSite ==
    /\ \A x \in Sites, k \in {"task", "scheduled"} : Cardinality(Working({k}, x)) <= 1
    /\ setting.helper => Cardinality({q \in Requests : s.prog[q].state = "runs"}) <= 1

\* A scheduled run starts in no site where a task is going on (site_task).
ScheduledWaits == \A x \in Sites : x \notin s.scheduling /\ x \in s'.scheduling => s.slot[x] = None

\* Once a run is over nothing of its group lives, but what the kernel holds (run); a run that
\* ended well left no credential file others can read (sweep); and it took no longer than its
\* limit, the two signals' and the drain's time, which is less than the account child's own.
RunSound ==
    \A q \in Requests : LET p == s.prog[q] IN
      /\ p.state = "over" => p.group = {}
      /\ p.state = "over" /\ s.r[q].answer = Answer(q, "ok") => p.loose = "no" /\ p.code = 0
      /\ p.state = "runs" => p.age <= Timeout + Grace + KillWait + Drain /\ p.age < Limit

\* What a dry run says, the run meets (execute).
DryRunTrue ==
    \A d, q \in Requests : Kind(d) = "dry" /\ IsRun(q) /\ s.r[d].answer.what = "ok" /\ setting.facts # {"home"} => s.r[q].answer.what # "refused"

\* Every request comes to its end: where nothing moves, all are answered and no slot is held.
AllEnd ==
    ~ENABLED Next => /\ \A q \in Requests : s.r[q].pc = "done"
                     /\ \A x \in Sites : s.slot[x] = None
                     /\ s.scheduling = {}

TasksSound == AnswersOwn /\ OnePerSite /\ RunSound /\ DryRunTrue /\ AllEnd
TaskStep == TasksSound' /\ ScheduledWaits
-----------------------------------------------------------------------------
Spec == Init /\ [][Next]_vars
=============================================================================
