------------------------------- MODULE Reload -------------------------------
(***************************************************************************)
(* A reload of the configuration with the PHP pools around it              *)
(* (server.cpp reload_async, reload, pools_after; services/provision.cpp   *)
(* pools_apply; control/handler.cpp site_create, site_update, site_toggle; *)
(* docs/design-php-versions.md 6.1), seen through one site.                *)
(*                                                                         *)
(* Worker 0's loop runs one handler at a time.  A reload leaves the loop   *)
(* twice: for the preflight and the helper's "up" phase, and, after the    *)
(* switch, for its "full" phase.  The root helper is another process: it   *)
(* reads the configuration ON DISK for each request, one at a time.        *)
(* Meanwhile control requests write and put back the site's file, SIGHUP   *)
(* arrives, and a renewed certificate switches the generation.             *)
(*                                                                         *)
(* A site file is known by the PHP version it names, which is its pool;    *)
(* Broken is one the loader sets aside, None an absent one.                *)
(***************************************************************************)
EXTENDS Naturals, FiniteSets

CONSTANTS
    Versions,   \* the PHP versions a site file may name
    Broken,     \* a file the loader sets aside
    None,       \* no file, or no pool
    Settings    \* the situations looked at, each a record of what follows

VARIABLES
    disk,     \* the site's <file>, <file>.bak and <file>.disabled
    gen,      \* gen_: the pool the site is served from, its certificate
    pools,    \* the versions whose pool of the site accepts connections
    job,      \* the reload under way (reloading_), or NoJob
    again,    \* reload_again_
    loop,     \* what worker 0 is in the middle of, and for whom
    helper,   \* the request the helper works on
    detached, \* pools_after threads nobody waits for
    ask,      \* each control request: its change, the disk before it, its answer
    signal,   \* a SIGHUP not delivered yet
    edits,    \* hand edits made
    renewed,  \* the certificate on disk
    setting   \* the situation, which no step changes

Written == setting.written       \* what a control request or a hand may write
Callers == setting.callers       \* control requests, each making one change
Ops == setting.ops               \* the changes they may ask for
Faults == setting.faults         \* what may go wrong: "load", "preflight", "socket", "port"
MaxEdits == setting.edits        \* bound: hand edits, each followed by a SIGHUP
MaxRenewals == setting.renewals  \* bound: certificates renewed on disk
Calm == setting.calm             \* changes start only when nothing is under way

AllOps == {"create", "update", "probed", "enable", "disable", "delete"}

ASSUME ReloadAssumption ==
    /\ Broken \notin Versions /\ None \notin Versions \cup {Broken}
    /\ \A x \in Settings :
         /\ x.written \subseteq Versions \cup {Broken, None}
         /\ x.ops \subseteq AllOps
         /\ x.faults \subseteq {"load", "preflight", "socket", "port"}
         /\ x.edits \in Nat /\ x.renewals \in Nat /\ x.calm \in BOOLEAN
         /\ {"hup", "nobody"} \cap x.callers = {}

vars == <<disk, gen, pools, job, again, loop, helper, detached, ask, signal, edits, renewed, setting>>

Hup == "hup"
NoJob == [stage |-> "none"]
Free == [at |-> "free", who |-> "nobody"]
Idle == [phase |-> "idle"]
Paths == {"file", "bak", "off"}
Content == Versions \cup {Broken, None}

\* Nothing of a reload, or of the helper, is under way.
Quiet == job = NoJob /\ loop = Free /\ helper = Idle /\ detached = 0 /\ ~signal

--------------------------------------------------------------------------
(* The site's file and what a control request does with it.               *)

\* rename(from, to): nothing happens when `from` is not there (ec ignored).
Renamed(d, from, to) ==
    IF d[from] = None THEN d ELSE [d EXCEPT ![to] = d[from], ![from] = None]

\* A mutant: no copy is kept.
write_site_file_unsaved(d, v) == [d EXCEPT !.file = v]

\* write_site_file: the file there is copied to .bak, the new one renamed in.
write_site_file(d, v) ==
    [d EXCEPT !.bak = IF d.file = None THEN d.bak ELSE d.file, !.file = v]

\* The checks of each command before it touches the disk.
Allowed(op, d) ==
    CASE op = "create" -> gen.ver = None
      [] op \in {"update", "probed"} -> gen.ver # None /\ d.file # None
      [] op = "enable" -> d.off # None
      [] op = "disable" -> d.file # None
      [] OTHER -> d.file # None \/ d.off # None

\* What each command leaves on disk before it asks for the reload.
Changed(op, v, d) ==
    CASE op \in {"create", "update", "probed"} -> write_site_file(d, v)
      [] op = "enable" -> Renamed(d, "off", "file")
      [] op = "disable" -> Renamed(d, "file", "off")
      [] OTHER -> [Renamed(d, "file", "bak") EXCEPT !.off = None]

\* What each command does when its reload is refused.
PutBack(op, d) ==
    CASE op = "create" -> [d EXCEPT !.file = None]
      [] op = "enable" -> Renamed(d, "file", "off")
      [] op = "disable" -> Renamed(d, "off", "file")
      [] OTHER -> Renamed(d, "bak", "file")

\* The change wrote a file that must load (must_load).
MustLoad(who) == who # Hup /\ ask[who].op \in {"create", "update", "probed", "enable"}

\* A mutant: a refusal is logged and nobody is told.
Answered_silent(who, ok) ==
    IF who = Hup \/ ~ok THEN UNCHANGED <<disk, ask>>
    ELSE disk' = disk /\ ask' = [ask EXCEPT ![who].state = "done"]

\* The answer of a reload to whoever asked: a refused change is put back.
Answered(who, ok) ==
    IF who = Hup THEN UNCHANGED <<disk, ask>>
    ELSE /\ disk' = IF ok THEN disk ELSE PutBack(ask[who].op, disk)
         /\ ask' = [ask EXCEPT ![who].state = IF ok THEN "done" ELSE "refused"]

--------------------------------------------------------------------------
(* The reload on worker 0.                                                *)

\* The generation prepare_reload builds: a file set aside keeps its running version.
Loaded == [ver |-> IF disk.file = Broken THEN gen.ver ELSE disk.file, cert |-> renewed]

\* prepare_reload's refusals: the change's own file is set aside, or the whole
\* configuration is refused.
prepare_reload_refuses(who) ==
    IF MustLoad(who) /\ disk.file = Broken THEN {TRUE}
    ELSE IF "load" \in Faults THEN BOOLEAN ELSE {FALSE}

\* commit_reload's refusals: a new address that cannot be bound.
commit_reload_refuses == IF "port" \in Faults THEN BOOLEAN ELSE {FALSE}

\* pool_switches: the site's pool socket is new to the running generation.
pool_switches(g) == g.ver \notin {None, gen.ver}

\* A reload that brings no new socket goes straight back to worker 0.
FirstStage(g) == IF pool_switches(g) THEN "preflight" ELSE "ended"

\* reload_async from its first line to the thread it starts.
reload_async(who) ==
    \/ /\ job # NoJob
       /\ Answered(who, FALSE)
       /\ UNCHANGED <<job, gen>>
    \/ /\ job = NoJob
       /\ \E refused \in prepare_reload_refuses(who), unbound \in commit_reload_refuses :
            IF refused THEN Answered(who, FALSE) /\ UNCHANGED <<job, gen>>
            ELSE IF gen.ver = None /\ Loaded.ver = None   \* no pool before or after
            THEN /\ gen' = IF unbound THEN gen ELSE Loaded
                 /\ Answered(who, ~unbound)
                 /\ UNCHANGED job
            ELSE /\ job' = [stage |-> FirstStage(Loaded), outcome |-> "fine", next |-> Loaded,
                            stale |-> FALSE, who |-> who]
                 /\ UNCHANGED <<disk, ask, gen>>

\* reload(), for a change whose caller cannot wait: the switch first, then the
\* pools, once on a thread of their own and once while worker 0 waits.
reload_now(who) ==
    \/ /\ job # NoJob
       /\ Answered(who, FALSE)
       /\ loop' = Free
       /\ UNCHANGED <<gen, detached>>
    \/ /\ job = NoJob
       /\ \E refused \in prepare_reload_refuses(who), unbound \in commit_reload_refuses :
            IF refused \/ unbound
            THEN Answered(who, FALSE) /\ loop' = Free /\ UNCHANGED <<gen, detached>>
            ELSE /\ gen' = Loaded
                 /\ detached' = IF gen.ver # None \/ Loaded.ver # None THEN detached + 1 ELSE detached
                 /\ loop' = [at |-> "apply", who |-> who]
                 /\ UNCHANGED <<disk, ask>>

\* finish: the reload is over, its caller answered, a kept SIGHUP next.
Finished(ok) ==
    /\ job' = NoJob
    /\ Answered(job.who, ok)
    /\ again' = FALSE
    /\ loop' = IF again THEN [at |-> "again", who |-> Hup] ELSE Free

--------------------------------------------------------------------------
(* The actions of worker 0.                                               *)

\* A control request checks its change and writes it.
Change(c) ==
    /\ loop = Free
    /\ ask[c].state = "idle"
    /\ Calm => Quiet
    /\ \E op \in Ops, v \in Written \ {None} :
         /\ Allowed(op, disk)
         /\ disk' = Changed(op, v, disk)
         /\ ask' = [ask EXCEPT ![c] = [op |-> op, before |-> disk, state |-> "waiting"]]
    /\ loop' = [at |-> "reload", who |-> c]
    /\ UNCHANGED <<gen, pools, job, again, helper, detached, signal, edits, renewed>>

\* reload_then: the same handler goes on to the reload.
ReloadThen ==
    /\ loop.at = "reload"
    /\ IF ask[loop.who].op = "probed"
       THEN reload_now(loop.who) /\ UNCHANGED job
       ELSE reload_async(loop.who) /\ loop' = Free /\ UNCHANGED detached
    /\ UNCHANGED <<pools, again, helper, signal, edits, renewed>>

\* A mutant: a SIGHUP during a reload is forgotten.
on_hup_forgotten ==
    /\ loop = Free
    /\ signal
    /\ signal' = FALSE
    /\ IF job # NoJob THEN UNCHANGED <<again, disk, ask, job, gen>> ELSE reload_async(Hup) /\ UNCHANGED again
    /\ UNCHANGED <<pools, loop, helper, detached, edits, renewed>>

\* SIGHUP: kept while a reload runs.
on_hup ==
    /\ loop = Free
    /\ signal
    /\ signal' = FALSE
    /\ IF job # NoJob THEN again' = TRUE /\ UNCHANGED <<disk, ask, job, gen>>
       ELSE reload_async(Hup) /\ UNCHANGED again
    /\ UNCHANGED <<pools, loop, helper, detached, edits, renewed>>

\* finish goes on to the SIGHUP that came meanwhile.
RunAgain ==
    /\ loop.at = "again"
    /\ reload_async(Hup)
    /\ loop' = Free
    /\ UNCHANGED <<pools, again, helper, detached, signal, edits, renewed>>

\* A mutant: the generation loaded before a certificate refresh is committed.
Committed_stale == job.next

\* The generation to commit: loaded again when a refresh switched meanwhile.
Committed == IF job.stale THEN Loaded ELSE job.next

\* The handler the reload's thread posts: refused, or the switch and the full phase.
Switch ==
    /\ loop = Free
    /\ job.stage = "ended"
    /\ \/ /\ job.outcome = "refused"
          /\ Finished(FALSE)
          /\ UNCHANGED <<gen, detached>>
       \/ /\ job.outcome = "down"
          /\ Finished(FALSE)
          /\ detached' = detached + 1
          /\ UNCHANGED gen
       \/ /\ job.outcome = "fine"
          /\ \E refused \in IF job.stale THEN prepare_reload_refuses(job.who) ELSE {FALSE},
                unbound \in commit_reload_refuses :
               IF refused \/ unbound
               THEN Finished(FALSE) /\ detached' = detached + 1 /\ UNCHANGED gen
               ELSE /\ gen' = Committed
                    /\ job' = [job EXCEPT !.stage = "full"]
                    /\ UNCHANGED <<disk, ask, again, loop, detached>>
    /\ UNCHANGED <<pools, helper, signal, edits, renewed>>

\* The full phase answered: the reload is done, whatever it answered.
Done ==
    /\ loop = Free
    /\ job.stage = "done"
    /\ Finished(TRUE)
    /\ UNCHANGED <<gen, pools, helper, detached, signal, edits, renewed>>

\* refresh_certificates: a new generation with the running configuration.
refresh_certificates ==
    /\ loop = Free
    /\ gen.cert # renewed
    /\ gen' = [gen EXCEPT !.cert = renewed]
    /\ job' = IF job = NoJob THEN job ELSE [job EXCEPT !.stale = TRUE]
    /\ UNCHANGED <<disk, pools, again, loop, helper, detached, ask, signal, edits, renewed>>

--------------------------------------------------------------------------
(* The reload's thread, the helper, and the world outside.                *)

\* Whether the versions the switch needs are installed, running and fit the site.
switch_preflight == IF "preflight" \in Faults THEN BOOLEAN ELSE {TRUE}

\* The preflight of the versions the switch needs, off the workers.
Preflight ==
    /\ job # NoJob /\ job.stage = "preflight"
    /\ \E ready \in switch_preflight :
         job' = IF ready THEN [job EXCEPT !.stage = "up"]
                ELSE [job EXCEPT !.stage = "ended", !.outcome = "refused"]
    /\ UNCHANGED <<disk, gen, pools, again, loop, helper, detached, ask, signal, edits, renewed>>

\* Whose request the helper may take next: the mutex promises no order.
Requests ==
    (IF job # NoJob /\ job.stage \in {"up", "full"} THEN {[phase |-> job.stage, of |-> "job"]} ELSE {})
    \cup (IF detached > 0 THEN {[phase |-> "full", of |-> "detached"]} ELSE {})
    \cup (IF loop.at = "apply" THEN {[phase |-> "full", of |-> "loop"]} ELSE {})

\* pools_apply reads the configuration on disk again.
HelperReads ==
    /\ helper = Idle
    /\ \E r \in Requests : helper' = [phase |-> r.phase, of |-> r.of, want |-> disk.file]
    /\ UNCHANGED <<disk, gen, pools, job, again, loop, detached, ask, signal, edits, renewed>>

\* A mutant: the up phase removes the pools no site names any more.
write_pools_removes(phase, want, fails) ==
    CASE want = Broken -> pools
      [] want = None -> {}
      [] OTHER -> IF fails THEN pools \cap {want} ELSE {want}

\* The pools after write_pools, the reloads, the wait and, for "up", the put-back:
\* "up" removes nothing; "full" removes the others unless a file is set aside.
write_pools(phase, want, fails) ==
    CASE want = Broken -> pools
      [] want # Broken /\ phase = "up" -> IF want # None /\ ~fails THEN pools \cup {want} ELSE pools
      [] OTHER -> IF want = None THEN {} ELSE IF fails THEN pools \cap {want} ELSE {want}

\* Whether the reload of the version's master fails, or its new socket never accepts.
reload_runtime_fails ==
    IF "socket" \in Faults /\ helper.want \in Versions \ pools THEN BOOLEAN ELSE {FALSE}

\* The helper writes what it read and answers.
HelperWrites ==
    /\ helper # Idle
    /\ \E fails \in reload_runtime_fails :
         /\ pools' = write_pools(helper.phase, helper.want, fails)
         /\ job' = IF helper.of # "job" THEN job
                   ELSE IF helper.phase = "full" THEN [job EXCEPT !.stage = "done"]
                   ELSE [job EXCEPT !.stage = "ended", !.outcome = IF fails THEN "down" ELSE "fine"]
    /\ helper' = Idle
    /\ detached' = IF helper.of = "detached" THEN detached - 1 ELSE detached
    /\ IF helper.of = "loop" THEN Answered(loop.who, TRUE) /\ loop' = Free
       ELSE UNCHANGED <<disk, ask, loop>>
    /\ UNCHANGED <<gen, again, signal, edits, renewed>>

\* A person edits the site's file by hand and sends a SIGHUP (agensio reload).
Edit ==
    /\ edits < MaxEdits
    /\ Calm => Quiet
    /\ \E v \in Written \ {disk.file} : disk' = [disk EXCEPT !.file = v]
    /\ signal' = TRUE
    /\ edits' = edits + 1
    /\ UNCHANGED <<gen, pools, job, again, loop, helper, detached, ask, renewed>>

\* Another tool, or ACME's thread, writes a renewed certificate.
Renew ==
    /\ renewed < MaxRenewals
    /\ renewed' = renewed + 1
    /\ UNCHANGED <<disk, gen, pools, job, again, loop, helper, detached, ask, signal, edits>>

--------------------------------------------------------------------------
(* The specification.                                                     *)

\* A started server: the site enabled with its pool up, or disabled.
Init ==
    /\ setting \in Settings
    /\ \E v \in Versions :
         \/ /\ disk = [file |-> v, bak |-> None, off |-> None]
            /\ gen = [ver |-> v, cert |-> 0]
            /\ pools = {v}
         \/ /\ disk = [file |-> None, bak |-> None, off |-> v]
            /\ gen = [ver |-> None, cert |-> 0]
            /\ pools = {}
    /\ job = NoJob /\ again = FALSE /\ loop = Free /\ helper = Idle /\ detached = 0
    /\ ask = [c \in Callers |-> [op |-> "none", before |-> disk, state |-> "idle"]]
    /\ signal = FALSE /\ edits = 0 /\ renewed = 0

System == ReloadThen \/ on_hup \/ RunAgain \/ Switch \/ Done \/ refresh_certificates
          \/ Preflight \/ HelperReads \/ HelperWrites

Next == UNCHANGED setting /\ (System \/ (\E c \in Callers : Change(c)) \/ Edit \/ Renew)

\* The loop, the reload's thread and the helper go on; requests, edits and
\* renewals need not come.
Spec == Init /\ [][Next]_vars /\ WF_vars(System /\ UNCHANGED setting)

--------------------------------------------------------------------------
(* Properties.                                                            *)

Stages == {"preflight", "up", "ended", "full", "done"}
Gens == [ver : Versions \cup {None}, cert : 0..MaxRenewals]

\* The members have their types; the generation never names a file that did
\* not load (server.cpp prepare_reload).
TypeOK ==
    /\ disk \in [Paths -> Content]
    /\ gen \in Gens
    /\ pools \subseteq Versions
    /\ job = NoJob \/ job \in [stage : Stages, outcome : {"fine", "refused", "down"}, next : Gens,
                               stale : BOOLEAN, who : Callers \cup {Hup}]
    /\ again \in BOOLEAN /\ signal \in BOOLEAN
    /\ loop \in [at : {"free", "reload", "again", "apply"}, who : Callers \cup {Hup, "nobody"}]
    /\ helper = Idle \/ helper \in [phase : {"up", "full"}, of : {"job", "detached", "loop"}, want : Content]
    /\ detached \in Nat /\ edits \in 0..MaxEdits /\ renewed \in 0..MaxRenewals
    /\ ask \in [Callers -> [op : AllOps \cup {"none"}, before : [Paths -> Content],
                            state : {"idle", "waiting", "done", "refused"}]]

PoolUp == gen.ver # None => gen.ver \in pools

\* Where the old pool stays until the new one serves: changes one at a time,
\* whose callers can wait for the reload; when reloads may fail, none by hand,
\* and none that enables a site beside a new file of its name.
Orderly ==
    /\ Calm /\ "probed" \notin Ops
    /\ Faults = {} \/ (MaxEdits = 0 /\ ~({"create", "enable"} \subseteq Ops))

\* The site is served from a pool that is up: a switch never comes before the
\* pool, and no phase of the helper takes away the pool the running generation
\* uses (reload_async, pools_apply: "the site never leaves its old pool").
ServedPoolUp == Orderly => PoolUp

\* What the commands can put back: site_create removes the file, the toggles
\* rename over the other file, and a delete does not keep a disabled one.
Restorable(op, d) ==
    CASE op = "create" -> d.file = None
      [] op \in {"enable", "disable"} -> d.file = None \/ d.off = None
      [] op = "delete" -> d.off = None
      [] OTHER -> TRUE

Undone(c) == disk'.file = ask[c].before.file /\ disk'.off = ask[c].before.off

Refused(c) == ask[c].state = "waiting" /\ ask'[c].state = "refused"

RefusalUndoes ==
    \A c \in Callers : Calm /\ Refused(c) /\ Restorable(ask[c].op, ask[c].before) => Undone(c)

\* A change answered "refused" left the site's file and its disabled file as
\* they were before it ("previous file restored", "file restored"), when
\* changes do not overlap; and a generation never goes back to a certificate
\* older than the one it serves: a reload prepared before a refresh is prepared
\* again before its switch (server.cpp reload_async, refresh_certificates).
NothingGoesBack == [][RefusalUndoes /\ gen'.cert >= gen.cert]_vars

\* Once the hand edits stop, what the last one wrote is served, from a pool that
\* is up: a SIGHUP that comes during a reload is kept and runs after it
\* (server.cpp on_hup, reload_async finish).
EditsServed == <>[](Callers = {} => disk.file \in {gen.ver, Broken} /\ PoolUp)

Waiting(c) == c \in Callers /\ ask[c].state = "waiting"

\* Every control request that changed the disk is answered, whatever overlaps
\* and whatever is refused (handler.cpp reload_then, server.cpp reload_async).
EveryChangeAnswered ==
    \A c \in UNION {x.callers : x \in Settings} : Waiting(c) ~> ~Waiting(c)

=============================================================================
