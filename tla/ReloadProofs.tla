---------------------------- MODULE ReloadProofs ----------------------------
(* For every setting, number of callers, edit and renewal: a refused change   *)
(* is undone, no generation goes back to an older certificate, and the site   *)
(* is served from a pool that is up.                                          *)
EXTENDS Reload, TLAPS

\* A prepared generation is as new as the served one, unless it is known stale.
CertsForward ==
    /\ gen.cert <= renewed
    /\ job # NoJob => job.next.cert <= renewed /\ (job.stale \/ gen.cert <= job.next.cert)

\* The helper works for the one who asked, while they wait.
HelperServes ==
    helper # Idle =>
        \/ helper.of = "job" /\ job.stage = helper.phase
        \/ helper.of = "detached" /\ helper.phase = "full" /\ detached > 0
        \/ helper.of = "loop" /\ helper.phase = "full" /\ loop.at = "apply"

\* Worker 0 is in the middle of nothing, of a request's handler, or of finish.
LoopNamed ==
    /\ loop.at = "free" => loop = Free
    /\ loop.at \in {"reload", "apply"} => loop.who \in Callers

\* Whoever waits for an answer.
Asks(c) == (loop.at # "free" /\ loop.who = c) \/ (job # NoJob /\ job.who = c)

\* When changes come one at a time there is one thing under way, and the helper
\* reads what will stay on disk.
Serial ==
    /\ ~again /\ loop.at # "again"
    /\ signal => job = NoJob /\ loop = Free /\ helper = Idle /\ detached = 0
    /\ loop.at # "free" => job = NoJob
    /\ loop.at = "reload" => helper = Idle /\ detached = 0
    /\ job # NoJob => detached = 0
    /\ job # NoJob /\ MustLoad(job.who) => disk.file # Broken
    /\ helper # Idle => helper.want = disk.file
    /\ \A c \in Callers : ask[c].state = "waiting" <=> Asks(c)

\* What a command finds before it changes the disk.
Found(op, d) ==
    CASE op \in {"update", "probed", "disable"} -> d.file # None
      [] op = "enable" -> d.off # None
      [] op = "delete" -> d.file # None \/ d.off # None
      [] OTHER -> TRUE

\* The disk of a change that waits: what the command wrote over what was there.
ChangeOnDisk ==
    \A c \in Callers : ask[c].state = "waiting" =>
        /\ Found(ask[c].op, ask[c].before)
        /\ ask[c].op \in Ops
        /\ \E v \in Content \ {None} : disk = Changed(ask[c].op, v, ask[c].before)

\* The types of a control request and of a reload under way.
AskType == [op : AllOps \cup {"none"}, before : [Paths -> Content],
            state : {"idle", "waiting", "done", "refused"}]
JobType == [stage : Stages, outcome : {"fine", "refused", "down"}, next : Gens,
            stale : BOOLEAN, who : Callers \cup {Hup}]

\* What holds in every setting.
Base == setting \in Settings /\ TypeOK /\ LoopNamed /\ HelperServes /\ CertsForward

\* The invariant a refusal rests on.
Owned == Base /\ (Calm => Serial /\ ChangeOnDisk)

-----------------------------------------------------------------------------
(* The site's files.                                                          *)

\* No step changes the setting.
LEMMA SettingKept ==
    ASSUME setting' = setting
    PROVE  /\ Callers' = Callers /\ Ops' = Ops /\ Faults' = Faults /\ Written' = Written
           /\ MaxEdits' = MaxEdits /\ MaxRenewals' = MaxRenewals
           /\ Calm' = Calm /\ Orderly' = Orderly /\ Gens' = Gens
    BY DEF Callers, Ops, Faults, Written, MaxEdits, MaxRenewals, Calm, Orderly, Gens

\* What the assumption on the settings says of the one in use.
LEMMA SettingType ==
    ASSUME setting \in Settings
    PROVE  /\ Written \subseteq Content /\ Ops \subseteq AllOps
           /\ MaxEdits \in Nat /\ MaxRenewals \in Nat /\ Calm \in BOOLEAN
           /\ Hup \notin Callers /\ "nobody" \notin Callers
    BY ReloadAssumption DEF Written, Ops, MaxEdits, MaxRenewals, Calm, Callers, Content, Hup

\* What each command leaves: a disk with the three paths.
LEMMA DiskType ==
    ASSUME NEW d \in [Paths -> Content], NEW op, NEW v \in Content
    PROVE  Changed(op, v, d) \in [Paths -> Content] /\ PutBack(op, d) \in [Paths -> Content]
<1>1. None \in Content
    BY DEF Content
<1>2. ASSUME NEW e \in [Paths -> Content], NEW from \in Paths, NEW to \in Paths
      PROVE  Renamed(e, from, to) \in [Paths -> Content]
    BY <1>1, <1>2 DEF Renamed, Paths
<1>3. "file" \in Paths /\ "bak" \in Paths /\ "off" \in Paths
    BY DEF Paths
<1>4. write_site_file(d, v) \in [Paths -> Content]
    BY Zenon, <1>3 DEF write_site_file
<1>5. [Renamed(d, "file", "bak") EXCEPT !.off = None] \in [Paths -> Content]
    BY Zenon, <1>1, <1>2, <1>3
<1>6. [d EXCEPT !.file = None] \in [Paths -> Content]
    BY <1>1
<1>. QED  BY Zenon, <1>2, <1>3, <1>4, <1>5, <1>6 DEF Changed, PutBack

\* A refused command puts back what was there, where it can.
LEMMA PutBackUndoes ==
    ASSUME NEW d \in [Paths -> Content], NEW op \in AllOps, NEW v \in Content \ {None},
           Found(op, d), Restorable(op, d)
    PROVE  /\ PutBack(op, Changed(op, v, d)).file = d.file
           /\ PutBack(op, Changed(op, v, d)).off = d.off
<1>1. CASE op = "create"
    BY Zenon, <1>1 DEF PutBack, Changed, Renamed, write_site_file, Found, Restorable, Paths
<1>2. CASE op \in {"update", "probed"}
    BY Zenon, <1>2 DEF PutBack, Changed, Renamed, write_site_file, Found, Restorable, Paths
<1>3. CASE op = "enable"
    BY <1>3 DEF PutBack, Changed, Renamed, Found, Restorable, Paths
<1>4. CASE op = "disable"
    BY <1>4 DEF PutBack, Changed, Renamed, Found, Restorable, Paths
<1>5. CASE op = "delete"
    BY Zenon, <1>5 DEF PutBack, Changed, Renamed, Found, Restorable, Paths
<1>. QED  BY <1>1, <1>2, <1>3, <1>4, <1>5 DEF AllOps

-----------------------------------------------------------------------------
(* The cases of the longer operators.                                         *)

\* reload_async answers at once, refused or committed, or starts a job.
LEMMA ReloadAsyncCases ==
    ASSUME NEW who, reload_async(who)
    PROVE  \/ Answered(who, FALSE) /\ job' = job /\ gen' = gen
           \/ /\ job = NoJob /\ gen.ver = None /\ Loaded.ver = None
              /\ Answered(who, TRUE) /\ job' = job /\ gen' = Loaded
           \/ /\ job = NoJob
              /\ job' = [stage |-> FirstStage(Loaded), outcome |-> "fine", next |-> Loaded,
                         stale |-> FALSE, who |-> who]
              /\ disk' = disk /\ ask' = ask /\ gen' = gen
              /\ MustLoad(who) => disk.file # Broken
    BY Zenon DEF reload_async, prepare_reload_refuses, commit_reload_refuses

\* reload() refuses, or switches and leaves worker 0 waiting for the pools.
LEMMA ReloadNowCases ==
    ASSUME NEW who, reload_now(who)
    PROVE  \/ Answered(who, FALSE) /\ loop' = Free /\ gen' = gen /\ detached' = detached
           \/ /\ job = NoJob /\ gen' = Loaded /\ detached' \in {detached, detached + 1}
              /\ loop' = [at |-> "apply", who |-> who] /\ disk' = disk /\ ask' = ask
    BY Zenon DEF reload_now, prepare_reload_refuses, commit_reload_refuses

\* The posted handler ends the reload refused, or commits and starts the full phase.
LEMMA SwitchCases ==
    ASSUME Switch
    PROVE  /\ loop = Free /\ job.stage = "ended"
           /\ pools' = pools /\ helper' = helper /\ signal' = signal /\ edits' = edits /\ renewed' = renewed
           /\ \/ /\ Finished(FALSE) /\ gen' = gen /\ detached' \in {detached, detached + 1}
                 /\ \/ job.outcome # "fine"
                    \/ Faults # {}
                    \/ MustLoad(job.who) /\ disk.file = Broken
              \/ /\ job.outcome = "fine" /\ gen' = Committed
                 /\ job' = [job EXCEPT !.stage = "full"]
                 /\ disk' = disk /\ ask' = ask /\ again' = again /\ loop' = loop /\ detached' = detached
    BY Zenon DEF Switch, prepare_reload_refuses, commit_reload_refuses

\* The pools there are, with or without the one wanted; or only that one.
LEMMA WritePoolsCases ==
    ASSUME NEW phase, NEW want, NEW fails \in BOOLEAN
    PROVE  /\ want = Broken => write_pools(phase, want, fails) = pools
           /\ want # Broken /\ phase = "up" =>
                write_pools(phase, want, fails) = IF want = None \/ fails THEN pools ELSE pools \cup {want}
           /\ want # Broken /\ phase # "up" /\ want = None => write_pools(phase, want, fails) = {}
           /\ want # Broken /\ phase # "up" /\ want # None =>
                write_pools(phase, want, fails) = IF fails THEN pools \cap {want} ELSE {want}
<1>1. CASE want = Broken
    BY <1>1 DEF write_pools
<1>2. CASE want # Broken /\ phase = "up"
    BY <1>2 DEF write_pools
<1>3. CASE want # Broken /\ phase # "up"
    BY <1>3 DEF write_pools
<1>. QED  BY <1>1, <1>2, <1>3

\* An answer keeps the types of the disk and of the requests.
LEMMA AnsweredType ==
    ASSUME setting \in Settings, TypeOK, NEW who, NEW ok, Answered(who, ok)
    PROVE  /\ disk' \in [Paths -> Content]
           /\ ask' \in [Callers -> AskType]
<1>1. disk' \in [Paths -> Content]
  <2>1. PutBack(ask[who].op, disk) \in [Paths -> Content]
      BY Zenon, DiskType DEF TypeOK, Content
  <2>. QED  BY <2>1 DEF Answered, TypeOK
<1>2. CASE who = Hup
    BY <1>1, <1>2 DEF Answered, TypeOK, AskType
<1>3. CASE who # Hup
  <2>1. ask' = [ask EXCEPT ![who].state = IF ok THEN "done" ELSE "refused"]
      BY <1>3 DEF Answered
  <2>2. CASE who \in Callers
    <3>1. ask \in [Callers -> AskType]
        BY DEF TypeOK, AskType
    <3>2. ASSUME NEW a \in AskType, NEW s \in {"done", "refused"}
          PROVE  [a EXCEPT !.state = s] \in AskType
        BY <3>2 DEF AskType
    <3>3. ask' = [ask EXCEPT ![who] = [ask[who] EXCEPT !.state = IF ok THEN "done" ELSE "refused"]]
        BY <2>1
    <3>4. [ask[who] EXCEPT !.state = IF ok THEN "done" ELSE "refused"] \in AskType
        BY Zenon, <2>2, <3>1, <3>2
    <3>5. ask' \in [Callers -> AskType]
        BY Zenon, <3>1, <3>3, <3>4
    <3>. QED  BY <1>1, <3>5
  <2>3. CASE who \notin Callers
    <3>1. ask' = ask
        BY <2>1, <2>3 DEF TypeOK
    <3>. QED  BY <1>1, <3>1 DEF TypeOK, AskType
  <2>. QED  BY <2>2, <2>3
<1>. QED  BY <1>2, <1>3

\* The generation a load builds is a generation.
LEMMA LoadedType ==
    ASSUME setting \in Settings, TypeOK
    PROVE  Loaded \in Gens /\ Loaded.cert = renewed /\ FirstStage(Loaded) \in Stages
<1>1. disk.file \in Content
    BY DEF TypeOK, Paths
<1>. QED  BY <1>1 DEF TypeOK, Loaded, Gens, Content, FirstStage, Stages

-----------------------------------------------------------------------------
(* What holds in every setting.                                               *)

\* reload_async keeps the types, and never loads an older certificate.
LEMMA AsyncBase ==
    ASSUME Base, NEW who \in Callers \cup {Hup}, reload_async(who),
           setting' = setting, renewed' = renewed
    PROVE  /\ disk' \in [Paths -> Content] /\ ask' \in [Callers -> AskType]
           /\ gen' \in Gens /\ (job' = NoJob \/ job' \in JobType)
           /\ CertsForward'
           /\ job # NoJob => job' = job
<1>. USE DEF Base
<1>1. CASE Answered(who, FALSE) /\ job' = job /\ gen' = gen
    BY Zenon, <1>1, AnsweredType DEF TypeOK, JobType, CertsForward
<1>2. CASE job = NoJob /\ Answered(who, TRUE) /\ job' = job /\ gen' = Loaded
  <2>1. CertsForward'
    <3>1. Loaded.cert \in Nat /\ Loaded.cert = renewed
        BY LoadedType DEF TypeOK
    <3>. QED  BY <1>2, <3>1 DEF CertsForward
  <2>. QED  BY Zenon, <1>2, <2>1, AnsweredType, LoadedType
<1>3. CASE /\ job = NoJob
           /\ job' = [stage |-> FirstStage(Loaded), outcome |-> "fine", next |-> Loaded,
                      stale |-> FALSE, who |-> who]
           /\ disk' = disk /\ ask' = ask /\ gen' = gen
  <2>1. job' \in JobType
      BY <1>3, LoadedType DEF JobType
  <2>2. CertsForward'
      BY <1>3, LoadedType DEF CertsForward, TypeOK
  <2>. QED  BY <1>3, <2>1, <2>2 DEF TypeOK, AskType
<1>. QED  BY Zenon, <1>1, <1>2, <1>3, ReloadAsyncCases

\* finish keeps the types.
LEMMA FinishedBase ==
    ASSUME Base, NEW ok, Finished(ok), setting' = setting
    PROVE  /\ disk' \in [Paths -> Content] /\ ask' \in [Callers -> AskType]
           /\ job' = NoJob /\ again' = FALSE
           /\ loop' \in {[at |-> "again", who |-> Hup], Free}
<1>1. Answered(job.who, ok)
    BY DEF Finished
<1>. QED  BY <1>1, AnsweredType DEF Finished, Base

\* Every step of the program keeps what holds in every setting.
LEMMA BaseStep ==
    ASSUME Base, Next
    PROVE  Base'
<1>1. setting' = setting /\ setting' \in Settings
    BY DEF Next, Base
<1>2. /\ Callers' = Callers /\ MaxEdits' = MaxEdits /\ MaxRenewals' = MaxRenewals /\ Gens' = Gens
      /\ MaxEdits \in Nat /\ MaxRenewals \in Nat /\ Hup \notin Callers /\ "nobody" \notin Callers
    BY <1>1, SettingKept, SettingType
<1>3. TypeOK' <=> /\ disk' \in [Paths -> Content] /\ gen' \in Gens /\ pools' \subseteq Versions
                  /\ job' = NoJob \/ job' \in JobType
                  /\ again' \in BOOLEAN /\ signal' \in BOOLEAN
                  /\ loop' \in [at : {"free", "reload", "again", "apply"}, who : Callers \cup {Hup, "nobody"}]
                  /\ helper' = Idle \/ helper' \in [phase : {"up", "full"}, of : {"job", "detached", "loop"}, want : Content]
                  /\ detached' \in Nat /\ edits' \in 0..MaxEdits /\ renewed' \in 0..MaxRenewals
                  /\ ask' \in [Callers -> AskType]
    BY <1>2 DEF TypeOK, JobType, AskType
<1>4. TypeOK => /\ job = NoJob \/ job \in JobType
                /\ ask \in [Callers -> AskType]
    BY DEF TypeOK, JobType, AskType
<1>5. ASSUME NEW c \in Callers, Change(c) PROVE Base'
  <2>1. PICK op \in Ops, v \in Written \ {None} :
            /\ disk' = Changed(op, v, disk)
            /\ ask' = [ask EXCEPT ![c] = [op |-> op, before |-> disk, state |-> "waiting"]]
      BY Zenon, <1>5 DEF Change
  <2>2. op \in AllOps /\ v \in Content
      BY SettingType DEF Base
  <2>3. disk' \in [Paths -> Content]
      BY <2>1, <2>2, DiskType DEF Base, TypeOK
  <2>4. [op |-> op, before |-> disk, state |-> "waiting"] \in AskType
      BY <2>2 DEF AskType, Base, TypeOK
  <2>5. ask' \in [Callers -> AskType]
      BY <1>4, <2>1, <2>4 DEF Base
  <2>6. TypeOK'
      BY <1>3, <1>4, <1>5, <2>3, <2>5 DEF Change, Base, TypeOK
  <2>7. LoopNamed' /\ HelperServes' /\ CertsForward'
      BY <1>2, <1>5 DEF Change, Base, LoopNamed, HelperServes, CertsForward, Free
  <2>. QED  BY <1>1, <2>6, <2>7 DEF Base
<1>6. ASSUME NEW who \in Callers \cup {Hup}, reload_async(who), loop' \in {loop, Free},
             again' = TRUE \/ again' = again, signal' = FALSE \/ signal' = signal, loop.at # "apply",
             UNCHANGED <<pools, helper, detached, edits, renewed>>
      PROVE Base'
  <2>1. /\ disk' \in [Paths -> Content] /\ ask' \in [Callers -> AskType]
        /\ gen' \in Gens /\ (job' = NoJob \/ job' \in JobType) /\ CertsForward'
        /\ job # NoJob => job' = job
      BY <1>1, <1>6, AsyncBase
  <2>2. TypeOK'
    <3>1. loop' \in [at : {"free", "reload", "again", "apply"}, who : Callers \cup {Hup, "nobody"}]
        BY <1>6 DEF Base, TypeOK, Free
    <3>2. again' \in BOOLEAN /\ signal' \in BOOLEAN
        BY Zenon, <1>6 DEF Base, TypeOK
    <3>. QED  BY <1>3, <1>6, <2>1, <3>1, <3>2 DEF Base, TypeOK
  <2>3. LoopNamed' /\ HelperServes'
      BY <1>2, <1>6, <2>1 DEF Base, LoopNamed, HelperServes, Free, NoJob, TypeOK
  <2>. QED  BY <1>1, <2>1, <2>2, <2>3 DEF Base
<1>7. ASSUME ReloadThen PROVE Base'
  <2>1. loop.who \in Callers
      BY <1>7 DEF ReloadThen, Base, LoopNamed
  <2>2. CASE ask[loop.who].op # "probed"
      BY <1>6, <1>7, <2>1, <2>2 DEF ReloadThen
  <2>3. CASE ask[loop.who].op = "probed"
    <3>1. reload_now(loop.who) /\ job' = job
        BY <1>7, <2>3 DEF ReloadThen
    <3>2. CASE Answered(loop.who, FALSE) /\ loop' = Free /\ gen' = gen /\ detached' = detached
      <4>1. disk' \in [Paths -> Content] /\ ask' \in [Callers -> AskType]
          BY Zenon, <3>2, AnsweredType DEF Base
      <4>2. TypeOK'
          BY <1>3, <1>4, <1>7, <3>1, <3>2, <4>1 DEF ReloadThen, Base, TypeOK, Free
      <4>3. LoopNamed' /\ HelperServes' /\ CertsForward'
          BY <1>2, <1>7, <3>1, <3>2 DEF ReloadThen, Base, LoopNamed, HelperServes, CertsForward, Free
      <4>. QED  BY <1>1, <4>2, <4>3 DEF Base
    <3>3. CASE /\ job = NoJob /\ gen' = Loaded /\ detached' \in {detached, detached + 1}
               /\ loop' = [at |-> "apply", who |-> loop.who] /\ disk' = disk /\ ask' = ask
      <4>1. gen' \in Gens /\ gen'.cert = renewed
          BY <3>3, LoadedType DEF Base
      <4>2. TypeOK'
          BY <1>3, <1>4, <1>7, <2>1, <3>1, <3>3, <4>1 DEF ReloadThen, Base, TypeOK
      <4>3. LoopNamed' /\ HelperServes'
          BY <1>2, <1>7, <2>1, <3>1, <3>3 DEF ReloadThen, Base, LoopNamed, HelperServes, TypeOK
      <4>4. CertsForward'
          BY <1>7, <3>1, <3>3, <4>1 DEF ReloadThen, Base, CertsForward, TypeOK
      <4>. QED  BY <1>1, <4>2, <4>3, <4>4 DEF Base
    <3>. QED  BY Zenon, <3>1, <3>2, <3>3, ReloadNowCases
  <2>. QED  BY <2>2, <2>3
<1>8. ASSUME on_hup PROVE Base'
  <2>1. CASE job = NoJob
      BY Zenon, <1>6, <1>8, <2>1 DEF on_hup, Free
  <2>2. CASE job # NoJob
    <3>1. TypeOK'
        BY Zenon, <1>3, <1>4, <1>8, <2>2 DEF on_hup, Base, TypeOK
    <3>2. LoopNamed' /\ HelperServes' /\ CertsForward'
        BY <1>2, <1>8, <2>2 DEF on_hup, Base, LoopNamed, HelperServes, CertsForward
    <3>. QED  BY <1>1, <3>1, <3>2 DEF Base
  <2>. QED  BY <2>1, <2>2
<1>9. ASSUME RunAgain PROVE Base'
    BY <1>6, <1>9 DEF RunAgain
<1>10. ASSUME NEW ok, Finished(ok), gen' = gen, detached' \in {detached, detached + 1}, loop = Free,
              job.stage \in {"ended", "done"}, UNCHANGED <<pools, helper, signal, edits, renewed>>
       PROVE  Base'
  <2>1. /\ disk' \in [Paths -> Content] /\ ask' \in [Callers -> AskType]
        /\ job' = NoJob /\ again' = FALSE /\ loop' \in {[at |-> "again", who |-> Hup], Free}
      BY Zenon, <1>1, <1>10, FinishedBase
  <2>2. TypeOK'
    <3>1. loop' \in [at : {"free", "reload", "again", "apply"}, who : Callers \cup {Hup, "nobody"}]
        BY <2>1 DEF Free
    <3>2. detached' \in Nat
        BY <1>10 DEF Base, TypeOK
    <3>3. again' \in BOOLEAN
        BY Zenon, <2>1
    <3>. QED  BY <1>3, <1>10, <2>1, <3>1, <3>2, <3>3 DEF Base, TypeOK
  <2>3. LoopNamed' /\ CertsForward'
      BY <1>2, <1>10, <2>1 DEF Base, LoopNamed, CertsForward, Free
  <2>4. HelperServes'
      BY <1>10, <2>1 DEF Base, HelperServes, Free, TypeOK
  <2>. QED  BY <1>1, <2>2, <2>3, <2>4 DEF Base
<1>11. ASSUME Switch PROVE Base'
  <2>1. /\ loop = Free /\ job.stage = "ended"
        /\ pools' = pools /\ helper' = helper /\ signal' = signal /\ edits' = edits /\ renewed' = renewed
      BY <1>11, SwitchCases
  <2>2. CASE Finished(FALSE) /\ gen' = gen /\ detached' \in {detached, detached + 1}
      BY Zenon, <1>10, <2>1, <2>2
  <2>3. CASE /\ gen' = Committed /\ job' = [job EXCEPT !.stage = "full"]
             /\ disk' = disk /\ ask' = ask /\ again' = again /\ loop' = loop /\ detached' = detached
    <3>1. job \in JobType /\ job # NoJob
        BY <1>4, <2>1 DEF Base, NoJob
    <3>2. job' \in JobType /\ job'.next = job.next /\ job'.stale = job.stale
        BY <2>3, <3>1 DEF JobType, Stages
    <3>3. gen' \in Gens
        BY <2>3, <3>1, LoadedType DEF Committed, Base, JobType
    <3>4. gen'.cert <= renewed /\ (job.stale \/ gen'.cert = job.next.cert)
        BY <2>3, <3>1, LoadedType DEF Committed, Base, CertsForward, TypeOK, JobType
    <3>5. TypeOK'
        BY <1>3, <1>4, <2>1, <2>3, <3>2, <3>3 DEF Base, TypeOK
    <3>6. LoopNamed' /\ HelperServes'
        BY <1>2, <2>1, <2>3 DEF Base, LoopNamed, HelperServes, Free, TypeOK
    <3>7. CertsForward'
      <4>1. job.next.cert \in Nat
          BY <3>1, SettingType DEF JobType, Gens, Base
      <4>. QED  BY <2>1, <3>1, <3>2, <3>4, <4>1 DEF Base, CertsForward
    <3>. QED  BY <1>1, <3>5, <3>6, <3>7 DEF Base
  <2>. QED  BY Zenon, <1>11, <2>2, <2>3, SwitchCases
<1>12. ASSUME Done PROVE Base'
    BY Zenon, <1>10, <1>12 DEF Done
<1>13. ASSUME refresh_certificates PROVE Base'
  <2>1. gen' \in Gens /\ gen'.cert = renewed
      BY <1>13 DEF refresh_certificates, Base, TypeOK, Gens
  <2>2. CASE job = NoJob
    <3>1. TypeOK'
        BY <1>3, <1>4, <1>13, <2>1, <2>2 DEF refresh_certificates, Base, TypeOK
    <3>2. LoopNamed' /\ HelperServes' /\ CertsForward'
        BY <1>2, <1>13, <2>1, <2>2 DEF refresh_certificates, Base, LoopNamed, HelperServes, CertsForward, TypeOK
    <3>. QED  BY <1>1, <3>1, <3>2 DEF Base
  <2>3. CASE job # NoJob
    <3>1. job \in JobType /\ job' = [job EXCEPT !.stale = TRUE]
        BY <1>4, <1>13, <2>3 DEF refresh_certificates, Base
    <3>2. job' \in JobType /\ job'.stale = TRUE /\ job'.next = job.next /\ job'.stage = job.stage
        BY Zenon, <3>1 DEF JobType
    <3>3. TypeOK'
        BY <1>3, <1>4, <1>13, <2>1, <3>2 DEF refresh_certificates, Base, TypeOK
    <3>4. LoopNamed' /\ HelperServes' /\ CertsForward'
        BY <1>2, <1>13, <2>1, <2>3, <3>2 DEF refresh_certificates, Base, LoopNamed, HelperServes, CertsForward, TypeOK
    <3>. QED  BY <1>1, <3>3, <3>4 DEF Base
  <2>. QED  BY <2>2, <2>3
<1>14. ASSUME Preflight PROVE Base'
  <2>1. job \in JobType /\ job # NoJob /\ job.stage = "preflight"
      BY <1>4, <1>14 DEF Preflight, Base
  <2>2. job' \in JobType /\ job'.stale = job.stale /\ job'.next = job.next
      BY Zenon, <1>14, <2>1 DEF Preflight, JobType, Stages
  <2>3. TypeOK'
      BY <1>3, <1>4, <1>14, <2>2 DEF Preflight, Base, TypeOK
  <2>4. LoopNamed' /\ HelperServes' /\ CertsForward'
      BY <1>2, <1>14, <2>1, <2>2 DEF Preflight, Base, LoopNamed, HelperServes, CertsForward, TypeOK
  <2>. QED  BY <1>1, <2>3, <2>4 DEF Base
<1>15. ASSUME HelperReads PROVE Base'
  <2>1. PICK r \in Requests : helper' = [phase |-> r.phase, of |-> r.of, want |-> disk.file]
      BY <1>15 DEF HelperReads
  <2>2. disk.file \in Content
      BY DEF Base, TypeOK, Paths
  <2>3. /\ r.phase \in {"up", "full"} /\ r.of \in {"job", "detached", "loop"}
        /\ r.of = "job" => job.stage = r.phase
        /\ r.of = "detached" => r.phase = "full" /\ detached > 0
        /\ r.of = "loop" => r.phase = "full" /\ loop.at = "apply"
      BY <2>1 DEF Requests
  <2>4. TypeOK'
      BY <1>3, <1>4, <1>15, <2>1, <2>2, <2>3 DEF HelperReads, Base, TypeOK
  <2>5. HelperServes'
      BY <1>15, <2>1, <2>3 DEF HelperReads, HelperServes
  <2>6. LoopNamed' /\ CertsForward'
      BY <1>2, <1>15 DEF HelperReads, Base, LoopNamed, CertsForward
  <2>. QED  BY <1>1, <2>4, <2>5, <2>6 DEF Base
<1>16. ASSUME HelperWrites PROVE Base'
  <2>1. PICK fails \in BOOLEAN :
          /\ pools' = write_pools(helper.phase, helper.want, fails)
          /\ job' = IF helper.of # "job" THEN job
                    ELSE IF helper.phase = "full" THEN [job EXCEPT !.stage = "done"]
                    ELSE [job EXCEPT !.stage = "ended", !.outcome = IF fails THEN "down" ELSE "fine"]
      BY Zenon, <1>16 DEF HelperWrites, reload_runtime_fails
  <2>2. helper \in [phase : {"up", "full"}, of : {"job", "detached", "loop"}, want : Content]
      BY <1>16 DEF HelperWrites, Base, TypeOK
  <2>3. pools' \subseteq Versions
    <3>1. pools \subseteq Versions /\ helper.want \in Versions \cup {Broken, None}
        BY <2>2 DEF Content, Base, TypeOK
    <3>. QED  BY <2>1, <3>1, WritePoolsCases
  <2>4. helper.of = "job" => job # NoJob /\ job \in JobType
      BY <1>4, <1>16, <2>2 DEF HelperWrites, Base, HelperServes, NoJob
  <2>5. /\ job = NoJob => job' = NoJob
        /\ job # NoJob => job' \in JobType /\ job'.stale = job.stale /\ job'.next = job.next
      BY Zenon, <1>4, <2>1, <2>4 DEF JobType, Stages, Base
  <2>6. detached' \in Nat
      BY <1>16, <2>2 DEF HelperWrites, Base, HelperServes, TypeOK
  <2>7. disk' \in [Paths -> Content] /\ ask' \in [Callers -> AskType]
    <3>1. CASE helper.of = "loop"
        BY Zenon, <1>16, <3>1, AnsweredType DEF HelperWrites, Base
    <3>2. CASE helper.of # "loop"
        BY <1>4, <1>16, <3>2 DEF HelperWrites, Base, TypeOK
    <3>. QED  BY <3>1, <3>2
  <2>8. loop' \in {loop, Free}
      BY Zenon, <1>16 DEF HelperWrites
  <2>9. loop' \in [at : {"free", "reload", "again", "apply"}, who : Callers \cup {Hup, "nobody"}]
      BY <2>8 DEF Base, TypeOK, Free
  <2>10. job' = NoJob \/ job' \in JobType
      BY <1>4, <2>5 DEF Base
  <2>11. TypeOK'
      BY <1>3, <1>16, <2>3, <2>6, <2>7, <2>9, <2>10 DEF HelperWrites, Base, TypeOK
  <2>12. LoopNamed'
      BY <1>2, <2>8 DEF Base, LoopNamed, Free
  <2>13. HelperServes'
      BY <1>16 DEF HelperWrites, HelperServes
  <2>14. CertsForward'
      BY <1>16, <2>5 DEF HelperWrites, Base, CertsForward
  <2>. QED  BY SMTT(30), <1>1, <2>11, <2>12, <2>13, <2>14 DEF Base
<1>17. ASSUME Edit PROVE Base'
  <2>1. PICK v \in Written \ {disk.file} : disk' = [disk EXCEPT !.file = v]
      BY <1>17 DEF Edit
  <2>2. disk' \in [Paths -> Content]
      BY <2>1, SettingType DEF Base, TypeOK
  <2>3. TypeOK'
      BY <1>2, <1>3, <1>4, <1>17, <2>2 DEF Edit, Base, TypeOK
  <2>4. LoopNamed' /\ HelperServes' /\ CertsForward'
      BY <1>2, <1>17 DEF Edit, Base, LoopNamed, HelperServes, CertsForward
  <2>. QED  BY <1>1, <2>3, <2>4 DEF Base
<1>18. ASSUME Renew PROVE Base'
  <2>1. TypeOK'
      BY <1>2, <1>3, <1>4, <1>18 DEF Renew, Base, TypeOK
  <2>2. LoopNamed' /\ HelperServes'
      BY <1>2, <1>18 DEF Renew, Base, LoopNamed, HelperServes
  <2>3. CertsForward'
    <3>1. job # NoJob => job.next.cert \in Nat
        BY <1>2, <1>4 DEF Base, JobType, Gens
    <3>. QED  BY <1>2, <1>18, <3>1 DEF Renew, Base, CertsForward, TypeOK, Gens
  <2>. QED  BY <1>1, <2>1, <2>2, <2>3 DEF Base
<1>. QED
    BY <1>5, <1>7, <1>8, <1>9, <1>11, <1>12, <1>13, <1>14, <1>15, <1>16, <1>17, <1>18 DEF Next, System

-----------------------------------------------------------------------------
(* Changes that come one at a time.                                           *)

\* An answer ends the wait of the one answered and of nobody else.
LEMMA AnsweredWait ==
    ASSUME Base, NEW who \in Callers \cup {Hup}, NEW ok, Answered(who, ok)
    PROVE  /\ \A c \in Callers : c # who => ask'[c] = ask[c]
           /\ who # Hup => ask'[who].state # "waiting"
           /\ ok => disk' = disk
           /\ who = Hup => disk' = disk /\ ask' = ask
<1>1. CASE who = Hup
    BY <1>1 DEF Answered
<1>2. CASE who # Hup
  <2>1. who \in Callers /\ ask \in [Callers -> AskType]
      BY <1>2 DEF Base, TypeOK, AskType
  <2>2. ask' = [ask EXCEPT ![who].state = IF ok THEN "done" ELSE "refused"]
      BY <1>2 DEF Answered
  <2>3. ask'[who].state = IF ok THEN "done" ELSE "refused"
      BY <2>1, <2>2 DEF AskType
  <2>. QED  BY <1>2, <2>1, <2>2, <2>3 DEF Answered
<1>. QED  BY <1>1, <1>2

\* Nothing is under way and nobody waits.
LEMMA NobodyWaits ==
    ASSUME job' = NoJob, loop' = Free, ~again', helper' = Idle, signal' => detached' = 0,
           Callers' = Callers, \A c \in Callers : ask'[c].state # "waiting"
    PROVE  Serial' /\ ChangeOnDisk'
<1>1. Serial'
    BY DEF Serial, Free, Asks
<1>2. ChangeOnDisk'
    BY DEF ChangeOnDisk
<1>. QED  BY <1>1, <1>2

\* An answered reload leaves nobody waiting.
LEMMA AnswerEnds ==
    ASSUME Base, Serial, NEW who \in Callers \cup {Hup}, NEW ok, Answered(who, ok),
           \A c \in Callers : Asks(c) => c = who
    PROVE  \A c \in Callers : ask'[c].state # "waiting"
<1>1. SUFFICES ASSUME NEW c \in Callers PROVE ask'[c].state # "waiting"
    OBVIOUS
<1>2. CASE c = who
    BY <1>2, AnsweredWait, SettingType DEF Base
<1>3. CASE c # who
  <2>1. ask'[c] = ask[c]
      BY <1>3, AnsweredWait
  <2>. QED  BY <1>3, <2>1 DEF Serial
<1>. QED  BY <1>2, <1>3

\* While a reload runs its helper works for it alone.
LEMMA HelperIdle ==
    ASSUME Base, Serial, loop = Free, job # NoJob, job.stage \notin {"up", "full"}
    PROVE  helper = Idle
    BY DEF Base, Serial, HelperServes, TypeOK, Free

\* One at a time stays one at a time.
LEMMA SerialStep ==
    ASSUME Base, Calm, Serial, ChangeOnDisk, Next
    PROVE  Serial' /\ ChangeOnDisk'
<1>1. setting' = setting /\ Callers' = Callers /\ Ops' = Ops /\ Hup \notin Callers /\ "nobody" \notin Callers
    BY SettingKept, SettingType DEF Next, Base
<1>2. ask \in [Callers -> AskType] /\ (job = NoJob \/ job \in JobType)
    BY DEF Base, TypeOK, AskType, JobType
<1>3. ASSUME NEW c \in Callers, Change(c) PROVE Serial' /\ ChangeOnDisk'
  <2>1. Quiet /\ loop' = [at |-> "reload", who |-> c] /\ UNCHANGED <<job, again, helper, detached, signal>>
      BY <1>3 DEF Change
  <2>2. PICK op \in Ops, v \in Written \ {None} :
            /\ Allowed(op, disk) /\ disk' = Changed(op, v, disk)
            /\ ask' = [ask EXCEPT ![c] = [op |-> op, before |-> disk, state |-> "waiting"]]
      BY Zenon, <1>3 DEF Change
  <2>3. \A d \in Callers : ask[d].state # "waiting"
      BY <2>1 DEF Quiet, Serial, Asks, Free
  <2>4. /\ ask'[c] = [op |-> op, before |-> disk, state |-> "waiting"]
        /\ \A d \in Callers : d # c => ask'[d].state # "waiting"
      BY <1>2, <2>2, <2>3
  <2>5. Serial'
    <3>1. \A d \in Callers : ask'[d].state = "waiting" <=> Asks(d)'
        BY <2>1, <2>4 DEF Asks, Quiet
    <3>. QED  BY <1>1, <2>1, <3>1 DEF Quiet, Serial
  <2>6. ChangeOnDisk'
    <3>1. v \in Content \ {None} /\ op \in AllOps
        BY SettingType DEF Base
    <3>2. Found(op, disk)
        BY <2>2, <3>1 DEF Allowed, Found, AllOps
    <3>3. /\ ask'[c].op = op /\ ask'[c].before = disk
        BY SMTT(30), <2>4
    <3>. QED  BY <1>1, <2>2, <2>4, <3>1, <3>2, <3>3 DEF ChangeOnDisk
  <2>. QED  BY <2>5, <2>6
<1>4. ASSUME NEW who \in Callers \cup {Hup}, reload_async(who), loop' = Free, again' = again, signal' = FALSE,
             helper' = helper, detached' = detached, job = NoJob, helper = Idle, detached = 0,
             loop.at # "free" => loop.who = who, loop.at = "free" => who = Hup
      PROVE Serial' /\ ChangeOnDisk'
  <2>1. \A c \in Callers : Asks(c) => c = who
      BY <1>4 DEF Asks
  <2>2. ASSUME NEW ok, Answered(who, ok), job' = job PROVE Serial' /\ ChangeOnDisk'
    <3>1. \A c \in Callers : ask'[c].state # "waiting"
        BY <2>1, <2>2, AnswerEnds
    <3>. QED  BY Zenon, <1>1, <1>4, <2>2, <3>1, NobodyWaits DEF Serial
  <2>3. CASE /\ job' = [stage |-> FirstStage(Loaded), outcome |-> "fine", next |-> Loaded,
                         stale |-> FALSE, who |-> who]
             /\ disk' = disk /\ ask' = ask /\ (MustLoad(who) => disk.file # Broken)
    <3>1. job' # NoJob /\ job'.who = who
        BY <2>3 DEF NoJob
    <3>2. \A c \in Callers : ask'[c].state = "waiting" <=> Asks(c)'
        BY SMTT(30), <1>1, <1>4, <2>3, <3>1 DEF Serial, Asks, Free
    <3>3. Serial'
        BY SMTT(30), <1>1, <1>4, <2>3, <3>1, <3>2 DEF Serial, Free, MustLoad
    <3>4. ChangeOnDisk'
        BY Zenon, <1>1, <2>3 DEF ChangeOnDisk
    <3>. QED  BY <3>3, <3>4
  <2>. QED  BY Zenon, <1>4, <2>2, <2>3, ReloadAsyncCases
<1>5. ASSUME ReloadThen PROVE Serial' /\ ChangeOnDisk'
  <2>1. /\ loop.at = "reload" /\ loop.who \in Callers /\ job = NoJob /\ helper = Idle /\ detached = 0 /\ ~signal
        /\ UNCHANGED <<again, helper, signal>>
    <3>1. loop.at = "reload" /\ UNCHANGED <<again, helper, signal>>
        BY <1>5 DEF ReloadThen
    <3>2. loop.who \in Callers
        BY <3>1 DEF Base, LoopNamed
    <3>. QED  BY <3>1, <3>2 DEF Serial, Free
  <2>2. signal' = FALSE
      BY <2>1 DEF Base, TypeOK
  <2>3. CASE ask[loop.who].op # "probed"
      BY Zenon, <1>4, <1>5, <2>1, <2>2, <2>3 DEF ReloadThen
  <2>4. CASE ask[loop.who].op = "probed"
    <3>1. reload_now(loop.who) /\ job' = job
        BY <1>5, <2>4 DEF ReloadThen
    <3>2. CASE Answered(loop.who, FALSE) /\ loop' = Free /\ detached' = detached
      <4>1. \A c \in Callers : ask'[c].state # "waiting"
          BY Zenon, <2>1, <3>2, AnswerEnds DEF Asks
      <4>. QED  BY <1>1, <2>1, <2>2, <3>1, <3>2, <4>1, NobodyWaits DEF Serial
    <3>3. CASE loop' = [at |-> "apply", who |-> loop.who] /\ disk' = disk /\ ask' = ask
      <4>1. \A c \in Callers : ask'[c].state = "waiting" <=> Asks(c)'
          BY <2>1, <3>1, <3>3 DEF Serial, Asks
      <4>2. Serial'
          BY <1>1, <2>1, <2>2, <3>1, <3>3, <4>1 DEF Serial
      <4>. QED  BY <1>1, <3>3, <4>2 DEF ChangeOnDisk
    <3>. QED  BY Zenon, <3>1, <3>2, <3>3, ReloadNowCases
  <2>. QED  BY SMTT(30), <2>3, <2>4
<1>6. ASSUME on_hup PROVE Serial' /\ ChangeOnDisk'
  <2>1. loop = Free /\ loop' = Free /\ job = NoJob /\ helper = Idle /\ detached = 0 /\ signal' = FALSE
        /\ reload_async(Hup) /\ UNCHANGED <<again, helper, detached>>
      BY <1>6 DEF on_hup, Serial
  <2>. QED  BY Zenon, <1>4, <2>1 DEF Free
<1>7. ASSUME NEW ok, Finished(ok), loop = Free, job \in JobType, job # NoJob, helper = Idle,
             helper' = helper, signal' = signal
      PROVE  Serial' /\ ChangeOnDisk'
  <2>1. job.who \in Callers \cup {Hup} /\ Answered(job.who, ok) /\ job' = NoJob /\ loop' = Free /\ ~again'
      BY Zenon, <1>7 DEF Finished, JobType, Serial
  <2>2. \A c \in Callers : ask'[c].state # "waiting"
      BY <1>1, <1>7, <2>1, AnswerEnds DEF Asks, Free
  <2>. QED  BY <1>1, <1>7, <2>1, <2>2, NobodyWaits DEF Serial
<1>8. ASSUME UNCHANGED <<disk, ask, again, signal, loop>>,
             job # NoJob => job' # NoJob /\ job'.who = job.who, job = NoJob => job' = NoJob,
             helper' \in {helper, Idle},
             detached' = detached \/ (job = NoJob /\ ~signal /\ loop.at # "reload")
      PROVE  Serial' /\ ChangeOnDisk'
  <2>1. \A c \in Callers : ask'[c].state = "waiting" <=> Asks(c)'
      BY <1>8 DEF Serial, Asks
  <2>2. Serial'
      BY <1>1, <1>8, <2>1 DEF Serial, MustLoad
  <2>. QED  BY <1>1, <1>8, <2>2 DEF ChangeOnDisk
<1>9. ASSUME Switch PROVE Serial' /\ ChangeOnDisk'
  <2>1. /\ loop = Free /\ job.stage = "ended"
        /\ pools' = pools /\ helper' = helper /\ signal' = signal
      BY <1>9, SwitchCases
  <2>2. job # NoJob /\ job \in JobType
      BY <1>2, <2>1 DEF NoJob
  <2>3. helper = Idle
      BY <2>1, <2>2, HelperIdle
  <2>4. CASE Finished(FALSE)
      BY Zenon, <1>7, <2>1, <2>2, <2>3, <2>4
  <2>5. CASE /\ job' = [job EXCEPT !.stage = "full"]
             /\ disk' = disk /\ ask' = ask /\ again' = again /\ loop' = loop /\ detached' = detached
    <3>1. job' # NoJob /\ job'.who = job.who
        BY <2>2, <2>5 DEF JobType, NoJob
    <3>. QED  BY <1>8, <2>1, <2>2, <2>5, <3>1
  <2>. QED  BY Zenon, <1>9, <2>4, <2>5, SwitchCases
<1>10. ASSUME Done PROVE Serial' /\ ChangeOnDisk'
  <2>1. job # NoJob /\ job \in JobType /\ helper = Idle
      BY <1>2, <1>10, HelperIdle DEF Done, NoJob
  <2>. QED  BY Zenon, <1>7, <1>10, <2>1 DEF Done
<1>11. ASSUME refresh_certificates PROVE Serial' /\ ChangeOnDisk'
  <2>1. job # NoJob => job' # NoJob /\ job'.who = job.who
    <3>1. ASSUME job # NoJob PROVE job' # NoJob /\ job'.who = job.who
      <4>1. job \in JobType /\ job' = [job EXCEPT !.stale = TRUE]
          BY <1>2, <1>11, <3>1 DEF refresh_certificates
      <4>. QED  BY <4>1 DEF JobType, NoJob, Stages
    <3>. QED  BY <3>1
  <2>. QED  BY <1>8, <1>11, <2>1 DEF refresh_certificates
<1>12. ASSUME Preflight PROVE Serial' /\ ChangeOnDisk'
  <2>1. job # NoJob /\ job \in JobType
      BY <1>2, <1>12 DEF Preflight
  <2>2. job' # NoJob /\ job'.who = job.who
      BY Zenon, <1>12, <2>1 DEF Preflight, JobType, NoJob
  <2>. QED  BY <1>8, <1>12, <2>1, <2>2 DEF Preflight
<1>13. ASSUME HelperReads PROVE Serial' /\ ChangeOnDisk'
  <2>1. PICK r \in Requests : helper' = [phase |-> r.phase, of |-> r.of, want |-> disk.file]
      BY <1>13 DEF HelperReads
  <2>2. job # NoJob \/ detached > 0 \/ loop.at = "apply"
      BY DEF Requests
  <2>3. ~signal /\ loop.at # "reload"
      BY <2>2 DEF Serial, Base, TypeOK, Free
  <2>4. UNCHANGED <<disk, ask, again, signal, loop, job, detached>>
      BY <1>13 DEF HelperReads
  <2>5. \A c \in Callers : ask'[c].state = "waiting" <=> Asks(c)'
      BY SMTT(30), <2>4 DEF Serial, Asks
  <2>6. Serial'
      BY <1>1, <2>1, <2>3, <2>4, <2>5 DEF Serial, MustLoad
  <2>. QED  BY <1>1, <2>4, <2>6 DEF ChangeOnDisk
<1>14. ASSUME HelperWrites PROVE Serial' /\ ChangeOnDisk'
  <2>1. helper # Idle /\ helper' = Idle /\ UNCHANGED <<again, signal>> /\ ~signal /\ loop.at # "reload"
      BY SMTT(30), <1>14 DEF HelperWrites, Serial
  <2>2. CASE helper.of = "loop"
    <3>1. /\ loop.at = "apply" /\ loop.who \in Callers /\ job = NoJob
          /\ job' = job /\ Answered(loop.who, TRUE) /\ loop' = Free
        BY Zenon, <1>14, <2>1, <2>2 DEF HelperWrites, Base, HelperServes, LoopNamed, Serial
    <3>2. \A c \in Callers : ask'[c].state # "waiting"
        BY Zenon, <3>1, AnswerEnds DEF Asks
    <3>. QED  BY <1>1, <2>1, <3>1, <3>2, NobodyWaits DEF Serial
  <2>3. CASE helper.of = "job"
    <3>1. job # NoJob /\ job \in JobType
        BY <1>2, <2>1, <2>3 DEF Base, HelperServes, TypeOK, NoJob
    <3>2. job' # NoJob /\ job'.who = job.who
        BY Zenon, <1>14, <2>3, <3>1 DEF HelperWrites, JobType, NoJob
    <3>. QED  BY <1>8, <1>14, <2>1, <2>3, <3>1, <3>2 DEF HelperWrites
  <2>4. CASE helper.of = "detached"
    <3>1. detached > 0 /\ job = NoJob /\ job' = job
        BY <1>14, <2>1, <2>4 DEF HelperWrites, Base, HelperServes, Serial
    <3>. QED  BY <1>8, <1>14, <2>1, <2>4, <3>1 DEF HelperWrites
  <2>. QED  BY <2>1, <2>2, <2>3, <2>4 DEF Base, TypeOK
<1>15. ASSUME Edit PROVE Serial' /\ ChangeOnDisk'
  <2>1. Quiet /\ UNCHANGED <<job, loop, helper, detached, ask, again>>
      BY <1>15 DEF Edit
  <2>2. \A c \in Callers : ask'[c].state # "waiting"
      BY <2>1 DEF Quiet, Serial, Asks, Free
  <2>. QED  BY <1>1, <2>1, <2>2, NobodyWaits DEF Quiet, Serial
<1>16. ASSUME Renew PROVE Serial' /\ ChangeOnDisk'
    BY <1>8, <1>16 DEF Renew
<1>17. ~RunAgain
    BY DEF RunAgain, Serial
<1>. QED
    BY <1>3, <1>5, <1>6, <1>9, <1>10, <1>11, <1>12, <1>13, <1>14, <1>15, <1>16, <1>17 DEF Next, System

-----------------------------------------------------------------------------
(* A refusal undoes, and certificates go forward.                             *)

\* Only the answer to a change makes it refused, and that puts its file back.
LEMMA RefusedPutsBack ==
    ASSUME Base, Next, NEW c \in Callers, Refused(c)
    PROVE  disk' = PutBack(ask[c].op, disk)
<1>1. ask \in [Callers -> AskType] /\ (job = NoJob \/ job \in JobType) /\ Hup \notin Callers
    BY SettingType DEF Base, TypeOK, AskType, JobType
<1>2. ASSUME NEW who, NEW ok \in BOOLEAN, Answered(who, ok) PROVE disk' = PutBack(ask[c].op, disk)
  <2>1. who # Hup
      BY <1>2 DEF Answered, Refused
  <2>2. ask' = [ask EXCEPT ![who].state = IF ok THEN "done" ELSE "refused"]
      BY <1>2, <2>1 DEF Answered
  <2>3. who = c
      BY <1>1, <2>2 DEF Refused
  <2>4. ask'[c].state = IF ok THEN "done" ELSE "refused"
      BY <1>1, <2>2, <2>3 DEF AskType
  <2>5. ~ok
      BY <2>4 DEF Refused
  <2>. QED  BY <1>2, <2>1, <2>3, <2>5 DEF Answered
<1>3. ask' # ask
    BY DEF Refused
<1>4. ASSUME NEW who, reload_async(who) PROVE disk' = PutBack(ask[c].op, disk)
    BY Zenon, <1>2, <1>3, <1>4, ReloadAsyncCases
<1>5. ASSUME ReloadThen PROVE disk' = PutBack(ask[c].op, disk)
  <2>1. CASE reload_now(loop.who)
      BY Zenon, <1>2, <1>3, <2>1, ReloadNowCases
  <2>. QED  BY <1>4, <1>5, <2>1 DEF ReloadThen
<1>6. ASSUME NEW ok \in BOOLEAN, Finished(ok) PROVE disk' = PutBack(ask[c].op, disk)
    BY <1>2, <1>6 DEF Finished
<1>7. ASSUME Switch PROVE disk' = PutBack(ask[c].op, disk)
    BY Zenon, <1>3, <1>6, <1>7, SwitchCases
<1>8. ASSUME HelperWrites PROVE disk' = PutBack(ask[c].op, disk)
    BY Zenon, <1>2, <1>3, <1>8 DEF HelperWrites
<1>9. ASSUME NEW d \in Callers, Change(d) PROVE FALSE
    BY <1>1, <1>9 DEF Change, Refused
<1>10. Done => Finished(TRUE)
    BY Zenon DEF Done
<1>11. on_hup \/ RunAgain => reload_async(Hup)
    BY <1>3 DEF on_hup, RunAgain
<1>12. ~(refresh_certificates \/ Preflight \/ HelperReads \/ Edit \/ Renew)
    BY <1>3 DEF refresh_certificates, Preflight, HelperReads, Edit, Renew
<1>. QED
    BY Zenon, <1>4, <1>5, <1>6, <1>7, <1>8, <1>9, <1>10, <1>11, <1>12 DEF Next, System

\* No step serves an older certificate.
LEMMA CertForward ==
    ASSUME Base, Next
    PROVE  gen'.cert >= gen.cert
<1>1. gen.cert \in Nat /\ renewed \in Nat /\ gen.cert <= renewed /\ Loaded.cert = renewed
    BY LoadedType, SettingType DEF Base, TypeOK, Gens, CertsForward
<1>2. ASSUME NEW who, reload_async(who) PROVE gen'.cert >= gen.cert
  <2>1. gen' = gen \/ gen' = Loaded
      BY Zenon, <1>2, ReloadAsyncCases
  <2>. QED  BY <1>1, <2>1
<1>3. ASSUME ReloadThen PROVE gen'.cert >= gen.cert
  <2>1. CASE reload_now(loop.who)
    <3>1. gen' = gen \/ gen' = Loaded
        BY Zenon, <2>1, ReloadNowCases
    <3>. QED  BY <1>1, <3>1
  <2>. QED  BY <1>2, <1>3, <2>1 DEF ReloadThen
<1>4. ASSUME Switch PROVE gen'.cert >= gen.cert
  <2>1. CASE gen' = gen
      BY <1>1, <2>1
  <2>2. CASE gen' = Committed
    <3>1. job # NoJob /\ job \in JobType
        BY <1>4, SwitchCases DEF Base, TypeOK, JobType, NoJob
    <3>2. job.next.cert \in Nat
        BY <3>1, SettingType DEF JobType, Gens, Base
    <3>. QED  BY <1>1, <2>2, <3>1, <3>2 DEF Committed, Base, CertsForward
  <2>. QED  BY Zenon, <1>4, <2>1, <2>2, SwitchCases
<1>5. ASSUME refresh_certificates PROVE gen'.cert >= gen.cert
    BY <1>1, <1>5 DEF refresh_certificates, Base, TypeOK, Gens
<1>6. ASSUME on_hup PROVE gen'.cert >= gen.cert
    BY <1>1, <1>2, <1>6 DEF on_hup
<1>7. RunAgain => reload_async(Hup)
    BY SMTT(30) DEF RunAgain
<1>8. Done \/ Preflight \/ HelperReads \/ HelperWrites \/ Edit \/ Renew \/ (\E c \in Callers : Change(c))
      => gen' = gen
    BY Zenon DEF Done, Preflight, HelperReads, HelperWrites, Edit, Renew, Change
<1>. QED
    BY <1>1, <1>2, <1>3, <1>4, <1>5, <1>6, <1>7, <1>8 DEF Next, System

\* What is under way at the start: nothing.
LEMMA OwnedInit == ASSUME Init PROVE Owned
<1>1. setting \in Settings /\ None \in Content /\ Versions \subseteq Content /\ "file" \in Paths
    BY DEF Init, Content, Paths
<1>2. MaxEdits \in Nat /\ MaxRenewals \in Nat
    BY SMTT(30), <1>1, SettingType
<1>3. disk \in [Paths -> Content] /\ gen \in Gens /\ pools \subseteq Versions /\ gen.cert = 0
    BY SMTT(30), <1>1, <1>2 DEF Init, Paths, Gens
<1>4. ask \in [Callers -> AskType] /\ \A c \in Callers : ask[c].state = "idle"
    BY <1>3 DEF Init, AskType
<1>5. TypeOK
  <2>1. loop \in [at : {"free", "reload", "again", "apply"}, who : Callers \cup {Hup, "nobody"}]
      BY DEF Init, Free
  <2>2. again \in BOOLEAN /\ signal \in BOOLEAN /\ job = NoJob /\ helper = Idle
      BY Zenon DEF Init
  <2>3. detached \in Nat /\ edits \in 0..MaxEdits /\ renewed \in 0..MaxRenewals
      BY <1>2 DEF Init
  <2>. QED  BY <1>3, <1>4, <2>1, <2>2, <2>3 DEF TypeOK, AskType
<1>6. LoopNamed /\ HelperServes /\ CertsForward
    BY <1>3 DEF Init, LoopNamed, HelperServes, CertsForward, Free
<1>7. Serial /\ ChangeOnDisk
    BY <1>4 DEF Init, Serial, ChangeOnDisk, Asks, Free
<1>. QED  BY <1>1, <1>5, <1>6, <1>7 DEF Owned, Base

\* The part of the invariant a refusal rests on is inductive by itself.
LEMMA OwnedStep == ASSUME Owned, [Next]_vars PROVE Owned'
<1>1. CASE Next
    BY SMTT(30), <1>1, BaseStep, SerialStep, SettingKept DEF Owned, Next
<1>2. CASE UNCHANGED vars
    BY <1>2 DEF vars, Owned, Base, TypeOK, LoopNamed, HelperServes, CertsForward, Calm, Serial, ChangeOnDisk,
                Asks, MustLoad, Callers, Ops, MaxEdits, MaxRenewals, Gens
<1>. QED  BY <1>1, <1>2

\* A change answered "refused" is undone and no generation goes back to an older
\* certificate, whatever the settings, callers, edits and renewals (handler.cpp's
\* put-backs, server.cpp reload_async, refresh_certificates).
THEOREM ReloadNothingGoesBack == Spec => NothingGoesBack
<1>1. ASSUME Owned, [Next]_vars PROVE [RefusalUndoes /\ gen'.cert >= gen.cert]_vars
  <2>1. CASE Next
    <3>1. ASSUME NEW c \in Callers, Calm, Refused(c), Restorable(ask[c].op, ask[c].before) PROVE Undone(c)
      <4>1. disk' = PutBack(ask[c].op, disk)
          BY SMTT(30), <1>1, <2>1, <3>1, RefusedPutsBack DEF Owned
      <4>2. /\ ask[c].before \in [Paths -> Content] /\ Found(ask[c].op, ask[c].before) /\ ask[c].op \in AllOps
            /\ \E v \in Content \ {None} : disk = Changed(ask[c].op, v, ask[c].before)
          BY SMTT(30), <1>1, <3>1, SettingType DEF Owned, Base, TypeOK, ChangeOnDisk, Refused
      <4>. QED  BY <3>1, <4>1, <4>2, PutBackUndoes DEF Undone
    <3>. QED  BY SMTT(30), <1>1, <2>1, <3>1, CertForward DEF RefusalUndoes, Owned
  <2>. QED  BY <1>1, <2>1
<1>. QED  BY <1>1, OwnedInit, OwnedStep, PTL DEF Spec, NothingGoesBack

-----------------------------------------------------------------------------
\* The generation a reload is about is the one the disk says, and the pool it
\* needs is up before the switch.
Prepared ==
    /\ job.stage \in {"preflight", "up", "ended"} => job.next.ver = Loaded.ver
    /\ job.stage \in {"preflight", "up"} => disk.file \in Versions
    /\ job.stage = "ended" /\ job.outcome = "fine" => job.next.ver \in pools \cup {None}
    /\ job.stage \in {"full", "done"} => disk.file \in {gen.ver, Broken}

\* With no failures there is nothing to take back.
NoRefusal == job # NoJob => job.outcome = "fine"

\* The reload's switch is done.
Switched == job.stage \in {"full", "done"}

\* A site's own file is on disk for as long as it is served from its pool, or
\* comes back with the refusal.
Kept ==
    /\ ~signal
    /\ job # NoJob => job.who # Hup /\ disk.file # Broken
    /\ "enable" \in Ops => disk.file = None \/ disk.off = None
    /\ (\A c \in Callers : ask[c].state # "waiting") => gen.ver \in {None, disk.file}
    /\ \A c \in Callers : ask[c].state = "waiting" /\ ~Switched =>
         /\ gen.ver \in {None, ask[c].before.file}
         /\ ask[c].op = "create" => gen.ver = None
         /\ "enable" \in Ops => ask[c].before.file = None \/ ask[c].before.off = None

\* The served pool is up, and stays so whatever comes next.
Served ==
    /\ PoolUp
    /\ Prepared
    /\ loop.at # "apply"
    /\ IF Faults = {} THEN NoRefusal /\ detached = 0 ELSE Kept

\* The inductive invariant.
IInv ==
    /\ Owned
    /\ Orderly => Served

-----------------------------------------------------------------------------
(* The site is served from a pool that is up.                                 *)

\* A refused change leaves the file a served site had, and no second file of a
\* site that can be enabled.
LEMMA RefusedFile ==
    ASSUME NEW d \in [Paths -> Content], NEW op \in AllOps, NEW v \in Content \ {None}, Found(op, d)
    PROVE  LET e == PutBack(op, Changed(op, v, d)) IN
           /\ op \notin {"create", "enable"} /\ d.file # None => e.file = d.file
           /\ op # "create" /\ (d.file = None \/ d.off = None) =>
                /\ d.file # None => e.file = d.file
                /\ e.file = None \/ e.off = None
<1>1. CASE op = "create"
    BY Zenon, <1>1
<1>2. CASE op \in {"update", "probed"}
    BY Zenon, <1>2 DEF PutBack, Changed, Renamed, write_site_file, Found, Paths
<1>3. CASE op = "enable"
    BY <1>3 DEF PutBack, Changed, Renamed, Found, Paths
<1>4. CASE op = "disable"
    BY <1>4 DEF PutBack, Changed, Renamed, Found, Paths
<1>5. CASE op = "delete"
    BY Zenon, <1>5 DEF PutBack, Changed, Renamed, Found, Paths
<1>. QED  BY Zenon, <1>1, <1>2, <1>3, <1>4, <1>5 DEF AllOps

\* A change that does not write a file that must load takes the site's away; and
\* one that finds one of the two files leaves one.
LEMMA ChangedFile ==
    ASSUME NEW d \in [Paths -> Content], NEW op \in AllOps, NEW v \in Content \ {None}, Found(op, d)
    PROVE  /\ op \in {"disable", "delete"} => Changed(op, v, d).file = None
           /\ op # "create" /\ (d.file = None \/ d.off = None) =>
                Changed(op, v, d).file = None \/ Changed(op, v, d).off = None
<1>1. CASE op = "create"
    BY <1>1
<1>2. CASE op \in {"update", "probed"}
    BY <1>2 DEF Changed, write_site_file, Found, Paths
<1>3. CASE op = "enable"
    BY <1>3 DEF Changed, Renamed, Found, Paths
<1>4. CASE op = "disable"
    BY <1>4 DEF Changed, Renamed, Found, Paths
<1>5. CASE op = "delete"
    BY SMTT(30), <1>5 DEF Changed, Renamed, Found, Paths
<1>. QED  BY <1>1, <1>2, <1>3, <1>4, <1>5 DEF AllOps

\* The only change waiting is refused: the generation that stays has its file.
LEMMA RefusedKept ==
    ASSUME Base, Orderly, Faults # {}, ChangeOnDisk, Kept, ~Switched, setting' = setting,
           NEW who \in Callers, ask[who].state = "waiting", Answered(who, FALSE),
           gen' = gen, job' = NoJob, signal' = signal, \A c \in Callers : ask'[c].state # "waiting"
    PROVE  Kept'
<1>1. Callers' = Callers /\ Ops' = Ops /\ Hup \notin Callers /\ Ops \subseteq AllOps
    BY Zenon, SettingKept, SettingType DEF Base
<1>2. PICK v \in Content \ {None} : disk = Changed(ask[who].op, v, ask[who].before)
    BY Zenon DEF ChangeOnDisk
<1>3. /\ ask[who].before \in [Paths -> Content] /\ ask[who].op \in Ops
      /\ Found(ask[who].op, ask[who].before)
  <2>1. ask[who].op \in Ops /\ Found(ask[who].op, ask[who].before)
      BY Zenon DEF ChangeOnDisk
  <2>. QED  BY <2>1 DEF Base, TypeOK
<1>4. disk' = PutBack(ask[who].op, Changed(ask[who].op, v, ask[who].before))
    BY <1>1, <1>2 DEF Answered
<1>5. /\ gen.ver \in {None, ask[who].before.file}
      /\ ask[who].op = "create" => gen.ver = None
      /\ "enable" \in Ops => ask[who].before.file = None \/ ask[who].before.off = None
    BY DEF Kept
<1>6. gen.ver \in {None, disk'.file}
  <2>1. CASE gen.ver = None
      BY <2>1
  <2>2. CASE gen.ver # None
    <3>1. ask[who].op # "create" /\ ask[who].before.file # None /\ gen.ver = ask[who].before.file
        BY SMTT(30), <1>5, <2>2
    <3>2. disk'.file = ask[who].before.file
        BY SMTT(30), <1>1, <1>3, <1>4, <1>5, <3>1, RefusedFile
    <3>. QED  BY <3>1, <3>2
  <2>. QED  BY <2>1, <2>2
<1>7. "enable" \in Ops => disk'.file = None \/ disk'.off = None
  <2>1. ASSUME "enable" \in Ops PROVE disk'.file = None \/ disk'.off = None
    <3>1. ask[who].op # "create"
        BY SMTT(30), <1>3, <2>1 DEF Orderly
    <3>. QED  BY SMTT(30), <1>1, <1>3, <1>4, <1>5, <2>1, <3>1, RefusedFile
  <2>. QED  BY SMTT(30), <2>1
<1>. QED  BY Zenon, <1>1, <1>6, <1>7 DEF Kept

\* No reload runs and no pool goes: the site stays served.
LEMMA QuietServed ==
    ASSUME job' = NoJob, loop'.at # "apply", PoolUp', Faults' = {} => detached' = 0, Faults' # {} => Kept'
    PROVE  Served'
    BY SMTT(30) DEF Served, Prepared, NoRefusal, NoJob

\* A reload starts: the pool it is about is up, or it goes to bring it up.
LEMMA StartPrepared ==
    ASSUME Base, PoolUp, NEW who, UNCHANGED <<disk, gen, pools>>,
           job' = [stage |-> FirstStage(Loaded), outcome |-> "fine", next |-> Loaded,
                   stale |-> FALSE, who |-> who]
    PROVE  Prepared' /\ NoRefusal' /\ ~Switched'
<1>1. disk.file \in Versions \cup {Broken, None} /\ gen.ver \in Versions \cup {None}
    BY SMTT(30) DEF Base, TypeOK, Gens, Content, Paths
<1>2. Loaded'.ver = Loaded.ver /\ Loaded.ver = IF disk.file = Broken THEN gen.ver ELSE disk.file
    BY DEF Loaded
<1>3. /\ job'.stage = FirstStage(Loaded) /\ job'.next.ver = Loaded.ver /\ job'.outcome = "fine"
      /\ job'.stage \in {"preflight", "ended"}
    BY DEF FirstStage
<1>4. job'.stage = "preflight" => disk.file \in Versions
    BY <1>1, <1>2, <1>3 DEF FirstStage, pool_switches
<1>5. job'.stage = "ended" => job'.next.ver \in pools \cup {None}
    BY <1>1, <1>2, <1>3 DEF FirstStage, pool_switches, PoolUp
<1>. QED  BY <1>2, <1>3, <1>4, <1>5 DEF Prepared, NoRefusal, Switched

\* A change's own reload, from its first line to the thread it starts.
LEMMA ChangeReloads ==
    ASSUME Base, Orderly, Serial, ChangeOnDisk, Served, ReloadThen, setting' = setting
    PROVE  Served'
<1>1. /\ loop.at = "reload" /\ loop.who \in Callers /\ job = NoJob /\ helper = Idle /\ detached = 0 /\ ~signal
      /\ ask[loop.who].state = "waiting" /\ pools' = pools /\ signal' = signal
    BY DEF ReloadThen, Serial, Base, LoopNamed, Free, Asks
<1>2. ask[loop.who].op \in Ops /\ "probed" \notin Ops
    BY <1>1 DEF ChangeOnDisk, Orderly
<1>3. reload_async(loop.who) /\ loop' = Free /\ detached' = detached
    BY <1>2 DEF ReloadThen
<1>4. /\ Callers' = Callers /\ Ops' = Ops /\ Faults' = Faults
      /\ Hup \notin Callers /\ Ops \subseteq AllOps
    BY SMTT(30), SettingKept, SettingType DEF Base
<1>5. ~Switched /\ loop'.at # "apply" /\ PoolUp
    BY SMTT(30), <1>1, <1>3 DEF Switched, NoJob, Free, Served
<1>6. ASSUME NEW ok, Answered(loop.who, ok) PROVE \A c \in Callers : ask'[c].state # "waiting"
    BY <1>1, <1>6, AnswerEnds DEF Asks
<1>7. CASE Answered(loop.who, FALSE) /\ job' = job /\ gen' = gen
  <2>1. PoolUp'
      BY SMTT(30), <1>1, <1>5, <1>7 DEF PoolUp
  <2>2. Faults # {} => Kept'
      BY Zenon, <1>1, <1>5, <1>6, <1>7, RefusedKept DEF Served
  <2>. QED  BY <1>1, <1>3, <1>4, <1>5, <1>7, <2>1, <2>2, QuietServed
<1>8. CASE gen.ver = None /\ Loaded.ver = None /\ Answered(loop.who, TRUE) /\ job' = job /\ gen' = Loaded
  <2>1. PoolUp'
      BY <1>8 DEF PoolUp
  <2>2. disk' = disk
      BY Zenon, <1>1, <1>8, AnsweredWait
  <2>3. Faults # {} => Kept'
      BY Zenon, <1>1, <1>4, <1>6, <1>8, <2>2 DEF Served, Kept
  <2>. QED  BY <1>1, <1>3, <1>4, <1>5, <1>8, <2>1, <2>3, QuietServed
<1>9. CASE /\ job' = [stage |-> FirstStage(Loaded), outcome |-> "fine", next |-> Loaded,
                      stale |-> FALSE, who |-> loop.who]
           /\ disk' = disk /\ ask' = ask /\ gen' = gen /\ (MustLoad(loop.who) => disk.file # Broken)
  <2>1. Prepared' /\ NoRefusal' /\ ~Switched'
      BY SMTT(30), <1>1, <1>5, <1>9, StartPrepared
  <2>2. PoolUp'
      BY <1>1, <1>5, <1>9 DEF PoolUp
  <2>3. disk.file # Broken
    <3>1. CASE MustLoad(loop.who)
        BY <1>9, <3>1
    <3>2. CASE ~MustLoad(loop.who)
      <4>1. ask[loop.who].op \in {"disable", "delete"}
          BY Zenon, <1>1, <1>2, <1>4, <3>2 DEF MustLoad, AllOps
      <4>2. PICK v \in Content \ {None} : disk = Changed(ask[loop.who].op, v, ask[loop.who].before)
          BY <1>1 DEF ChangeOnDisk
      <4>3. ask[loop.who].before \in [Paths -> Content] /\ Found(ask[loop.who].op, ask[loop.who].before)
          BY <1>1 DEF Base, TypeOK, ChangeOnDisk
      <4>4. disk.file = None
          BY SMTT(30), <1>2, <1>4, <4>1, <4>2, <4>3, ChangedFile
      <4>. QED  BY <4>4, ReloadAssumption
    <3>. QED  BY <3>1, <3>2
  <2>4. Faults # {} => Kept'
    <3>1. job'.who = loop.who
        BY <1>9
    <3>. QED  BY <1>1, <1>4, <1>5, <1>9, <2>3, <3>1 DEF Served, Kept
  <2>. QED  BY <1>1, <1>3, <1>4, <1>5, <2>1, <2>2, <2>4 DEF Served
<1>. QED  BY Zenon, <1>3, <1>7, <1>8, <1>9, ReloadAsyncCases

\* A SIGHUP's reload: none comes where reloads may fail.
LEMMA HupReloads ==
    ASSUME Base, Orderly, Serial, Served, on_hup, setting' = setting
    PROVE  Served'
<1>1. /\ loop = Free /\ job = NoJob /\ detached = 0 /\ reload_async(Hup)
      /\ pools' = pools /\ loop' = loop /\ detached' = detached /\ Faults = {} /\ Faults' = Faults
    BY Zenon, SettingKept DEF on_hup, Serial, Served, Kept
<1>2. PoolUp /\ loop'.at # "apply"
    BY <1>1 DEF Served, Free
<1>3. CASE job' = job /\ gen' = gen
  <2>1. PoolUp'
      BY <1>1, <1>2, <1>3 DEF PoolUp
  <2>. QED  BY <1>1, <1>2, <1>3, <2>1, QuietServed
<1>4. CASE Loaded.ver = None /\ job' = job /\ gen' = Loaded
  <2>1. PoolUp'
      BY <1>4 DEF PoolUp
  <2>. QED  BY <1>1, <1>2, <1>4, <2>1, QuietServed
<1>5. CASE /\ job' = [stage |-> FirstStage(Loaded), outcome |-> "fine", next |-> Loaded,
                      stale |-> FALSE, who |-> Hup]
           /\ disk' = disk /\ gen' = gen
  <2>1. Prepared' /\ NoRefusal'
      BY <1>1, <1>2, <1>5, StartPrepared
  <2>2. PoolUp'
      BY <1>1, <1>2, <1>5 DEF PoolUp
  <2>. QED  BY <1>1, <1>2, <2>1, <2>2 DEF Served
<1>. QED  BY Zenon, <1>1, <1>3, <1>4, <1>5, ReloadAsyncCases

\* The switch comes after the pool; a refused one leaves the running pool's file.
LEMMA SwitchServed ==
    ASSUME Base, Orderly, Serial, ChangeOnDisk, Served, Switch, setting' = setting
    PROVE  Served'
<1>1. /\ loop = Free /\ job.stage = "ended" /\ pools' = pools /\ signal' = signal
      /\ job # NoJob /\ job \in JobType
    BY SwitchCases DEF Base, TypeOK, JobType, NoJob
<1>2. /\ Callers' = Callers /\ Ops' = Ops /\ Faults' = Faults
      /\ Hup \notin Callers
    BY SettingKept, SettingType DEF Base
<1>3. PoolUp /\ Prepared /\ ~Switched
    BY <1>1 DEF Served, Switched
<1>4. ASSUME Faults # {} PROVE Kept /\ job.who \in Callers /\ ask[job.who].state = "waiting"
    BY <1>1, <1>4 DEF Served, Kept, JobType, Serial, Asks
<1>5. CASE /\ Finished(FALSE) /\ gen' = gen
           /\ \/ job.outcome # "fine"
              \/ Faults # {}
              \/ MustLoad(job.who) /\ disk.file = Broken
  <2>1. Faults # {}
      BY Zenon, <1>1, <1>5 DEF Served, NoRefusal, Serial
  <2>2. Answered(job.who, FALSE) /\ job' = NoJob /\ loop' = Free
      BY Zenon, <1>5 DEF Finished, Serial
  <2>3. \A c \in Callers : ask'[c].state # "waiting"
      BY Zenon, <1>1, <1>4, <2>1, <2>2, AnswerEnds DEF Asks, Free
  <2>4. Kept'
      BY Zenon, <1>1, <1>3, <1>4, <1>5, <2>1, <2>2, <2>3, RefusedKept
  <2>5. PoolUp' /\ loop'.at # "apply"
      BY <1>1, <1>3, <1>5, <2>2 DEF PoolUp, Free
  <2>. QED  BY <1>2, <2>1, <2>2, <2>4, <2>5, QuietServed
<1>6. CASE /\ job.outcome = "fine" /\ gen' = Committed
           /\ job' = [job EXCEPT !.stage = "full"]
           /\ disk' = disk /\ ask' = ask /\ again' = again /\ loop' = loop /\ detached' = detached
  <2>1. job.next.ver = Loaded.ver /\ job.next.ver \in pools \cup {None}
      BY <1>1, <1>3, <1>6 DEF Prepared
  <2>2. gen'.ver = Loaded.ver
      BY <1>6, <2>1 DEF Committed
  <2>3. PoolUp'
      BY <1>1, <2>1, <2>2 DEF PoolUp
  <2>4. job'.stage = "full" /\ job'.outcome = "fine" /\ job'.who = job.who
      BY <1>1, <1>6 DEF JobType
  <2>5. disk.file \in {gen'.ver, Broken}
      BY <2>2 DEF Loaded
  <2>6. Prepared' /\ NoRefusal' /\ Switched'
      BY <1>6, <2>4, <2>5 DEF Prepared, NoRefusal, Switched
  <2>7. Faults # {} => Kept'
      BY <1>1, <1>2, <1>4, <1>6, <2>4, <2>6 DEF Kept
  <2>. QED  BY <1>1, <1>2, <1>6, <2>3, <2>6, <2>7 DEF Served, Free
<1>. QED  BY Zenon, <1>5, <1>6, SwitchCases

\* The reload is over: the served site's file is on disk.
LEMMA DoneServed ==
    ASSUME Base, Orderly, Serial, Served, Done, setting' = setting
    PROVE  Served'
<1>1. /\ loop = Free /\ job.stage = "done" /\ pools' = pools /\ gen' = gen /\ signal' = signal
      /\ job # NoJob /\ job \in JobType /\ detached' = detached
    BY DEF Done, Base, TypeOK, JobType, NoJob
<1>2. Callers' = Callers /\ Ops' = Ops /\ Faults' = Faults
    BY SMTT(30), SettingKept
<1>3. Answered(job.who, TRUE) /\ job' = NoJob /\ loop' = Free
    BY Zenon DEF Done, Finished, Serial
<1>4. disk' = disk /\ \A c \in Callers : ask'[c].state # "waiting"
    BY Zenon, <1>1, <1>3, AnsweredWait, AnswerEnds DEF JobType, Asks, Free
<1>5. PoolUp' /\ loop'.at # "apply"
    BY <1>1, <1>3 DEF Served, PoolUp, Free
<1>6. ASSUME Faults # {} PROVE Kept'
  <2>1. Kept /\ disk.file \in {gen.ver, Broken} /\ disk.file # Broken
      BY <1>1, <1>6 DEF Served, Kept, Prepared
  <2>. QED  BY <1>1, <1>2, <1>3, <1>4, <2>1 DEF Kept
<1>. QED  BY SMTT(30), <1>1, <1>2, <1>3, <1>5, <1>6, QuietServed DEF Served

\* The helper never takes away the pool the running generation uses.
LEMMA HelperServed ==
    ASSUME Base, Orderly, Serial, Served, HelperWrites, setting' = setting
    PROVE  Served'
<1>1. /\ helper # Idle /\ helper.want = disk.file /\ ~signal /\ helper.of \in {"job", "detached", "loop"}
      /\ UNCHANGED <<gen, signal>> /\ helper.phase \in {"up", "full"}
    BY DEF HelperWrites, Serial, Base, TypeOK
<1>2. Callers' = Callers /\ Ops' = Ops /\ Faults' = Faults
    BY SettingKept
<1>3. helper.of # "loop"
    BY <1>1 DEF Served, Base, HelperServes
<1>4. UNCHANGED <<disk, ask, loop>> /\ loop'.at # "apply"
    BY SMTT(30), <1>3 DEF HelperWrites, Served
<1>5. PICK fails \in IF "socket" \in Faults /\ helper.want \in Versions \ pools THEN BOOLEAN ELSE {FALSE} :
        /\ pools' = write_pools(helper.phase, helper.want, fails)
        /\ job' = IF helper.of # "job" THEN job
                  ELSE IF helper.phase = "full" THEN [job EXCEPT !.stage = "done"]
                  ELSE [job EXCEPT !.stage = "ended", !.outcome = IF fails THEN "down" ELSE "fine"]
    BY Zenon DEF HelperWrites, reload_runtime_fails
<1>6. fails \in BOOLEAN /\ (fails => Faults # {})
    BY Zenon, <1>5
<1>7. disk.file \in Versions \cup {Broken, None} /\ Broken \notin Versions /\ None \notin Versions /\ Broken # None
    BY ReloadAssumption DEF Base, TypeOK, Content, Paths
<1>8. PoolUp /\ Prepared
    BY DEF Served
<1>9. ASSUME helper.phase = "full", disk.file \in {gen.ver, Broken} \/ gen.ver = None PROVE PoolUp'
    BY <1>1, <1>5, <1>6, <1>8, <1>9, WritePoolsCases DEF PoolUp
<1>10. CASE helper.of = "job"
  <2>1. job # NoJob /\ job \in JobType /\ job.stage = helper.phase /\ detached' = detached
      BY <1>1, <1>10 DEF HelperWrites, Base, HelperServes, TypeOK, JobType, NoJob
  <2>2. CASE helper.phase = "up"
    <3>1. disk.file \in Versions /\ job.next.ver = Loaded.ver /\ Loaded.ver = disk.file /\ Loaded'.ver = Loaded.ver
        BY <1>1, <1>4, <1>7, <1>8, <2>1, <2>2 DEF Prepared, Loaded
    <3>2. pools' = IF fails THEN pools ELSE pools \cup {disk.file}
        BY SMTT(30), <1>1, <1>5, <1>6, <1>7, <2>2, <3>1, WritePoolsCases
    <3>3. /\ job'.stage = "ended" /\ job'.outcome = (IF fails THEN "down" ELSE "fine")
          /\ job'.next = job.next /\ job'.who = job.who
        BY <1>5, <1>10, <2>1, <2>2 DEF JobType
    <3>4. PoolUp'
        BY <1>1, <1>8, <3>2 DEF PoolUp
    <3>5. Prepared'
        BY <3>1, <3>2, <3>3 DEF Prepared
    <3>6. Faults = {} => NoRefusal'
        BY SMTT(30), <1>6, <3>3 DEF NoRefusal
    <3>7. Faults # {} => Kept'
      <4>1. ~Switched
          BY <2>1, <2>2 DEF Switched
      <4>2. job # NoJob
          BY SMTT(30), <2>1
      <4>. QED  BY Zenon, <1>1, <1>2, <1>4, <3>3, <4>1, <4>2 DEF Served, Kept
    <3>. QED  BY <1>2, <1>4, <2>1, <3>4, <3>5, <3>6, <3>7 DEF Served
  <2>3. CASE helper.phase = "full"
    <3>1. disk.file \in {gen.ver, Broken} /\ Switched
        BY <1>8, <2>1, <2>3 DEF Prepared, Switched
    <3>2. job'.stage = "done" /\ job'.outcome = job.outcome /\ job'.who = job.who
        BY <1>5, <1>10, <2>1, <2>3 DEF JobType
    <3>3. PoolUp'
        BY <1>9, <2>3, <3>1
    <3>4. Prepared' /\ Switched'
        BY <1>1, <1>4, <3>1, <3>2 DEF Prepared, Switched
    <3>5. Faults = {} => NoRefusal'
        BY SMTT(30), <2>1, <3>2 DEF Served, NoRefusal
    <3>6. Faults # {} => Kept'
        BY <1>1, <1>2, <1>4, <2>1, <3>2, <3>4 DEF Served, Kept
    <3>. QED  BY <1>2, <1>4, <2>1, <3>3, <3>4, <3>5, <3>6 DEF Served
  <2>. QED  BY <1>1, <2>2, <2>3
<1>11. CASE helper.of = "detached"
  <2>1. detached > 0 /\ helper.phase = "full" /\ job = NoJob /\ job' = job /\ loop.at = "free"
      BY <1>1, <1>5, <1>11 DEF Base, HelperServes, Serial, Served, TypeOK
  <2>2. Faults # {} /\ Kept
      BY <2>1 DEF Served
  <2>3. \A c \in Callers : ask[c].state # "waiting"
      BY SMTT(30), <2>1 DEF Serial, Asks
  <2>4. gen.ver \in {None, disk.file}
      BY <2>2, <2>3 DEF Kept
  <2>5. PoolUp'
      BY SMTT(30), <1>9, <2>1, <2>4
  <2>6. Kept'
      BY <1>1, <1>2, <1>4, <2>1, <2>2, <2>3 DEF Kept
  <2>. QED  BY <1>2, <1>4, <2>1, <2>2, <2>5, <2>6, QuietServed
<1>. QED  BY <1>1, <1>3, <1>10, <1>11

\* A change writes beside the running generation.
LEMMA ChangeServed ==
    ASSUME Base, Orderly, Serial, Served, NEW c \in Callers, Change(c), setting' = setting
    PROVE  Served'
<1>1. /\ Quiet /\ loop' = [at |-> "reload", who |-> c]
      /\ UNCHANGED <<gen, pools, job, detached, signal>>
    BY DEF Change, Orderly
<1>2. Callers' = Callers /\ Ops' = Ops /\ Faults' = Faults /\ Ops \subseteq AllOps /\ Written \subseteq Content
    BY SMTT(30), SettingKept, SettingType DEF Base
<1>3. PICK op \in Ops, v \in Written \ {None} :
          /\ Allowed(op, disk) /\ disk' = Changed(op, v, disk)
          /\ ask' = [ask EXCEPT ![c] = [op |-> op, before |-> disk, state |-> "waiting"]]
    BY Zenon DEF Change
<1>4. \A d \in Callers : ask[d].state # "waiting"
    BY Zenon, <1>1 DEF Quiet, Serial, Asks, Free
<1>5. /\ ask'[c] = [op |-> op, before |-> disk, state |-> "waiting"]
      /\ \A d \in Callers : d # c => ask'[d].state # "waiting"
    BY Zenon, <1>3, <1>4 DEF Base, TypeOK
<1>6. PoolUp'
    BY SMTT(30), <1>1 DEF Served, PoolUp
<1>7. ASSUME Faults # {} PROVE Kept'
  <2>1. Kept /\ gen.ver \in {None, disk.file} /\ ~signal
      BY Zenon, <1>4, <1>7 DEF Served, Kept
  <2>2. op = "create" => gen.ver = None
      BY SMTT(30), <1>3 DEF Allowed
  <2>3. ASSUME "enable" \in Ops
        PROVE  (disk.file = None \/ disk.off = None) /\ (disk'.file = None \/ disk'.off = None)
    <3>1. disk.file = None \/ disk.off = None
        BY <2>1, <2>3 DEF Kept
    <3>2. op # "create" /\ op \in AllOps /\ v \in Content \ {None}
        BY <1>2, <1>7, <2>3 DEF Orderly
    <3>3. Found(op, disk)
        BY <1>3, <3>2 DEF Allowed, Found, AllOps
    <3>4. disk \in [Paths -> Content]
        BY SMTT(30) DEF Base, TypeOK
    <3>. QED  BY Zenon, <1>3, <3>1, <3>2, <3>3, <3>4, ChangedFile
  <2>4. ask'[c].op = op /\ ask'[c].before = disk /\ ask'[c].state = "waiting"
      BY <1>5
  <2>. QED  BY Zenon, <1>1, <1>2, <1>5, <2>1, <2>2, <2>3, <2>4 DEF Kept, Quiet
<1>. QED  BY <1>1, <1>2, <1>6, <1>7, QuietServed DEF Quiet

\* No step leaves the site without its pool.
LEMMA ServedStep ==
    ASSUME Base, Orderly, Serial, ChangeOnDisk, Served, Next
    PROVE  Served'
<1>1. setting' = setting /\ Callers' = Callers /\ Ops' = Ops /\ Faults' = Faults
    BY SettingKept DEF Next
<1>2. job = NoJob \/ job \in JobType
    BY DEF Base, TypeOK, JobType
<1>3. ASSUME UNCHANGED <<disk, pools, loop, detached, ask, signal>>, gen'.ver = gen.ver,
             job = NoJob => job' = NoJob,
             job # NoJob => /\ job' # NoJob /\ job'.next = job.next /\ job'.who = job.who
                            /\ job'.stage = job.stage /\ job'.outcome = job.outcome
      PROVE  Served'
  <2>1. Loaded'.ver = Loaded.ver
      BY <1>3 DEF Loaded
  <2>2. PoolUp' /\ (NoRefusal => NoRefusal')
      BY <1>3 DEF Served, PoolUp, NoRefusal
  <2>3. Switched' <=> Switched
      BY SMTT(30), <1>3 DEF Switched
  <2>4. Prepared'
      BY SMTT(30), <1>3, <2>1 DEF Served, Prepared, NoJob
  <2>5. Kept => Kept'
      BY <1>1, <1>3, <2>3 DEF Kept
  <2>. QED  BY SMTT(30), <1>1, <1>3, <2>2, <2>4, <2>5 DEF Served
<1>4. ASSUME refresh_certificates PROVE Served'
  <2>1. gen'.ver = gen.ver
      BY <1>4 DEF refresh_certificates, Base, TypeOK, Gens
  <2>2. ASSUME job # NoJob PROVE /\ job' # NoJob /\ job'.next = job.next /\ job'.who = job.who
                                 /\ job'.stage = job.stage /\ job'.outcome = job.outcome
    <3>1. job \in JobType /\ job' = [job EXCEPT !.stale = TRUE]
        BY SMTT(30), <1>2, <1>4, <2>2 DEF refresh_certificates
    <3>. QED  BY <3>1 DEF JobType, NoJob, Stages
  <2>. QED  BY <1>3, <1>4, <2>1, <2>2 DEF refresh_certificates
<1>5. ASSUME HelperReads \/ Renew PROVE Served'
    BY SMTT(30), <1>3, <1>5 DEF HelperReads, Renew
<1>6. ASSUME Preflight PROVE Served'
  <2>1. job \in JobType /\ job # NoJob /\ job.stage = "preflight"
      BY <1>2, <1>6 DEF Preflight
  <2>2. /\ job' # NoJob /\ job'.next = job.next /\ job'.who = job.who
        /\ \/ job'.stage = "up" /\ job'.outcome = job.outcome
           \/ Faults # {} /\ job'.stage = "ended" /\ job'.outcome = "refused"
    <3>1. PICK ready \in switch_preflight :
            job' = IF ready THEN [job EXCEPT !.stage = "up"]
                   ELSE [job EXCEPT !.stage = "ended", !.outcome = "refused"]
        BY Zenon, <1>6 DEF Preflight
    <3>2. ready \/ Faults # {}
        BY Zenon, <3>1 DEF switch_preflight
    <3>. QED  BY Zenon, <2>1, <3>1, <3>2 DEF JobType, NoJob
  <2>3. UNCHANGED <<disk, gen, pools, loop, detached, ask, signal>> /\ Loaded'.ver = Loaded.ver
      BY <1>6 DEF Preflight, Loaded
  <2>4. Prepared'
      BY <2>1, <2>2, <2>3 DEF Served, Prepared
  <2>5. ~Switched /\ ~Switched'
      BY <2>1, <2>2 DEF Switched
  <2>6. Faults = {} => NoRefusal'
      BY SMTT(30), <2>1, <2>2 DEF Served, NoRefusal
  <2>7. Faults # {} => Kept'
      BY <1>1, <2>1, <2>2, <2>3, <2>5 DEF Served, Kept
  <2>8. PoolUp'
      BY <2>3 DEF Served, PoolUp
  <2>. QED  BY <1>1, <2>3, <2>4, <2>6, <2>7, <2>8 DEF Served
<1>7. ASSUME Edit PROVE Served'
  <2>1. Faults = {}
      BY <1>7 DEF Edit, Orderly, Base, TypeOK
  <2>2. PoolUp' /\ job' = NoJob /\ loop'.at # "apply" /\ detached' = 0
      BY <1>7 DEF Edit, Orderly, Quiet, Served, PoolUp, Free
  <2>. QED  BY <1>1, <2>1, <2>2, QuietServed
<1>8. ~RunAgain
    BY SMTT(30) DEF RunAgain, Serial
<1>. QED
    BY <1>1, <1>4, <1>5, <1>6, <1>7, <1>8, ChangeServed, ChangeReloads, HupReloads, SwitchServed, DoneServed,
       HelperServed DEF Next, System

\* The site starts with its pool, or without both.
LEMMA IInvInit == ASSUME Init PROVE IInv
<1>1. Owned /\ Base
    BY SMTT(30), OwnedInit DEF Owned
<1>2. \A c \in Callers : ask[c].state = "idle"
    BY SMTT(30) DEF Init
<1>3. PoolUp /\ (gen.ver = None \/ gen.ver = disk.file) /\ (disk.file = None \/ disk.off = None)
    BY SMTT(30) DEF Init, PoolUp
<1>4. Prepared /\ NoRefusal /\ Kept
    BY Zenon, <1>2, <1>3 DEF Init, Prepared, NoRefusal, Kept, NoJob
<1>. QED  BY <1>1, <1>3, <1>4 DEF IInv, Owned, Served, Init, Free

\* The whole invariant is inductive.
LEMMA IInvStep == ASSUME IInv, [Next]_vars PROVE IInv'
<1>1. CASE Next
  <2>1. Orderly => Calm
      BY DEF Orderly
  <2>2. Calm' = Calm /\ Orderly' = Orderly
      BY <1>1, SettingKept DEF Next
  <2>3. Owned'
      BY <1>1, OwnedStep DEF IInv
  <2>. QED  BY <1>1, <2>1, <2>2, <2>3, ServedStep DEF IInv, Owned
<1>2. CASE UNCHANGED vars
  <2>1. Owned'
      BY SMTT(30), <1>2, OwnedStep DEF IInv, Owned
  <2>2. Served' = Served
      BY Zenon, <1>2 DEF vars, Served, PoolUp, Prepared, NoRefusal, Kept, Switched, Faults, Ops, Callers, Loaded
  <2>3. Orderly' = Orderly
      BY <1>2, SettingKept DEF vars
  <2>. QED  BY <2>1, <2>2, <2>3 DEF IInv
<1>. QED  BY <1>1, <1>2

\* The site never leaves a pool that is up, whatever the versions, the requests,
\* the renewals and, for requests, the failures of their reloads (server.cpp
\* reload_async, provision.cpp pools_apply).
THEOREM ReloadServedPoolUp == Spec => []ServedPoolUp
<1>1. IInv => ServedPoolUp
    BY DEF IInv, Served, ServedPoolUp
<1>. QED  BY <1>1, IInvInit, IInvStep, PTL DEF Spec
=============================================================================
