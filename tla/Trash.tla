-------------------------------- MODULE Trash --------------------------------
(* A site deleted with its files and brought back (services/provision.cpp      *)
(* site_trash, site_restore, trash_delete, trash_expire; control/handler.cpp   *)
(* site_trash, trash_restore, trash_delete; server.cpp arm_trash_expiry).      *)
(*                                                                             *)
(* The root helper moves the site's pieces one by one, into an entry of the    *)
(* trash or back to their places, and undoes its moves when one fails.  The    *)
(* server removes or adds the site file and reloads; it runs other requests    *)
(* between the two, a site created under the same name among them.  A piece on *)
(* another filesystem is copied when it is a file (a log) and goes to a trash  *)
(* beside it when it is a directory (the account's state).                     *)
EXTENDS Naturals, Sequences, FiniteSets, SequencesExt

CONSTANTS Settings      \* the situations looked at

VARIABLES
    s,        \* the disk, the helper and the server
    setting   \* the situation, which no step changes

vars == <<s, setting>>

Pieces == DOMAIN setting.pieces              \* in the order site_trash lists them: [dir, far]
Entries == 1 .. setting.entries              \* bound: entries made
Home == 0                                    \* a piece's own place; an entry is its other places
Callers == DOMAIN setting.ops                \* control requests, each of one kind
Fails(what) == IF what \in setting.faults THEN BOOLEAN ELSE {FALSE}
NoJob == [op |-> "none", who |-> "nobody"]

\* A file that leaves its filesystem is copied, a directory goes to <base>/.trash/<entry>.
Copied(p) == setting.pieces[p].far /\ ~setting.pieces[p].dir
Beside(p) == setting.pieces[p].far /\ setting.pieces[p].dir

\* "one" is what the first site left, "two" what a site created again under the name did.
Where(k, c) == {x \in Pieces \X ({Home} \cup Entries) : k.files[x[1]][x[2]] = c}
Snapshot(k) == [c \in {"one", "two"} |-> Where(k, c)]

NoEntry == [dir |-> FALSE, manifest |-> "none", moved |-> <<>>, text |-> "none", expired |-> FALSE]

Init ==
    /\ setting \in Settings
    /\ s = [files |-> [p \in Pieces |-> [l \in {Home} \cup Entries |-> IF l = Home THEN "one" ELSE "none"]],
            conf |-> "one", bak |-> "none", served |-> TRUE,
            entry |-> [e \in Entries |-> NoEntry],
            helper |-> NoJob, ask |-> [c \in Callers |-> [st |-> "new", e |-> 1, gen |-> "none", text |-> "none"]],
            made |-> {<<p, "one">> : p \in Pieces}, gone |-> {}, crashed |-> FALSE]
-----------------------------------------------------------------------------
(* What the helper does to the disk                                           *)
rename(k, p, from, to) == [k EXCEPT !.files[p][to] = k.files[p][from], !.files[p][from] = "none"]

\* A directory is not renamed over one that holds something, nor a copy made over a file; a
\* file is renamed over another.
Taken(k, p, to) ==
    IF setting.pieces[p].dir THEN k.files[p][to] \notin {"none", "empty"} ELSE Copied(p) /\ k.files[p][to] # "none"

\* A missing place, or an empty directory.
absent_or_empty_dir(k, p) ==
    k.files[p][Home] = "none" \/ (setting.pieces[p].dir /\ k.files[p][Home] = "empty")

read_manifest(k, e) == k.entry[e].manifest = "full"

\* The pieces beside are known from the manifest alone; the entry's directory goes whole.
remove_entry(k, e) ==
    LET gone(p) == IF Beside(p) THEN read_manifest(k, e) /\ p \in Range(k.entry[e].moved) ELSE TRUE
    IN [k EXCEPT !.files = [p \in Pieces |-> IF gone(p) THEN [k.files[p] EXCEPT ![e] = "none"] ELSE k.files[p]],
                 !.entry[e] = NoEntry]

\* The reply of a request of caller c.
Reply(k, st) ==
    [k EXCEPT !.ask = IF k.helper.who \in Callers THEN [@ EXCEPT ![k.helper.who].st = st, ![k.helper.who].e = k.helper.e,
                                                                          ![k.helper.who].text = k.helper.text]
                      ELSE @,
              !.helper = NoJob]

Fail(k) == [k EXCEPT !.helper.pc = "undo"]

\* One more piece in its place: the next, or what follows the last.
Next_piece(k, p, then) ==
    LET rest == Tail(k.helper.todo)
    IN [k EXCEPT !.helper.todo = rest, !.helper.done = Append(@, p), !.helper.pc = IF rest = <<>> THEN then ELSE "move"]

\* move_path with copy_then_remove: a rename, or the copy (seen half made), the whole copy,
\* then the original's removal.  The failures are those of the calls.
move_path(from, to, then) ==
    LET p == Head(s.helper.todo) IN
    \/ /\ s.helper.pc = "move" /\ ~Copied(p)
       /\ \E fails \in Fails("move") :
            s' = IF fails \/ s.files[p][from] = "none" \/ Taken(s, p, to) THEN Fail(s)
                 ELSE Next_piece(rename(s, p, from, to), p, then)
    \/ /\ s.helper.pc = "move" /\ Copied(p)
       /\ s' = IF s.files[p][from] = "none" \/ Taken(s, p, to) THEN Fail(s)
               ELSE [s EXCEPT !.files[p][to] = "part", !.helper.pc = "copy"]
    \/ /\ s.helper.pc = "copy"
       /\ \E fails \in Fails("move") :
            s' = IF fails THEN Fail([s EXCEPT !.files[p][to] = "none"])
                 ELSE [s EXCEPT !.files[p][to] = s.files[p][from], !.helper.pc = "unlink"]
    \/ /\ s.helper.pc = "unlink"
       /\ \E fails \in Fails("unlink") :
            s' = IF fails THEN Fail(s)
                 ELSE Next_piece([s EXCEPT !.files[p][from] = "none"], p, then)

\* What was moved goes back by rename, whose result nobody reads: a copied file stays.
undo(from, to, after) ==
    /\ s.helper.pc = "undo"
    /\ LET k == s.helper IN
       s' = IF k.done = <<>> THEN after
            ELSE LET p == Last(k.done)
                     back == IF Copied(p) \/ Taken(s, p, from) THEN s ELSE rename(s, p, to, from)
                 IN [back EXCEPT !.helper.done = Front(@)]
-----------------------------------------------------------------------------
(* site_trash                                                                 *)
\* The site must be in the configuration on disk and its directory there; a running
\* service or a busy name refuses.  The pieces are those there now.
site_trash(c) ==
    LET free == {e \in Entries : ~s.entry[e].dir /\ \A p \in Pieces : s.files[p][e] = "none"}
        there == SelectSeq([p \in Pieces |-> p], LAMBDA p : s.files[p][Home] # "none")
    IN \E refused \in Fails("service") :
         s' = IF refused \/ s.conf = "none" \/ s.files[1][Home] = "none" \/ free = {}
              THEN [s EXCEPT !.ask[c].st = "refused"]
              ELSE LET e == CHOOSE e \in free : \A f \in free : e <= f IN
                   [s EXCEPT !.entry[e] = [NoEntry EXCEPT !.dir = TRUE],
                             !.helper = [op |-> "site_trash", who |-> c, e |-> e, todo |-> there, done |-> <<>>,
                                         pc |-> "move", before |-> Snapshot(s), text |-> s.conf],
                             !.ask[c].st = "helper"]

\* Mutant: the manifest is written before the pieces are moved.
write_manifest_names(k) == [k.entry[k.helper.e] EXCEPT !.manifest = "full", !.text = k.helper.text]

Manifest(k) == [k.entry[k.helper.e] EXCEPT !.manifest = "full", !.moved = k.helper.done, !.text = k.helper.text]

\* The manifest last: only an entry that is whole has one.
write_manifest ==
    /\ s.helper.pc = "manifest"
    /\ \E fails \in Fails("manifest") :
         s' = IF fails THEN Fail([s EXCEPT !.entry[s.helper.e].manifest = "part"])
              ELSE Reply([s EXCEPT !.entry[s.helper.e] = Manifest(s)], "moved")

site_trash_step ==
    /\ s.helper.op = "site_trash"
    /\ \/ s.helper.pc \in {"move", "copy", "unlink"} /\ move_path(Home, s.helper.e, "manifest")
       \/ write_manifest
       \/ undo(Home, s.helper.e, Reply(remove_entry(s, s.helper.e), "refused"))
-----------------------------------------------------------------------------
(* site_restore                                                               *)
\* Mutant: only the site's directory has to be free.
RestoreRefused_site(k, e) ==
    ~read_manifest(k, e) \/ k.conf # "none" \/ (1 \in Range(k.entry[e].moved) /\ ~absent_or_empty_dir(k, 1))

\* The site must not exist again and every place must be free.
RestoreRefused(k, e) ==
    ~read_manifest(k, e) \/ k.conf # "none" \/ \E p \in Range(k.entry[e].moved) : ~absent_or_empty_dir(k, p)

site_restore(c, e) ==
    s' = IF RestoreRefused(s, e) THEN [s EXCEPT !.ask[c].st = IF @ = "sync" THEN "unrestored" ELSE "refused"]
         ELSE [s EXCEPT !.helper = [op |-> "site_restore", who |-> c, e |-> e, todo |-> s.entry[e].moved, done |-> <<>>,
                                    pc |-> "move", before |-> Snapshot(s), text |-> s.entry[e].text],
                        !.ask[c].st = IF @ = "sync" THEN "sync" ELSE "helper"]

\* The site file, created with O_EXCL and removed again when that failed.
restore_file ==
    /\ s.helper.pc = "file"
    /\ \E fails \in Fails("file") :
         s' = IF fails \/ s.conf # "none" THEN Fail([s EXCEPT !.conf = "none"])
              ELSE [s EXCEPT !.conf = s.helper.text, !.helper.pc = "remove"]

\* The manifest and the emptied directories (remove_tree); a failure here is not told.
restore_remove ==
    /\ s.helper.pc = "remove"
    /\ \E fails \in Fails("remove") :
         s' = Reply(IF fails THEN s ELSE remove_entry(s, s.helper.e), "restored")

site_restore_step ==
    /\ s.helper.op = "site_restore"
    /\ \/ s.helper.pc \in {"move", "copy", "unlink"} /\ move_path(s.helper.e, Home, "file")
       \/ restore_file
       \/ restore_remove
       \/ undo(s.helper.e, Home, Reply(s, IF s.ask[s.helper.who].st = "sync" THEN "unrestored" ELSE "refused"))
-----------------------------------------------------------------------------
(* trash_delete and trash_expire                                              *)
\* gone (history): what a person, or its age, had removed.
Removed(k, e, due) ==
    [remove_entry(k, e) EXCEPT !.gone = IF ~due THEN @ ELSE @ \cup {<<p, k.files[p][e]>> : p \in {q \in Pieces : k.files[q][e] \in {"one", "two"}}}]

trash_delete(c, e) ==
    \E fails \in Fails("remove") :
      s' = IF ~s.entry[e].dir \/ fails THEN [s EXCEPT !.ask[c].st = "refused"]
           ELSE [Removed(s, e, TRUE) EXCEPT !.ask[c].st = "ok"]

\* Mutant: an entry whose manifest does not read counts as expired.
Expired_unread(k) == {e \in Entries : k.entry[e].dir /\ (k.entry[e].expired \/ ~read_manifest(k, e))}

\* trash_list: an entry whose manifest does not read is listed with its error, never expired.
Expired(k) == {e \in Entries : k.entry[e].dir /\ read_manifest(k, e) /\ k.entry[e].expired}

\* The hourly timer, and POST /v1/trash/expire: each expired entry in turn, try_request only.
trash_expire ==
    /\ s.helper = NoJob /\ setting.expires
    /\ \E e \in Expired(s) : s' = Removed(s, e, s.entry[e].expired)

\* The days of trash_keep pass.
Age ==
    /\ setting.expires
    /\ \E e \in Entries : ~s.entry[e].expired /\ s.entry[e].dir /\ s' = [s EXCEPT !.entry[e].expired = TRUE]
-----------------------------------------------------------------------------
(* Worker 0.  A request it waits for itself (backend_->provision) holds it.    *)
Blocked == \E c \in Callers : s.ask[c].st = "sync"
Reloading == \E c \in Callers : s.ask[c].st = "reloading"

\* reload_async: refused at once while another is under way, else the generation is made
\* from the disk now and takes over later.
reload_async(k, c) ==
    IF \E d \in Callers \ {c} : k.ask[d].st = "reloading" THEN [k EXCEPT !.ask[c].st = "unloaded"]
    ELSE [k EXCEPT !.ask[c].st = "reloading", !.ask[c].gen = k.conf]

\* site_create: the site file over whatever is there, then the places that are free get the
\* new site's content, or an empty directory.
Created(k) ==
    LET new == {p \in setting.again : absent_or_empty_dir(k, p)}
        what(p) == IF setting.pieces[p].dir /\ setting.bare THEN "empty" ELSE "two"
    IN [k EXCEPT !.bak = IF k.conf = "none" THEN @ ELSE k.conf, !.conf = "two",
                 !.files = [p \in Pieces |-> IF p \in new THEN [k.files[p] EXCEPT ![Home] = what(p)] ELSE k.files[p]],
                 !.made = @ \cup {<<p, what(p)>> : p \in {q \in new : what(q) = "two"}}]

\* The request's checks and what it does before it leaves worker 0.
Ask(c) ==
    /\ s.ask[c].st = "new" /\ ~Blocked
    /\ CASE setting.ops[c] = "delete" ->
              s' = [s EXCEPT !.ask[c].st = IF s.served THEN "queued" ELSE "refused"]
         [] setting.ops[c] \in {"restore", "purge"} ->
              \E e \in Entries : s.entry[e].dir /\ s' = [s EXCEPT !.ask[c].st = "queued", !.ask[c].e = e]
         [] setting.ops[c] = "create" ->
              /\ setting.calm => s.helper = NoJob
              /\ s' = IF s.served THEN [s EXCEPT !.ask[c].st = "refused"] ELSE reload_async(Created(s), c)
         [] OTHER ->
              s' = IF s.conf = "none" THEN [s EXCEPT !.ask[c].st = "refused"]
                   ELSE reload_async([s EXCEPT !.bak = s.conf, !.conf = "none"], c)

\* The helper takes one request at a time, in any order of those that wait.
Helper(c) ==
    /\ s.helper = NoJob
    /\ \/ /\ s.ask[c].st = "queued"
          /\ CASE setting.ops[c] = "delete" -> site_trash(c)
               [] setting.ops[c] = "restore" -> site_restore(c, s.ask[c].e)
               [] OTHER -> trash_delete(c, s.ask[c].e)
       \/ s.ask[c].st = "sync" /\ site_restore(c, s.ask[c].e)

\* The helper's reply at worker 0: the site file goes (or is back), the reload is asked for.
Replied(c) ==
    /\ ~Blocked
    /\ \/ s.ask[c].st = "moved" /\ s' = reload_async([s EXCEPT !.conf = "none"], c)
       \/ s.ask[c].st = "restored" /\ setting.ops[c] = "restore" /\ s' = reload_async(s, c)

Reloaded(k, c) == [k EXCEPT !.served = k.ask[c].gen # "none", !.ask[c].st = "ok"]

\* Refused: a deleted site's file is written again and the helper asked for its files; a new
\* site's file is removed; a dropped one comes back from .bak; a restored one stays.
Unloaded(k, c) ==
    CASE setting.ops[c] = "delete" -> [k EXCEPT !.conf = k.ask[c].text, !.ask[c].st = "sync"]
      [] setting.ops[c] = "create" -> [k EXCEPT !.conf = "none", !.ask[c].st = "refused"]
      [] setting.ops[c] = "drop" -> [k EXCEPT !.conf = IF k.bak = "none" THEN @ ELSE k.bak, !.ask[c].st = "refused"]
      [] OTHER -> [k EXCEPT !.ask[c].st = "refused"]

ReloadEnds(c) ==
    /\ ~Blocked
    /\ \/ s.ask[c].st = "reloading" /\ \E refused \in Fails("reload") :
            s' = IF refused THEN Unloaded(s, c) ELSE Reloaded(s, c)
       \/ s.ask[c].st = "unloaded" /\ s' = Unloaded(s, c)

\* The host stops: what the helper and the server had in memory is lost.
Crash ==
    /\ "crash" \in setting.faults /\ ~s.crashed
    /\ s' = [s EXCEPT !.crashed = TRUE, !.helper = NoJob, !.served = s.conf # "none",
                      !.ask = [c \in Callers |-> IF s.ask[c].st = "new" THEN s.ask[c] ELSE [s.ask[c] EXCEPT !.st = "lost"]]]

Next ==
    /\ UNCHANGED setting
    /\ \/ \E c \in Callers : Ask(c) \/ Helper(c) \/ Replied(c) \/ ReloadEnds(c)
       \/ site_trash_step \/ site_restore_step \/ trash_expire \/ Age \/ Crash

-----------------------------------------------------------------------------
\* What a site left is somewhere, at its place or in the trash, unless a person or the days of
\* trash_keep removed the entry that held it: no failed move, undone or not, no crash and no
\* site created again destroys it (site_trash, site_restore, remove_entry).
NothingLost == s.made \subseteq s.gone \cup {<<p, s.files[p][l]>> : p \in Pieces, l \in {Home} \cup Entries}

\* What the helper answers is so when it answers: after a refusal everything is still where it was
\* before the request ("nothing was moved", "nothing was restored"), after a delete every
\* piece is in the entry and its manifest names it, after a restore every piece is at home.
AnswerTrue ==
    \A c \in Callers :
      LET job == s.helper
          from == s.ask[c].st
          to == s'.ask[c].st
      IN job.who = c /\ from \in {"helper", "sync"} /\ to # from /\ to # "lost" =>
           CASE to = "moved" -> \A x \in {"one", "two"} : \A b \in job.before[x] :
                                  b[2] = Home => s'.files[b[1]][job.e] = x /\ b[1] \in Range(s'.entry[job.e].moved)
             [] to = "restored" -> \A x \in {"one", "two"} : \A b \in job.before[x] : b[2] = job.e => s'.files[b[1]][Home] = x
             [] OTHER -> \A x \in {"one", "two"} : job.before[x] \subseteq Where(s', x)

\* The two as one step property.
TrashStep == NothingLost' /\ AnswerTrue

\* "A reload that fails brings everything back" (control/handler.cpp, the comment of
\* site_trash): a refused delete leaves the site's files at their places.
RefusedDeleteUndone == \A c \in Callers : s.ask[c].st # "unrestored"
-----------------------------------------------------------------------------
Spec == Init /\ [][Next]_vars
=============================================================================
