------------------------------- MODULE Files -------------------------------
(* The file tools on a site (site_files, files::run, files::execute) and the  *)
(* history of what they replaced or removed (history.cpp).                    *)
(*                                                                            *)
(* A path is one name, or a name and a leaf below it.  The tree holds nodes,  *)
(* a file's node its inode, and s.data the inodes' text and mode; a write in  *)
(* place changes an inode under every name it has, the history's hard link    *)
(* included.  A digest is the text itself.  The root helper serves one        *)
(* request at a time, the account's part in a child; without it the server's  *)
(* threads serve several at once.  The site's own programs write meanwhile.   *)
EXTENDS Integers, Sequences, FiniteSets, SequencesExt

CONSTANTS Settings

VARIABLES
    s,        \* the site's tree, its history, the requests under way
    setting   \* the situation, which no step changes

vars == <<s, setting>>

Asks == setting.asks                       \* what each request asks
Fault(f) == f \in setting.faults
None == "none"
Keeping == setting.versions > 0
Nothing == [kind |-> "none", ino |-> 0, own |-> TRUE, in |-> <<>>]
File(ino) == [Nothing EXCEPT !.kind = "file", !.ino = ino]
Dir(in) == [Nothing EXCEPT !.kind = "dir", !.in = in]

At(t, p) ==
    IF Len(p) = 1 THEN t[p[1]]
    ELSE IF t[p[1]].kind = "dir" /\ t[p[1]].in # <<>> THEN t[p[1]].in[1] ELSE Nothing
Put(t, p, node) ==
    IF Len(p) = 1 THEN [t EXCEPT ![p[1]] = node]
    ELSE [t EXCEPT ![p[1]].in = IF node = Nothing THEN <<>> ELSE <<node>>]
There(t, p) == At(t, p).kind # "none"
\* The walk to the parent: every level a directory of the site's account, never a symlink.
open_parent(t, p) == Len(p) = 1 \/ (t[p[1]].kind = "dir" /\ t[p[1]].own)
\* renameat: what is there is replaced, a directory only by a directory and only when empty.
Renames(node, dest) ==
    /\ node # Nothing
    /\ \/ dest = Nothing
       \/ node.kind # "dir" /\ dest.kind # "dir"
       \/ node.kind = "dir" /\ dest.kind = "dir" /\ dest.in = <<>>

Leaf(i) == Asks[i].path
Act(i) == Asks[i].act
Changes(i) == Act(i) \notin {"list", "read", "history"}
KeepPath(i) == IF Act(i) = "move" THEN Asks[i].to ELSE Leaf(i)
Go(k, i, pc) == [k EXCEPT !.req[i].pc = pc]
Ends(k, i, ok, why) == [k EXCEPT !.req[i].pc = "result", !.req[i].ok = ok, !.req[i].why = why]
Replies(k, i, ok, why) == [k EXCEPT !.req[i].pc = "settle", !.req[i].ok = ok, !.req[i].why = why]
Under == {"new", "asked", "result", "answered"}
Active(k) == {i \in DOMAIN Asks : k.req[i].pc \notin Under}
Text(k, node) == IF node.kind = "file" THEN k.data[node.ino].text ELSE None
-----------------------------------------------------------------------------
(* The history                                                                *)
Mine(k, p) == SelectSeq(k.hist, LAMBDA v : v.meta /\ v.path = p)
Drop(k, ids) == [k EXCEPT !.hist = SelectSeq(@, LAMBDA v : v.id \notin ids)]
Version(k, id) == CHOOSE v \in Range(k.hist) : v.id = id
HasVersion(k, id) == \E v \in Range(k.hist) : v.id = id

prune_versions(k, p) ==
    LET mine == Mine(k, p)
    IN Drop(k, {mine[n].id : n \in 1 .. (Len(mine) - setting.versions)})

\* The version's name is made and the item put in; its meta is written afterwards.
Kept(k, i, p, move) ==
    LET id == Len(k.ids) + 1
        v == [id |-> id, path |-> p, node |-> At(k.tree, p), meta |-> FALSE, aged |-> FALSE]
        kk == [k EXCEPT !.ids = Append(@, i), !.hist = Append(@, v), !.req[i].entry = id, !.req[i].pc = "meta"]
    IN IF move THEN [kk EXCEPT !.tree = Put(@, p, Nothing)] ELSE kk

\* What follows a keep that found nothing there, or once it is complete.
AfterKeep(k, i) ==
    CASE Act(i) \in {"write", "edit", "move"} -> Go(k, i, "execute")
      [] Act(i) = "delete" -> IF k.req[i].entry = 0 THEN Ends(k, i, FALSE, "missing") ELSE Replies(k, i, TRUE, "")
      [] Act(i) = "restore" -> Go(k, i, "putback")

keep_impl(k, i) ==
    LET p == KeepPath(i)
        node == At(k.tree, p)
        move == Act(i) \notin {"write", "edit"}
    IN IF ~open_parent(k.tree, p) THEN Ends(k, i, FALSE, "parent")
       ELSE IF node = Nothing THEN AfterKeep(k, i)
       ELSE IF ~node.own \/ node.kind = "other" THEN Ends(k, i, FALSE, "other account")
       ELSE IF ~move /\ node.kind # "file" THEN AfterKeep(k, i)   \* the account's check says what is wrong
       ELSE IF Fault("history") THEN Ends(k, i, FALSE, "history")
       ELSE Kept(k, i, p, move)

Keep(i) == s.req[i].pc = "keep" /\ s' = keep_impl(s, i)
Meta(i) ==
    /\ s.req[i].pc = "meta"
    /\ LET written == [s EXCEPT !.hist = [n \in DOMAIN @ |-> IF @[n].id = s.req[i].entry THEN [@[n] EXCEPT !.meta = TRUE] ELSE @[n]]]
       IN \/ s' = AfterKeep(written, i)
          \/ Fault("meta") /\ s' = AfterKeep(s, i)

undo(k, i) ==
    LET p == KeepPath(i)
        item == Version(k, k.req[i].entry).node
        back == Act(i) \notin {"write", "edit"} /\ HasVersion(k, k.req[i].entry) /\ open_parent(k.tree, p) /\ Renames(item, At(k.tree, p))
    IN Drop(IF back THEN [k EXCEPT !.tree = Put(@, p, item)] ELSE k, {k.req[i].entry})

\* Mutant: the versions beyond the count go before the outcome is known.
settled_early(k, i) ==
    LET kk == prune_versions(k, KeepPath(i))
    IN IF kk.req[i].entry = 0 THEN kk ELSE IF kk.req[i].ok THEN kk ELSE undo(kk, i)
\* Mutant: a change that failed keeps what the history took.
settled_kept(k, i) == IF k.req[i].entry # 0 /\ k.req[i].ok THEN prune_versions(k, KeepPath(i)) ELSE k
settled(k, i) ==
    IF k.req[i].entry = 0 THEN k ELSE IF k.req[i].ok THEN prune_versions(k, KeepPath(i)) ELSE undo(k, i)
Settle(i) == s.req[i].pc = "settle" /\ s' = Go(settled(s, i), i, "result")

list(i) ==
    /\ s.req[i].pc = "history"
    /\ s' = [Ends(s, i, TRUE, "") EXCEPT !.req[i].got = {v.id : v \in Range(Mine(s, Leaf(i)))}]

\* Mutant: the version of another path goes back.
Restorable_any(k, i) == HasVersion(k, Asks[i].version) /\ Version(k, Asks[i].version).meta
Restorable(k, i) ==
    /\ HasVersion(k, Asks[i].version)
    /\ Version(k, Asks[i].version).meta /\ Version(k, Asks[i].version).path = Leaf(i)
restore(i) ==
    /\ s.req[i].pc = "restore"
    /\ s' = IF ~Restorable(s, i) THEN Ends(s, i, FALSE, "version")
            ELSE IF ~open_parent(s.tree, Leaf(i)) THEN Ends(s, i, FALSE, "parent")
            ELSE IF There(s.tree, Leaf(i)) /\ ~Asks[i].overwrite THEN Ends(s, i, FALSE, "exists")
            ELSE IF Asks[i].dry THEN Ends(s, i, TRUE, "")
            ELSE Go(s, i, IF There(s.tree, Leaf(i)) THEN "keep" ELSE "putback")
PutBack(i) ==
    /\ s.req[i].pc = "putback"
    /\ LET p == Leaf(i)
           id == Asks[i].version
           placed == open_parent(s.tree, p) /\ HasVersion(s, id) /\ Renames(Version(s, id).node, At(s.tree, p))
       IN s' = IF placed
               THEN Ends(prune_versions(Drop([s EXCEPT !.tree = Put(@, p, Version(s, id).node)], {id}), p), i, TRUE, "")
               ELSE Ends(IF s.req[i].entry = 0 THEN s ELSE undo(s, i), i, FALSE, "cannot")

\* Versions past the days, and those whose meta cannot be read.
Old(v) == ~v.meta \/ v.aged
Hit(k, is) == [k EXCEPT !.req = [i \in DOMAIN @ |-> IF i \in is THEN [@[i] EXCEPT !.hit = TRUE] ELSE @[i]]]
expire ==
    /\ Fault("days") /\ (setting.helper => Active(s) = {})
    /\ \E v \in Range(s.hist) : Old(v)
    /\ s' = Hit(Drop(s, {v.id : v \in {w \in Range(s.hist) : Old(w)}}), Active(s))
Days ==
    /\ Fault("days") /\ ~s.later /\ Active(s) = {}
    /\ s' = [s EXCEPT !.later = TRUE, !.hist = [n \in DOMAIN @ |-> [@[n] EXCEPT !.aged = TRUE]]]
-----------------------------------------------------------------------------
(* What the site's account does (files::execute)                              *)
Digest(text) == text
Small(text) == text # "huge"               \* within kDigestMax: read whole
Utf8(text) == text \notin {"huge", "binary"}
private_key_head(text) == text = "key"
secret_path(p) == p \in setting.secrets
ShaOf(i) == IF Asks[i].sha = "read" THEN s.req[Asks[i].after].sha ELSE Asks[i].sha

\* Mutant: the digest is not asked for.
Condition_unasked(i, node) == TRUE
Condition(i, node) ==
    \/ ShaOf(i) = None
    \/ ShaOf(i) = "absent" /\ node = Nothing
    \/ ShaOf(i) \notin {None, "absent"} /\ node # Nothing /\ Small(Text(s, node)) /\ Digest(Text(s, node)) = ShaOf(i)
current_of(node) ==
    IF node = Nothing THEN "" ELSE IF node.kind # "file" THEN "kind" ELSE IF ~node.own THEN "other account" ELSE ""

\* The text to write: an edit's old text occurs once in a text file.
Written(i, node) == IF Act(i) = "write" THEN Asks[i].text ELSE Asks[i].edits[Text(s, node)]
Refusal(i, node) ==
    IF current_of(node) # "" THEN current_of(node)
    ELSE IF ~Condition(i, node) THEN "changed"
    ELSE IF Act(i) = "write" THEN (IF node # Nothing /\ ~Asks[i].overwrite THEN "exists" ELSE "")
    ELSE IF node = Nothing THEN "missing"
    ELSE IF ~Utf8(Text(s, node)) THEN "not text"
    ELSE IF Text(s, node) \notin DOMAIN Asks[i].edits THEN "old" ELSE ""
Secret(i, node) ==
    secret_path(Leaf(i)) \/ private_key_head(Written(i, node)) \/ (node # Nothing /\ private_key_head(Text(s, node)))
do_write(i) ==
    LET node == At(s.tree, Leaf(i))
    IN IF ~open_parent(s.tree, Leaf(i)) THEN Replies(s, i, FALSE, "parent")
       ELSE IF Refusal(i, node) # "" THEN Replies(s, i, FALSE, Refusal(i, node))
       ELSE IF node # Nothing /\ Small(Text(s, node)) /\ Text(s, node) = Written(i, node) THEN Replies(s, i, TRUE, "unchanged")
       ELSE IF Asks[i].dry THEN Replies(s, i, TRUE, "")
       ELSE [s EXCEPT !.req[i].pc = "tmp", !.req[i].saw = node # Nothing,
                      !.req[i].put = [text |-> Written(i, node),
                                      mode |-> IF Secret(i, node) THEN "0600"
                                               ELSE IF node # Nothing THEN s.data[node.ino].mode ELSE "dir"]]

\* place: a temporary name next to the file, one per process (a child has its own, the server's
\* threads share one): whatever is under it is unlinked, and it is created anew.
Tmp(i) == <<Front(Leaf(i)), IF setting.helper THEN i ELSE 0>>
TmpAt(k, i) == IF Tmp(i) \in DOMAIN k.tmp THEN k.tmp[Tmp(i)] ELSE 0
SetTmp(k, i, ino) == [k EXCEPT !.tmp = [t \in DOMAIN @ \cup {Tmp(i)} |-> IF t = Tmp(i) THEN ino ELSE @[t]]]
PlaceOpen(i) ==
    /\ s.req[i].pc = "tmp"
    /\ LET ino == Len(s.data) + 1
       IN s' = [SetTmp(s, i, ino) EXCEPT !.data = Append(@, [text |-> "part", mode |-> "0600"]),
                                         !.req[i].ino = ino, !.req[i].pc = "fill"]
PlaceFill(i) ==
    /\ s.req[i].pc = "fill"
    /\ \/ s' = [s EXCEPT !.data[s.req[i].ino] = s.req[i].put, !.req[i].pc = "name"]
       \/ Fault("full") /\ s' = Replies(SetTmp(s, i, 0), i, FALSE, "full")
\* Renamed over a file that was there, linked where none was; what appeared meanwhile is not replaced then.
Named(k, i) ==
    LET p == Leaf(i)
        node == At(k.tree, p)
        may == IF k.req[i].saw THEN node.kind # "dir" ELSE node = Nothing
    IN IF TmpAt(k, i) = 0 \/ ~open_parent(k.tree, p) \/ ~may THEN Replies(SetTmp(k, i, 0), i, FALSE, "appeared")
       ELSE Replies(SetTmp([k EXCEPT !.tree = Put(@, p, File(TmpAt(k, i)))], i, 0), i, TRUE, "")
PlaceName(i) == s.req[i].pc = "name" /\ s' = Named(s, i)

\* Level by level; the levels already made stay when one cannot be.
do_mkdir(i) ==
    LET p == Leaf(i)
        top == s.tree[p[1]]
        made(t) == Replies([s EXCEPT !.tree = t], i, TRUE, "")
        last == Put(s.tree, p, Dir(<<>>))
    IN IF There(s.tree, p) THEN Replies(s, i, FALSE, "exists")
       ELSE IF Len(p) = 1 THEN (IF Asks[i].dry THEN Replies(s, i, TRUE, "") ELSE made(last))
       ELSE IF top = Nothing
       THEN (IF ~Asks[i].parents THEN Replies(s, i, FALSE, "missing")
             ELSE IF Asks[i].dry THEN Replies(s, i, TRUE, "")
             ELSE IF Fault("full") THEN Replies([s EXCEPT !.tree = Put(@, <<p[1]>>, Dir(<<>>))], i, FALSE, "full")
             ELSE made(Put(s.tree, <<p[1]>>, Dir(<<Dir(<<>>)>>))))
       ELSE IF ~open_parent(s.tree, p) THEN Replies(s, i, FALSE, "parent")
       ELSE IF Asks[i].dry THEN Replies(s, i, TRUE, "") ELSE made(last)

MoveRefusal(from, dest, overwrite) ==
    IF from = Nothing THEN "missing"
    ELSE IF ~from.own THEN "other account"
    ELSE IF dest # Nothing /\ ~overwrite THEN "exists"
    ELSE IF dest.kind = "dir" THEN "directory" ELSE ""
do_move(i, dry) ==
    LET from == At(s.tree, Leaf(i))
        dest == At(s.tree, Asks[i].to)
    IN IF ~open_parent(s.tree, Leaf(i)) \/ ~open_parent(s.tree, Asks[i].to) THEN Replies(s, i, FALSE, "parent")
       ELSE IF MoveRefusal(from, dest, Asks[i].overwrite) # "" THEN Replies(s, i, FALSE, MoveRefusal(from, dest, Asks[i].overwrite))
       ELSE IF dry THEN [Replies(s, i, TRUE, "") EXCEPT !.req[i].saw = dest # Nothing]
       ELSE IF ~Renames(from, dest) THEN Replies(s, i, FALSE, "cannot")
       ELSE Replies([s EXCEPT !.tree = Put(Put(@, Leaf(i), Nothing), Asks[i].to, from)], i, TRUE, "")

count_tree(node) == 1 + Len(node.in)
remove_tree(t, p) == Put(t, p, Nothing)
do_delete(i, remove) ==
    LET node == At(s.tree, Leaf(i))
    IN IF ~open_parent(s.tree, Leaf(i)) THEN Replies(s, i, FALSE, "parent")
       ELSE IF node = Nothing THEN Replies(s, i, FALSE, "missing")
       ELSE IF ~node.own THEN Replies(s, i, FALSE, "other account")
       ELSE IF count_tree(node) > 1 /\ ~Asks[i].recursive THEN Replies(s, i, FALSE, "not empty")
       ELSE IF node.kind = "file" /\ ShaOf(i) # None /\ ~Condition(i, node) THEN Replies(s, i, FALSE, "changed")
       ELSE IF ~remove THEN Replies(s, i, TRUE, "")
       ELSE Replies([s EXCEPT !.tree = remove_tree(@, Leaf(i))], i, TRUE, "")

\* The part asked for, then the file whole for its digest and its first line: one descriptor, three reads.
do_read(i) ==
    LET node == At(s.tree, Leaf(i))
    IN IF ~open_parent(s.tree, Leaf(i)) THEN Replies(s, i, FALSE, "parent")
       ELSE IF node = Nothing THEN Replies(s, i, FALSE, "missing")
       ELSE IF node.kind # "file" THEN Replies(s, i, FALSE, "kind")
       ELSE IF Asks[i].dry THEN Replies(s, i, TRUE, "")
       ELSE [s EXCEPT !.req[i].pc = "digest", !.req[i].ino = node.ino, !.req[i].part = Text(s, node)]
ReadDigest(i) ==
    /\ s.req[i].pc = "digest"
    /\ LET text == s.data[s.req[i].ino].text
       IN s' = [Replies(s, i, TRUE, "") EXCEPT !.req[i].sha = IF Small(text) THEN Digest(text) ELSE "huge",
                                               !.req[i].saw = secret_path(Leaf(i)) \/ private_key_head(text)]
do_list(i) ==
    IF Leaf(i) # <<>> /\ At(s.tree, Leaf(i)).kind # "dir" THEN Replies(s, i, FALSE, "missing") ELSE Replies(s, i, TRUE, "")

execute(i) ==
    CASE Act(i) = "list" -> do_list(i)
      [] Act(i) = "read" -> do_read(i)
      [] Act(i) \in {"write", "edit"} -> do_write(i)
      [] Act(i) = "mkdir" -> do_mkdir(i)
      [] Act(i) = "move" -> do_move(i, Asks[i].dry)
      [] Act(i) = "delete" -> do_delete(i, ~Asks[i].dry)
Execute(i) == s.req[i].pc = "execute" /\ s' = execute(i)

\* The dry run of a move or a delete, as the account, before the history takes anything.
Check(i) ==
    /\ s.req[i].pc = "check"
    /\ LET c == IF Act(i) = "move" THEN do_move(i, TRUE) ELSE do_delete(i, FALSE)
       IN s' = IF ~c.req[i].ok THEN Go(c, i, "result")
               ELSE Go(c, i, IF Act(i) = "delete" \/ c.req[i].saw THEN "keep" ELSE "execute")

\* The child that runs past its five minutes is killed: nobody knows how far it came.
Child == {"execute", "check", "tmp", "fill", "name", "digest"}
Killed(i) ==
    /\ Fault("killed") /\ setting.helper
    /\ s.req[i].pc \in Child \/ (s.req[i].pc = "settle" /\ Act(i) # "delete" /\ ~s.req[i].killed)
    /\ s' = [IF s.req[i].pc = "check" THEN Ends(s, i, FALSE, "killed") ELSE Replies(s, i, FALSE, "killed")
             EXCEPT !.req[i].killed = TRUE]
-----------------------------------------------------------------------------
(* The request (site_files, files::run) and its answer                        *)
\* The action known, the paths clean, flags and numbers of their types, the text within its size.
parse(i) == {"action", "path", "size"} \cap Asks[i].facts = {}
\* No such site, or no directory below sites_root.
site_files(i) ==
    /\ s.req[i].pc = "new" /\ (Asks[i].after # 0 => s.req[Asks[i].after].pc = "answered")
    /\ s' = IF {"site", "root"} \cap Asks[i].facts # {} \/ ~parse(i) THEN [s EXCEPT !.req[i].pc = "answered", !.req[i].answer = "refused"] ELSE Go(s, i, "asked")

Paths(i) == {Leaf(i)} \cup (IF Act(i) = "move" THEN {Asks[i].to} ELSE {})
Meet(p, q) == Front(p) = Front(q) \/ IsPrefix(p, q) \/ IsPrefix(q, p)
Near(i, j) == \E p \in Paths(i), q \in Paths(j) : p = <<>> \/ q = <<>> \/ Meet(p, q)

\* Where files::run begins, by the action.
First(i) ==
    CASE Act(i) \in {"history", "restore"} -> Act(i)
      [] Act(i) \in {"list", "read", "mkdir"} \/ Asks[i].dry \/ ~Keeping -> "execute"
      [] Act(i) \in {"write", "edit"} -> "keep"
      [] Act(i) \in {"move", "delete"} -> "check"
run(i) ==
    /\ s.req[i].pc = "asked" /\ (setting.helper => Active(s) = {})
    /\ LET near == {j \in Active(s) : Near(i, j)}
           k == [Go(s, i, First(i)) EXCEPT !.req[i].was = [tree |-> s.tree, hist |-> s.hist]]
       IN s' = Hit(k, near \cup (IF near = {} THEN {} ELSE {i}))

\* A private key's text is not answered without approval: its path is remembered, and the next
\* read of it waits for one.
Withheld(i) == Act(i) = "read" /\ s.req[i].ok /\ ~Asks[i].dry /\ s.req[i].saw /\ ~Asks[i].approved
Status(i) ==
    IF Withheld(i) THEN "withheld"
    ELSE IF ~s.req[i].ok THEN (IF s.req[i].why = "missing" THEN "404" ELSE "409")
    ELSE IF Changes(i) /\ ~Asks[i].dry /\ Fault("invalid") THEN "409 written"
    ELSE IF Act(i) = "write" /\ ~Asks[i].dry /\ ~s.req[i].saw THEN "201" ELSE "200"
Answered(i) ==
    /\ s.req[i].pc = "result"
    /\ s' = [s EXCEPT !.req[i].pc = "answered", !.req[i].answer = Status(i),
                      !.req[i].part = IF Withheld(i) THEN None ELSE @,
                      !.keys = IF Withheld(i) THEN @ \cup {Leaf(i)} ELSE @]

\* The site's own programs: a file written in place, replaced, created or removed.
Site(w) ==
    /\ w \notin s.did /\ open_parent(s.tree, w.path)
    /\ LET node == At(s.tree, w.path)
           new == Len(s.data) + 1
           k == Hit([s EXCEPT !.did = @ \cup {w}], Active(s))
       IN \/ w.how = "in place" /\ node.kind = "file" /\ s' = [k EXCEPT !.data[node.ino].text = "site"]
          \/ w.how = "replace" /\ node.kind \in {"none", "file"}
             /\ s' = [k EXCEPT !.tree = Put(@, w.path, File(new)), !.data = Append(@, [text |-> "site", mode |-> "dir"])]
          \/ w.how = "remove" /\ node.kind = "file" /\ s' = [k EXCEPT !.tree = Put(@, w.path, Nothing)]

Fresh == [pc |-> "new", entry |-> 0, saw |-> FALSE, put |-> [text |-> None, mode |-> None], ino |-> 0, ok |-> FALSE,
          why |-> "", was |-> [tree |-> <<>>, hist |-> <<>>], hit |-> FALSE, killed |-> FALSE,
          part |-> None, sha |-> None, got |-> {}, answer |-> None]
Init ==
    /\ setting \in Settings
    /\ s = [tree |-> setting.tree, data |-> setting.data, hist |-> setting.hist, tmp |-> <<>>,
            ids |-> [n \in 1 .. Len(setting.hist) |-> 0], later |-> FALSE, did |-> {}, keys |-> {},
            req |-> [i \in DOMAIN setting.asks |-> Fresh]]

Step(i) ==
    \/ site_files(i) \/ run(i) \/ Keep(i) \/ Meta(i) \/ Check(i) \/ Execute(i)
    \/ PlaceOpen(i) \/ PlaceFill(i) \/ PlaceName(i) \/ ReadDigest(i) \/ Settle(i)
    \/ list(i) \/ restore(i) \/ PutBack(i) \/ Killed(i) \/ Answered(i)
Next ==
    /\ UNCHANGED setting
    /\ \/ \E i \in DOMAIN Asks : Step(i)
       \/ \E w \in setting.site : Site(w)
       \/ expire \/ Days

Spec == Init /\ [][Next]_vars
-----------------------------------------------------------------------------
Alone(i) == ~s.req[i].hit /\ ~s.req[i].killed
Inodes(node) == {node.ino : n \in IF node.kind = "file" THEN {1} ELSE {}} \cup {node.in[n].ino : n \in {m \in DOMAIN node.in : node.in[m].kind = "file"}}
Live(k) == UNION {Inodes(k.tree[n]) : n \in DOMAIN k.tree} \cup UNION {Inodes(v.node) : v \in Range(k.hist)}
Gone(x) == {v \in Range(s.hist) : x \in Inodes(v.node) /\ ~HasVersion(s', v.id)}
Outnumbered(v) == Cardinality({n \in DOMAIN s'.hist : s'.hist[n].path = v.path /\ s'.hist[n].id > v.id}) >= setting.versions
Moves(i) == s'.req[i].pc # s.req[i].pc

\* Nothing of the site's is lost to a file operation (history.hpp: "What a change to a site's
\* files replaced or removed, kept for an undo"): a file leaves the tree and the history only as a
\* version that as many newer ones of its path outnumber, as one past its days or without a
\* readable meta, where no history is kept, by the site's own programs, or in an operation they
\* ran into or whose child was killed.
NothingLost ==
    \A x \in Live(s) \ Live(s') :
        \/ ~Keeping \/ s'.did # s.did
        \/ \E v \in Gone(x) : Outnumbered(v) \/ Old(v)
        \/ \E i \in DOMAIN Asks : Moves(i) /\ ~Alone(i)

\* A change that is refused leaves the tree and every version as they were (files.cpp: "a refused
\* change must leave every version as it was"), unless others changed the same place meanwhile.
RefusedUndone ==
    \A i \in DOMAIN Asks : Moves(i) /\ s'.req[i].pc = "result" /\ ~s'.req[i].ok /\ Alone(i) /\ s.req[i].pc # "new"
        /\ ~s'.req[i].killed /\ (Act(i) = "mkdir" => ~Fault("full"))
        /\ (\A j \in DOMAIN Asks \ {i} : s.req[j].pc \in Under) /\ setting.helper =>
        s'.tree = s.req[i].was.tree /\ s'.hist = s.req[i].was.hist

\* A write made on a condition replaces what the condition names, and one made on the digest of
\* an earlier read replaces the text that read showed, unless the site wrote during one of them.
ConditionHeld ==
    \A i \in DOMAIN Asks : s.req[i].pc = "name" /\ s'.req[i].ok /\ Moves(i) /\ Alone(i) /\ Asks[i].sha # None =>
        LET before == At(s.tree, Leaf(i))
            j == Asks[i].after
        IN IF Asks[i].sha = "absent" THEN before = Nothing
           ELSE Asks[i].sha = "read" /\ Alone(j) => Text(s, before) = s.req[j].part

\* What place puts under a name is the whole text asked for, a credential readable by its account
\* alone, unless another operation shares the temporary name.
PlacedWhole ==
    \A i \in DOMAIN Asks : s.req[i].pc = "name" /\ s'.req[i].ok /\ Moves(i) /\ Alone(i) =>
        LET ino == At(s'.tree, Leaf(i)).ino
        IN /\ s'.data[ino] = s.req[i].put
           /\ secret_path(Leaf(i)) \/ private_key_head(s'.data[ino].text) => s'.data[ino].mode = "0600"

\* A restore puts back the version asked for, of that path, and what it replaced is a version now
\* where a history is kept (with versions = 0 it is removed at once).
RestoredExact ==
    \A i \in DOMAIN Asks : s.req[i].pc = "putback" /\ s'.req[i].ok /\ Alone(i) =>
        /\ HasVersion(s, Asks[i].version) /\ Version(s, Asks[i].version).path = Leaf(i)
        /\ At(s'.tree, Leaf(i)) = Version(s, Asks[i].version).node
        /\ ~HasVersion(s', Asks[i].version)
        /\ Keeping /\ There(s.req[i].was.tree, Leaf(i)) =>
               \E v \in Range(s'.hist) : v.node = At(s.req[i].was.tree, Leaf(i)) /\ v.path = Leaf(i)

\* The text of a private key is answered only to an approved read, unless it is written during it.
KeysWithheld ==
    \A i \in DOMAIN Asks : Act(i) = "read" /\ s'.req[i].answer = "200" /\ private_key_head(s'.req[i].part) =>
        Asks[i].approved \/ s'.req[i].hit

\* Every request is answered, however the steps fall.
AllAnswered == ~ENABLED Next => \A i \in DOMAIN Asks : s.req[i].pc = "answered"

\* A write of the text the file holds already keeps nothing: files.cpp, "The file holds this text
\* already: nothing written, nothing kept in the history".
UnchangedKeepsNothing ==
    [][\A i \in DOMAIN Asks : s.req[i].pc = "settle" /\ s'.req[i].pc = "result" /\ s.req[i].why = "unchanged" =>
           s'.hist = s.req[i].was.hist]_vars

FilesStep == NothingLost /\ RefusedUndone /\ ConditionHeld /\ PlacedWhole /\ RestoredExact /\ KeysWithheld /\ AllAnswered'
=============================================================================
