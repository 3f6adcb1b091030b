------------------------------ MODULE Install ------------------------------
(* Applications put into a site: uploads (upload_receive), site-install       *)
(* (site_install, install_async, app_install, install::execute), the download *)
(* (fetch.cpp), the archive's entries (archive.cpp) and site-copy (copy_file).*)
(*                                                                            *)
(* Paths are sequences of names below the site's directory.  Bytes are pieces *)
(* named after who sent them; a file's content is a sequence of pieces, and   *)
(* setting.archives says which contents are archives.  An install is one      *)
(* process: the child of the root helper, one at a time, or a thread of the   *)
(* server, several at once.  The site's own programs write meanwhile.         *)
EXTENDS Integers, Sequences, FiniteSets, SequencesExt

CONSTANTS Settings

VARIABLES
    s,        \* the site's tree, the uploads directory, the installs and uploads under way
    setting   \* the situation, which no step changes

vars == <<s, setting>>

Asks == setting.asks                 \* what each site-install or site-copy asks
Installs == {i \in DOMAIN Asks : Asks[i].kind = "install"}
Copies == DOMAIN Asks \ Installs
Uploads == DOMAIN setting.sends      \* what each upload sends, and its name
Fault(f) == f \in setting.faults
None == "none"
Hole == "hole"                       \* bytes of a file nobody wrote

MaxRedirects == 1                    \* Options::max_redirects
MaxDownload == 3                     \* Request::max_download, in pieces
MaxEntries == 4                      \* Limits, in entries, names, pieces
MaxDepth == 3
MaxFile == 2
MaxBytes == 3

Under(dir, p) == IsStrictPrefix(dir, p)
Holds(tree, dir) == {p \in DOMAIN tree : Under(dir, p)}
Keep(tree, paths) == [p \in paths |-> tree[p]]
Without(tree, paths) == Keep(tree, DOMAIN tree \ paths)
Put(tree, p, what) == [q \in DOMAIN tree \cup {p} |-> IF q = p THEN what ELSE tree[q]]
Dir(i) == [kind |-> "dir", by |-> i, data |-> 0, private |-> FALSE]
File(i, data) == [kind |-> "file", by |-> i, data |-> data, private |-> FALSE]
-----------------------------------------------------------------------------
(* Uploads (upload_receive, upload_delete)                                    *)
Part(n) == <<"part", n>>             \* NAME.part, under which an upload is written
Final(n) == <<"final", n>>
Link(k, name, ino) == [k EXCEPT !.dir = Put(@, name, ino)]
Unlink(k, name) == [k EXCEPT !.dir = Without(@, {name})]
Name(c) == setting.sends[c].name
Ends(k, c, answer) == [k EXCEPT !.up[c].pc = "ended", !.up[c].answer = answer]

\* The file is truncated when it is there already: no two uploads of a name are told apart.
upload_receive(c) ==
    /\ s.up[c].pc = "new"
    /\ IF {"role", "name", "off", "body"} \cap setting.sends[c].facts # {} THEN s' = Ends(s, c, "refused")
       ELSE LET there == Part(Name(c)) \in DOMAIN s.dir
                ino == IF there THEN s.dir[Part(Name(c))] ELSE c
                k == [s EXCEPT !.content[ino] = <<>>, !.up[c].pc = "body", !.up[c].ino = ino]
                shared == {d \in Uploads : d = c \/ (s.up[d].pc = "body" /\ Name(d) = Name(c))}
            IN s' = [Link(k, Part(Name(c)), ino) EXCEPT
                        !.shared = IF Cardinality(shared) > 1 THEN @ \cup shared ELSE @]

\* Mutant: what a broken transfer has written stays.
Dropped_kept(k, c) == k

\* UploadState's destructor: an upload that did not complete leaves nothing.
Dropped(k, c) == Unlink(k, Part(Name(c)))

\* A write goes to the descriptor's own offset.
Written(content, at, piece) ==
    [n \in 1 .. (IF Len(content) > at THEN Len(content) ELSE at + 1) |->
        IF n = at + 1 THEN piece ELSE IF n <= Len(content) THEN content[n] ELSE Hole]

Chunk(c) ==
    /\ s.up[c].pc = "body" /\ s.up[c].at < Len(setting.sends[c].data)
    /\ LET u == s.up[c] IN
       \/ s' = [s EXCEPT !.content[u.ino] = Written(@, u.at, setting.sends[c].data[u.at + 1]), !.up[c].at = @ + 1]
       \/ Fault("disk") /\ s' = Dropped(Ends(s, c, "507"), c)

Aborted(c) == Fault("abort") /\ s.up[c].pc = "body" /\ s' = Dropped(Ends(s, c, "gone"), c)

\* The body has ended: sync, close, rename; the file of a failed rename is removed.
Stored(k, c) ==
    IF Part(Name(c)) \in DOMAIN k.dir
    THEN Unlink(Link(Ends(k, c, "201"), Final(Name(c)), k.dir[Part(Name(c))]), Part(Name(c)))
    ELSE Ends(k, c, "500")

BodyEnds(c) ==
    /\ s.up[c].pc = "body" /\ s.up[c].at = Len(setting.sends[c].data)
    /\ \/ s' = Stored(s, c)
       \/ Fault("disk") /\ s' = Dropped(Ends(s, c, "500"), c)

upload_delete(n) == Fault("delete") /\ Final(n) \in DOMAIN s.dir /\ s' = Unlink(s, Final(n))
-----------------------------------------------------------------------------
(* The download (https_get)                                                   *)
\* One hop: an error, the next address, or the body's pieces.
split_url(a) == "url" \notin a.facts
connect_checked(a) == {"dns", "private", "connect", "tls"} \cap a.facts = {}
parse_head(a) == {"late", "nohead", "longhead", "malformed"} \cap a.facts = {}
Redirects == {301, 302, 303, 307, 308}

\* What the framing says of the body that came: whole, or ended before its end.
feed(a) == IF a.framing = "close" \/ Len(a.pieces) = a.length THEN "whole" ELSE "short"

hop(a) ==
    IF ~split_url(a) \/ ~connect_checked(a) \/ ~parse_head(a) THEN [to |-> None, why |-> "error"]
    ELSE IF a.status \in Redirects
         THEN IF a.location \in {None, "plain"} THEN [to |-> None, why |-> "error"] ELSE [to |-> a.location, why |-> "redirect"]
    ELSE IF a.status # 200 \/ (a.framing = "length" /\ a.length > MaxDownload) \/ Len(a.pieces) > MaxDownload \/ feed(a) = "short"
         THEN [to |-> None, why |-> "error"]
    ELSE [to |-> None, why |-> "body"]
-----------------------------------------------------------------------------
(* Archives (extract, tar_extract, zip_extract, Emitter, DirectorySink)       *)
NoArchive == [format |-> "unknown", entries |-> <<>>, ends |-> "garbage"]
sniff(content) == IF content \in DOMAIN setting.archives THEN setting.archives[content] ELSE NoArchive

\* What the format refuses of an entry before anything is made of it.
tar_extract(e) == e.kind \in {"file", "dir", "root", "L", "x", "g"} /\ {"checksum", "longheader"} \cap e.wrong = {}
zip_extract(e) == e.kind \in {"file", "dir", "root"} /\ {"corrupt", "zip64", "encrypted", "dirdata", "method", "local", "outside"} \cap e.wrong = {}
Readable(format, e) == IF format = "zip" THEN zip_extract(e) ELSE tar_extract(e)
\* And of a file's data, when it has been written.
DataHolds(e) == {"short", "crc", "past"} \cap e.wrong = {}

\* A name given by a header before the entry; pax wins.
NameOf(w, e) == IF w.pax # <<>> THEN w.pax ELSE IF w.long # <<>> THEN w.long ELSE e.path
clean_path(e) == "path" \notin e.wrong

\* Emitter: the counts and limits every format shares, and the top every entry has.
entry(w, e, p) ==
    [w EXCEPT !.entries = @ + 1, !.long = <<>>, !.pax = <<>>,
              !.top = IF w.entries = 0 THEN p[1] ELSE @,
              !.single = /\ w.entries = 0 \/ (@ /\ w.top = p[1])
                         /\ ~(e.kind = "file" /\ Len(p) = 1 /\ (w.entries = 0 \/ w.top = p[1])),
              !.files = IF e.kind = "file" THEN @ + 1 ELSE @, !.bytes = IF e.kind = "file" THEN @ + e.size ELSE @]

Fits(w, e, p) ==
    /\ clean_path(e) /\ Len(p) <= MaxDepth /\ w.entries < MaxEntries
    /\ e.kind = "file" => e.size <= MaxFile /\ w.bytes + e.size <= MaxBytes

\* DirectorySink: missing parents are made, a file is made O_EXCL and O_NOFOLLOW.
Parents(base, p) == {base \o SubSeq(p, 1, n) : n \in 1 .. Len(p) - 1}
make_dir(tree, p) == p \in DOMAIN tree => tree[p].kind = "dir"
Placed(tree, i, base, e, p) ==
    /\ \A q \in Parents(base, p) : make_dir(tree, q)
    /\ IF e.kind = "dir" THEN make_dir(tree, base \o p) ELSE base \o p \notin DOMAIN tree

Sink(tree, i, base, e, p) ==
    [q \in DOMAIN tree \cup Parents(base, p) \cup {base \o p} |->
        IF q = base \o p /\ e.kind = "file" THEN File(i, e.size)
        ELSE IF q \in DOMAIN tree THEN tree[q] ELSE Dir(i)]
-----------------------------------------------------------------------------
(* install::execute, one step per call that other processes can come between  *)
Target(i) == Asks[i].sub
Done(k, i, ok) == [k EXCEPT !.run[i].pc = "result", !.run[i].ok = ok, !.busy = FALSE]

\* Deepest first, and only what is empty.
remove_created(k, i) ==
    [k EXCEPT !.tree = LET gone == {p \in k.run[i].created : Holds(@, p) \subseteq k.run[i].created}
                       IN Without(@, gone)]

\* Mutant: the directories made for the target stay when the walk is refused.
fail_walk_keeps(k, i) == Done(k, i, FALSE)

fail_walk(k, i) == Done(remove_created(k, i), i, FALSE)

clear_directory(k, i) == [k EXCEPT !.tree = Without(@, Holds(@, Target(i)))]

\* Mutant: a failed install leaves what it has extracted.
fail_install_keeps(k, i) == Done(remove_created(k, i), i, FALSE)

\* From here on a failure empties the target and removes what was created.
fail_install(k, i) == Done(remove_created(clear_directory(k, i), i), i, FALSE)

\* The walk opens one component, or makes the missing one.
Walk(i) ==
    /\ s.run[i].pc = "walk" /\ s.run[i].at < Len(Target(i))
    /\ LET p == SubSeq(Target(i), 1, s.run[i].at + 1) IN
       s' = IF p \notin DOMAIN s.tree
            THEN IF ~Asks[i].create THEN fail_walk(s, i)
                 ELSE IF Asks[i].dry THEN Done(s, i, TRUE)
                 ELSE [s EXCEPT !.run[i].pc = "mkdir"]
            ELSE IF s.tree[p].kind # "dir" THEN fail_walk(s, i)
            ELSE [s EXCEPT !.run[i].at = @ + 1]

Mkdir(i) ==
    /\ s.run[i].pc = "mkdir"
    /\ LET p == SubSeq(Target(i), 1, s.run[i].at + 1) IN
       \/ /\ p \in DOMAIN s.tree \/ Fault("full")
          /\ s' = fail_walk(s, i)
       \/ /\ p \notin DOMAIN s.tree
          /\ s' = [s EXCEPT !.tree = Put(@, p, Dir(i)), !.run[i].created = @ \cup {p}, !.run[i].at = @ + 1, !.run[i].pc = "walk"]

\* Mutant: the target is not looked at.
directory_empty_unasked(tree, dir) == TRUE

directory_empty(tree, dir) == Holds(tree, dir) = {}

Look(i) ==
    /\ s.run[i].pc = "walk" /\ s.run[i].at = Len(Target(i))
    /\ s' = IF ~directory_empty(s.tree, Target(i)) THEN fail_walk(s, i)
            ELSE IF Asks[i].dry THEN Done(s, i, TRUE)
            ELSE [s EXCEPT !.run[i].pc = IF Asks[i].url # None THEN "fetch" ELSE "digest"]

\* https_get, a hop a step, into an unlinked file of the target.
Fetch(i) ==
    /\ s.run[i].pc = "fetch"
    /\ LET a == setting.web[s.run[i].url]
           h == hop(a)
       IN s' = IF h.why = "error" \/ s.run[i].hops > MaxRedirects THEN fail_install(s, i)
               ELSE IF h.why = "redirect" THEN [s EXCEPT !.run[i].url = h.to, !.run[i].hops = @ + 1]
               ELSE [s EXCEPT !.run[i].got = a.pieces, !.run[i].pc = "digest"]

\* What the descriptor reads: the download, or the upload's file as it is now.
Archive(k, i) == IF Asks[i].url # None THEN k.run[i].got ELSE k.content[k.run[i].ino]

digest_of(k, i) == Archive(k, i)

Digest(i) ==
    /\ s.run[i].pc = "digest"
    /\ s' = IF Asks[i].sha # None /\ digest_of(s, i) # setting.digests[Asks[i].sha] THEN fail_install(s, i)
            ELSE [s EXCEPT !.run[i].pc = "extract", !.run[i].judged = digest_of(s, i)]

\* Mutant: an archive that ends inside an entry is taken as it is.
AtEnd_any(a) == TRUE

\* The end marker, or a tar that stops on a block boundary; gzip must end its stream.
AtEnd(a) == a.ends = "marker" \/ (a.ends = "boundary" /\ a.format = "tar")

\* One entry: its header, its name, its place, its data.
Extracted(k, i, e, w) ==
    IF ~Readable(sniff(Archive(k, i)).format, e) THEN fail_install(k, i)
    ELSE IF e.kind = "L" THEN [k EXCEPT !.run[i].w.long = e.path]
    ELSE IF e.kind = "x" THEN [k EXCEPT !.run[i].w.pax = e.path]
    ELSE IF e.kind \in {"g", "root"} THEN k
    ELSE IF ~Fits(w, e, NameOf(w, e)) \/ ~Placed(k.tree, i, Target(i), e, NameOf(w, e)) \/ ~DataHolds(e) THEN fail_install(k, i)
    ELSE [k EXCEPT !.tree = Sink(@, i, Target(i), e, NameOf(w, e)), !.run[i].w = entry(w, e, NameOf(w, e))]

Extract(i) ==
    /\ s.run[i].pc = "extract"
    /\ LET a == sniff(Archive(s, i))
           n == s.run[i].read + 1
       IN s' = IF a.format = "unknown" THEN fail_install(s, i)
               ELSE IF n <= Len(a.entries)
               THEN Extracted([s EXCEPT !.run[i].read = n], i, a.entries[n], s.run[i].w)
               ELSE IF AtEnd(a) THEN [s EXCEPT !.run[i].pc = "unwrap"] ELSE fail_install(s, i)

\* unwrap: the top directory's children are moved up one by one, in no order.
Children(tree, dir) == {p[Len(dir) + 1] : p \in Holds(tree, dir)}
Moved(tree, from, to) ==
    LET name(p) == IF p = from \/ Under(from, p) THEN to \o SubSeq(p, Len(from) + 1, Len(p)) ELSE p
        left == {p \in DOMAIN tree : p # to}
    IN [q \in {name(p) : p \in left} |-> tree[CHOOSE p \in left : name(p) = q]]

Unwraps(w, strip) == (strip = 1 \/ (strip < 0 /\ w.single /\ w.files > 0)) /\ w.entries > 0 /\ w.single

Unwrap(i) ==
    /\ s.run[i].pc = "unwrap"
    /\ LET w == s.run[i].w
           top == Append(Target(i), w.top)
           up(n) == Append(Target(i), n)
           kept == [s EXCEPT !.run[i].pc = "secure"]
       IN IF ~Unwraps(w, Asks[i].strip) \/ (w.top \in Children(s.tree, top) /\ ~s.run[i].moved) THEN s' = kept
          ELSE \/ \E n \in Children(s.tree, top) :
                    s' = IF up(n) \in DOMAIN s.tree /\ (s.tree[up(n)].kind = "dir" \/ s.tree[Append(top, n)].kind = "dir") THEN kept
                         ELSE [s EXCEPT !.tree = Moved(@, Append(top, n), up(n)), !.run[i].moved = TRUE]
               \/ Children(s.tree, top) = {} /\ s' = [kept EXCEPT !.tree = Without(@, {top})]

\* Mutant: the credential files keep what the directory's pattern gave them.
Private_not(tree, i) == tree

\* The preset's credential files become the site's alone.
Private(tree, i) == [p \in DOMAIN tree |-> IF p \in Asks[i].secrets /\ Under(Target(i), p) THEN [tree[p] EXCEPT !.private = TRUE] ELSE tree[p]]

Secure(i) ==
    /\ s.run[i].pc = "secure"
    /\ s' = IF Fault("exposed") /\ \E p \in Asks[i].secrets : p \in Holds(s.tree, Target(i)) THEN fail_install(s, i)
            ELSE [s EXCEPT !.tree = Private(@, i), !.run[i].pc = "php"]

\* For a whole application: the release against the site's PHP.
check_requirements(i) ==
    /\ s.run[i].pc = "php"
    /\ s' = IF Target(i) = <<>> /\ "php" \in Asks[i].facts /\ "ignore" \notin Asks[i].facts THEN fail_install(s, i) ELSE Done(s, i, TRUE)
-----------------------------------------------------------------------------
(* site-copy (install::copy_file): looked at, written beside, put in place    *)
CopyLook(i) ==
    /\ s.run[i].pc = "look"
    /\ LET q == Asks[i]
           there == q.to \in DOMAIN s.tree
       IN s' = IF \/ q.from \notin DOMAIN s.tree \/ q.from = q.to \/ "large" \in q.facts
                  \/ (q.from \in DOMAIN s.tree /\ s.tree[q.from].kind # "file")
                  \/ ~(\A n \in 1 .. Len(q.to) - 1 : SubSeq(q.to, 1, n) \in DOMAIN s.tree)
                  \/ (there /\ (s.tree[q.to].kind # "file" \/ ~q.overwrite))
               THEN Done(s, i, FALSE)
               ELSE IF q.dry THEN Done(s, i, TRUE)
               ELSE [s EXCEPT !.run[i].pc = "place", !.run[i].replaces = there, !.run[i].copied = s.tree[q.from].data]


\* Only what was seen there is replaced: otherwise link, which refuses a name in use.
Replaces(k, i) == k.run[i].replaces

CopyPlace(i) ==
    /\ s.run[i].pc = "place"
    /\ LET q == Asks[i]
           new == [File(i, s.run[i].copied) EXCEPT !.private = q.to \in q.secrets]
           dir == SubSeq(q.to, 1, Len(q.to) - 1)
       IN s' = IF \/ (dir # <<>> /\ dir \notin DOMAIN s.tree)
                  \/ q.to \in DOMAIN s.tree /\ (~Replaces(s, i) \/ s.tree[q.to].kind = "dir")
               THEN Done(s, i, FALSE)
               ELSE Done([s EXCEPT !.tree = Put(@, q.to, new)], i, TRUE)
-----------------------------------------------------------------------------
(* The control request (site_install, site_copy, install_async, app_install)  *)
Refusals == {"nosite", "nosource", "both", "off", "http", "file", "sha", "path", "root"}
NewRun == [pc |-> "new", ok |-> FALSE, answer |-> None, at |-> 0, created |-> {}, url |-> None, hops |-> 0, got |-> <<>>,
           ino |-> None, judged |-> <<>>, read |-> 0, moved |-> FALSE, replaces |-> FALSE, copied |-> 0,
           w |-> [entries |-> 0, long |-> <<>>, pax |-> <<>>, top |-> None, single |-> FALSE, files |-> 0, bytes |-> 0]]

Init ==
    /\ setting \in Settings
    /\ s = [tree |-> setting.tree, dir |-> setting.stored, content |-> setting.contents, busy |-> FALSE,
            shared |-> {}, crowd |-> {}, killed |-> {}, wrote |-> {},
            run |-> [i \in DOMAIN Asks |-> NewRun],
            up |-> [c \in Uploads |-> [pc |-> "new", ino |-> None, at |-> 0, answer |-> None]]]

\* The checks on worker 0.
site_install(i) ==
    /\ s.run[i].pc = "new"
    /\ s' = IF Refusals \cap Asks[i].facts # {} THEN [s EXCEPT !.run[i].pc = "answered", !.run[i].answer = "4xx"]
            ELSE [s EXCEPT !.run[i].pc = "asked"]

Running(k) == {i \in DOMAIN Asks : k.run[i].pc \notin {"new", "asked", "result", "env", "answered"}}

\* app_install, or the same in the server: the account is judged, the upload opened.
app_install(k, i) ==
    LET n == Asks[i].upload
    IN IF (setting.helper /\ "account" \in Asks[i].facts) \/ (n # None /\ Final(n) \notin DOMAIN k.dir) THEN Done(k, i, FALSE)
       ELSE [k EXCEPT !.run[i].pc = "walk", !.run[i].url = Asks[i].url, !.run[i].ino = IF n = None THEN None ELSE k.dir[Final(n)]]

\* A thread takes the request to the helper, which has one at a time, or runs it itself.
install_async(i) ==
    /\ s.run[i].pc = "asked" /\ (setting.helper => ~s.busy)
    /\ LET k == [s EXCEPT !.busy = TRUE, !.crowd = IF Running(s) # {} THEN @ \cup Running(s) \cup {i} ELSE @]
       IN s' = IF i \in Copies THEN [k EXCEPT !.run[i].pc = "look"] ELSE app_install(k, i)

\* run_as_account: a child past its limit is killed where it is.
Killed(i) ==
    /\ Fault("killed") /\ setting.helper /\ s.run[i].pc \in {"fetch", "extract", "unwrap", "secure"}
    /\ s' = [Done(s, i, FALSE) EXCEPT !.killed = @ \cup {i}]

\* The tree as the account sees it: an application that came without its secret.
app_facts(i) == i \in Installs /\ Target(i) = <<>> /\ "secretless" \in Asks[i].facts
new_errors(i) == "invalid" \in Asks[i].facts

\* The answer, back on worker 0: what was written is held to the configuration's validation,
\* and a whole application without a secret of its own is given one first.
Answered(i) ==
    /\ s.run[i].pc = "result"
    /\ LET q == Asks[i]
           says(x) == [s EXCEPT !.run[i].pc = "answered", !.run[i].answer = x]
       IN s' = IF ~s.run[i].ok THEN says("409") ELSE IF q.dry THEN says("200")
               ELSE IF new_errors(i) THEN says("written")
               ELSE IF app_facts(i) THEN [s EXCEPT !.run[i].pc = "env"] ELSE says("201")

\* Whatever env_async answers, the install is done: the answer carries a warning.
EnvWritten(i) == s.run[i].pc = "env" /\ s' = [s EXCEPT !.run[i].pc = "answered", !.run[i].answer = "201"]

\* The site's own programs, as the same account.
SiteWrites(p) ==
    /\ p \in setting.writes /\ p \notin DOMAIN s.tree /\ p \notin s.wrote
    /\ \A n \in 1 .. Len(p) - 1 : SubSeq(p, 1, n) \in DOMAIN s.tree
    /\ s' = [s EXCEPT !.tree = Put(@, p, File("site", 1)), !.wrote = @ \cup {p}]

Step(i) ==
    \/ site_install(i) \/ install_async(i) \/ Walk(i) \/ Mkdir(i) \/ Look(i) \/ Fetch(i) \/ Digest(i) \/ Extract(i)
    \/ Unwrap(i) \/ Secure(i) \/ check_requirements(i) \/ CopyLook(i) \/ CopyPlace(i) \/ Killed(i) \/ Answered(i) \/ EnvWritten(i)

Next ==
    /\ UNCHANGED setting
    /\ \/ \E i \in DOMAIN Asks : Step(i)
       \/ \E c \in Uploads : upload_receive(c) \/ Chunk(c) \/ Aborted(c) \/ BodyEnds(c)
       \/ \E n \in {Name(c) : c \in Uploads} : upload_delete(n)
       \/ \E p \in setting.writes : SiteWrites(p)

Spec == Init /\ [][Next]_vars
-----------------------------------------------------------------------------
(* What an install promises                                                   *)
Over(i) == s.run[i].pc \in {"result", "env", "answered"} /\ s.run[i].answer # "4xx"
Alone(i) == i \notin s.crowd

\* What an archive's entries make, by the format's rules alone: names, then parents.
Names(a) ==
    LET given(n) == {m \in 1 .. n - 1 : a.entries[m].kind = "x" /\ \A o \in m + 1 .. n - 1 : a.entries[o].kind \in {"L", "x", "g"}}
        long(n) == {m \in 1 .. n - 1 : a.entries[m].kind = "L" /\ \A o \in m + 1 .. n - 1 : a.entries[o].kind \in {"L", "x", "g"}}
        last(S) == CHOOSE m \in S : \A o \in S : o <= m
        path(n) == IF given(n) # {} THEN a.entries[last(given(n))].path
                   ELSE IF long(n) # {} THEN a.entries[last(long(n))].path ELSE a.entries[n].path
    IN [n \in {m \in 1 .. Len(a.entries) : a.entries[m].kind \in {"file", "dir"}} |-> path(n)]

Made(a) == {Names(a)[n] : n \in DOMAIN Names(a)}
Files(a) == {Names(a)[n] : n \in {m \in DOMAIN Names(a) : a.entries[m].kind = "file"}}
\* One directory holding everything, which is taken away when it holds a file and nothing of its own name.
Wrapped(a, strip) ==
    /\ strip # 0 /\ Files(a) # {}
    /\ \E t \in {p[1] : p \in Made(a)} : /\ \A p \in Made(a) : p[1] = t
                                         /\ \A p \in Files(a) : Len(p) > 1
                                         /\ \A p \in Made(a) : Len(p) > 1 => p[2] # t
Expected(i) ==
    LET a == sniff(s.run[i].judged)
    IN {Target(i) \o (IF Wrapped(a, Asks[i].strip) THEN Tail(p) ELSE p) : p \in Files(a)}

\* An install (services/install.hpp: "the directory is either empty or complete") that nothing
\* else ran into has put every file of the archive in its place, credential files private, or has
\* left nothing of its own but directories that hold what others put there.
EmptyOrComplete ==
    \A i \in Installs : Over(i) /\ Alone(i) /\ ~Asks[i].dry /\ i \notin s.killed =>
        IF s.run[i].ok
        THEN \A p \in Expected(i) : p \notin s.wrote => p \in DOMAIN s.tree /\ s.tree[p].kind = "file"
                                    /\ (p \in Asks[i].secrets => s.tree[p].private)
        ELSE \A p \in DOMAIN s.tree : s.tree[p].by = i => \E q \in Holds(s.tree, p) : s.tree[q].by # i

\* An archive taken for good is whole: every entry is one the formats allow, the data of each
\* file held, and the digest that was asked for is that of the bytes the files came from.
TakenWhole ==
    \A i \in Installs : Over(i) /\ s.run[i].ok /\ ~Asks[i].dry /\ s.run[i].judged = Archive(s, i) =>
        LET a == sniff(s.run[i].judged)
        IN /\ Asks[i].sha # None => s.run[i].judged = setting.digests[Asks[i].sha]
           /\ a.ends \in {"marker", "boundary"} /\ Len(a.entries) = s.run[i].read
           /\ \A n \in 1 .. Len(a.entries) : Readable(a.format, a.entries[n]) /\ DataHolds(a.entries[n])

\* No install or copy touches what another put outside its own target, and none replaces a
\* file it was not told to (DirectorySink::begin_file, copy_file): only the move up of a top
\* directory's children may, and a failure, which empties the target.
OnlyItsOwn ==
    \A i \in DOMAIN Asks : Step(i) =>
        \A p \in DOMAIN s.tree : s.tree[p].by # i /\ (p \notin DOMAIN s'.tree \/ s'.tree[p] # s.tree[p]) =>
            \/ i \in Installs /\ Under(Target(i), p) /\ (p \in Asks[i].secrets \/ s'.run[i].pc = "result" \/ s.run[i].pc = "unwrap")
            \/ i \in Copies /\ p = Asks[i].to /\ Asks[i].overwrite

\* An upload answered with 201 is stored byte for byte unless another of its name ran with it,
\* and a partial transfer leaves nothing once nobody writes.
UploadsStored ==
    /\ \A c \in Uploads : s.up[c].pc = "body" /\ s'.up[c].answer = "201" /\ c \notin s.shared =>
           /\ Final(Name(c)) \in DOMAIN s'.dir
           /\ s'.content[s'.dir[Final(Name(c))]] = setting.sends[c].data
    /\ (\A c \in Uploads : s'.up[c].pc # "body") => \A n \in DOMAIN s'.dir : n[1] = "final"

\* Every request is answered and every upload ends, however the steps fall.
AllAnswered ==
    ~ENABLED Next => /\ \A i \in DOMAIN Asks : s.run[i].pc = "answered"
                     /\ \A c \in Uploads : s.up[c].pc = "ended"

InstallStep == EmptyOrComplete' /\ TakenWhole' /\ AllAnswered' /\ OnlyItsOwn /\ UploadsStored
=============================================================================
