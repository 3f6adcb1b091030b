----------------------------- MODULE MCControl -----------------------------
(* Instances for TLC of Approvers, Approvals and what the control plane and   *)
(* its helper do: a behaviour is of one of them, the setting says of which.   *)
EXTENDS Approvers, Integers, FiniteSets, Sequences, TLC

CONSTANTS
    alice,
    p1, p2,         \* requests to approve
    MaxChanges      \* bound: changes queued

VARIABLES change, queued, post, runs, handed, s, setting

\* Two approvals open at the same time over batches of up to MaxChanges changes.
C == INSTANCE Approvals WITH Posts <- {p1, p2}, MaxIds <- MaxChanges, MaxWaiting <- MaxChanges, Ttl <- 1, MaxTime <- 2
-----------------------------------------------------------------------------
\* A site's directory, its account's state on another filesystem, its log.
Dir(far) == [dir |-> TRUE, far |-> far]
File(far) == [dir |-> FALSE, far |-> far]
Deleted ==
    [part |-> "trash", pieces |-> <<Dir(FALSE), Dir(TRUE), File(FALSE)>>, entries |-> 2, again |-> {1, 3},
     faults |-> {"move", "unlink", "manifest", "file", "remove", "service"}, ops |-> [d |-> "delete", r |-> "restore"],
     bare |-> FALSE, calm |-> TRUE, expires |-> FALSE]

\* A log that is copied; a site created again under the name and dropped; two deletes;
\* entries removed by hand or by their age, and the host stopping.
CopiedLog == [Deleted EXCEPT !.pieces = <<Dir(FALSE), File(TRUE)>>, !.faults = {"unlink", "crash"}]
Again == [Deleted EXCEPT !.ops = [d |-> "delete", c |-> "create", r |-> "restore", x |-> "drop"], !.faults = {"move", "manifest"}]
Twice == [Again EXCEPT !.ops = [d |-> "delete", c |-> "create", r |-> "restore", e |-> "delete"], !.faults = {"move"},
                       !.expires = TRUE]
Purged == [Deleted EXCEPT !.ops = [d |-> "delete", r |-> "restore", p |-> "purge"], !.expires = TRUE,
                          !.faults = {"crash", "move", "manifest"}]
AllTrash == {Deleted, CopiedLog, Again, [Again EXCEPT !.bare = TRUE], Twice, Purged}

T == INSTANCE Trash WITH Settings <- AllTrash
-----------------------------------------------------------------------------
\* A site's own pair renewed by another tool; a site edited while its order runs; orders
\* that fail; two sites, one of them new; nonces refused and the process restarted.
Tool ==
    [part |-> "certs", sites |-> {"b"}, automatic |-> {}, keys |-> 3, end |-> 2, faults |-> {"tool", "crash"},
     nonces |-> TRUE, polls |-> 1, start |-> [b |-> 2], reloads |-> 1, renews |-> 1]
Edited == [Tool EXCEPT !.sites = {"a"}, !.automatic = {"a"}, !.faults = {}, !.start = [a |-> 1], !.end = 1]
Failing == [Edited EXCEPT !.faults = {"refused", "disk"}, !.reloads = 0, !.end = 4]
TwoSites == [Tool EXCEPT !.sites = {"a", "b"}, !.automatic = {"a", "b"}, !.faults = {"refused"}, !.keys = 4, !.end = 1,
                         !.start = [a |-> 1, b |-> 0]]
Nonces == [Failing EXCEPT !.faults = {"nonce", "network", "crash"}, !.polls = 2, !.nonces = FALSE, !.end = 1]
AllCertificates == {Tool, Edited, Failing, TwoSites, Nonces}

E == INSTANCE Certificates WITH Settings <- AllCertificates
-----------------------------------------------------------------------------
\* Two tasks and the scheduler's minute; reads beside a task, one of them slow; no reader and
\* helpers that die; no helper at all; a dry run and its run, with what can be missing.
Op(kind) == [kind |-> kind, site |-> "x"]
Crowd ==
    [part |-> "tasks", ops |-> [a |-> Op("task"), b |-> Op("task"), c |-> Op("scheduled")], helper |-> TRUE, reader |-> TRUE,
     faults |-> {}, facts |-> {}, children |-> {"group", "apart"}, loose |-> {}, codes |-> {0}]
Reads == [Crowd EXCEPT !.ops = [a |-> Op("task"), r |-> Op("read"), t |-> Op("read")], !.faults = {"slow"}, !.children = {}]
NoReader == [Reads EXCEPT !.ops = [a |-> Op("task"), r |-> Op("read"), p |-> Op("peek")], !.reader = FALSE, !.faults = {"dies"}]
NoHelper == [Crowd EXCEPT !.helper = FALSE, !.faults = {"wedged"}, !.children = {"group"}]
DryFirst(f) ==
    [Crowd EXCEPT !.ops = [d |-> Op("dry"), a |-> Op("task")], !.facts = f, !.faults = {"wedged"}, !.loose = {"own", "other"},
                  !.codes = {0, 1}]
AllTasks == {Crowd, Reads, NoReader, NoHelper} \cup {DryFirst(f) : f \in {{}, {"needs"}, {"home"}, {"runtime", "needs_env"}}}

K == INSTANCE Tasks WITH Settings <- AllTasks
-----------------------------------------------------------------------------
Folder == [kind |-> "dir", by |-> "site", data |-> 0, private |-> FALSE]
Ent(kind, path) == [kind |-> kind, path |-> path, size |-> 1, wrong |-> {}]
Bad(kind, path, what) == [Ent(kind, path) EXCEPT !.wrong = {what}]
Arc(format, entries, ends) == [format |-> format, entries |-> entries, ends |-> ends]
Application == Arc("tar", <<Ent("root", <<>>), Ent("dir", <<"t">>), Ent("file", <<"t", "f">>), Ent("file", <<"t", "d", "g">>)>>, "marker")
Archives ==
    {Application,
     [Application EXCEPT !.format = "gzip", !.ends = "boundary"], [Application EXCEPT !.ends = "boundary"], [Application EXCEPT !.ends = "inside"],
     Arc("zip", <<Ent("dir", <<"t">>), Ent("file", <<"t", "t">>)>>, "marker"),
     Arc("zip", <<Ent("file", <<"t", "f">>), Bad("file", <<"g">>, "crc")>>, "marker"),
     Arc("zip", <<Ent("file", <<"t">>), Ent("file", <<"t", "f">>)>>, "marker"),
     Arc("zip", <<Ent("file", <<"f">>), Ent("file", <<"f">>)>>, "marker"),
     Arc("zip", <<Ent("file", <<"f">>), Bad("file", <<"g">>, "encrypted")>>, "marker"),
     Arc("tar", <<Ent("L", <<"l", "f">>), Ent("file", <<"f">>), Ent("x", <<"l", "s">>), Ent("L", <<"m">>), Ent("g", <<"n">>), Ent("file", <<"g">>)>>, "marker"),
     Arc("tar", <<Ent("file", <<"t", "f">>), Ent("link", <<"t", "g">>)>>, "marker"),
     Arc("tar", <<Ent("file", <<"f">>), Bad("file", <<"g">>, "path")>>, "marker"),
     Arc("tar", <<Ent("file", <<"a">>), Ent("file", <<"b">>), Ent("file", <<"c">>), Ent("dir", <<"d">>), Ent("dir", <<"e">>)>>, "marker"),
     Arc("tar", <<[Ent("file", <<"a">>) EXCEPT !.size = 2], [Ent("file", <<"b">>) EXCEPT !.size = 2]>>, "marker"),
     Arc("tar", <<Ent("dir", <<"a", "b", "c", "d">>)>>, "marker"),
     Arc("unknown", <<>>, "marker")}
Ask == [kind |-> "install", sub |-> <<>>, create |-> FALSE, dry |-> FALSE, url |-> "none", upload |-> "u", sha |-> "none", strip |-> -1,
        secrets |-> {<<"f">>, <<"s">>}, facts |-> {}, from |-> <<>>, to |-> <<>>, overwrite |-> FALSE]
StoredApp == [part |-> "install", helper |-> TRUE, asks |-> [i1 |-> Ask], sends |-> <<>>, faults |-> {}, tree |-> <<>>, stored |-> (<<"final", "u">> :> "n"),
           contents |-> (("n" :> <<"z">>) @@ ("c1" :> <<>>) @@ ("c2" :> <<>>)), archives |-> (<<"z">> :> Application), digests |-> [d |-> <<"z">>],
           web |-> <<>>, writes |-> {}]
Formats == {[StoredApp EXCEPT !.archives = (<<"z">> :> a), !.asks.i1.strip = n, !.writes = w] : a \in Archives, n \in {-1, 0, 1}, w \in {{}, {<<"t">>, <<"f">>, <<"g">>}}}
\* A plugin's directory made by the walk, while the site writes there too.
Plugin == [Ask EXCEPT !.sub = <<"p", "q">>, !.create = TRUE, !.secrets = {<<"p", "q", "f">>}]
InstallFacts == {{}, {"path"}, {"account"}, {"invalid"}, {"secretless"}, {"php"}, {"php", "ignore"}}
Walks == {[StoredApp EXCEPT !.asks.i1 = [Plugin EXCEPT !.create = c, !.dry = d, !.sha = x], !.tree = t, !.writes = {<<"p", "o">>, <<"p">>, <<"p", "q", "g">>}, !.faults = fl,
                         !.digests = [d |-> <<"z">>, e |-> <<"y">>]]
          : c, d \in BOOLEAN, x \in {"none", "d", "e"}, t \in {<<>>, (<<"p">> :> Folder)}, fl \in {{"full"}, {"exposed"}}}
Answers == {[StoredApp EXCEPT !.asks.i1.facts = f, !.asks.i1.dry = d] : f \in InstallFacts, d \in BOOLEAN}
\* The web: an address that redirects, and what is behind it.
Page == [facts |-> {}, status |-> 200, location |-> "none", framing |-> "length", length |-> 1, pieces |-> <<"z">>]
To(a) == [Page EXCEPT !.status = 302, !.location = a]
Downloads == {[StoredApp EXCEPT !.asks.i1 = [Ask EXCEPT !.url = "a", !.upload = "none"], !.web = [a |-> x, b |-> y, c |-> Page], !.writes = {<<"g">>}]
              : x \in {Page, To("b"), To("none"), To("plain")},
                y \in {To("c"), Page, [Page EXCEPT !.length = 2], [Page EXCEPT !.length = 4], [Page EXCEPT !.status = 404], [Page EXCEPT !.facts = {"private"}],
                       [Page EXCEPT !.facts = {"late"}], [Page EXCEPT !.framing = "close", !.pieces = <<"y">>], [Page EXCEPT !.framing = "chunked", !.length = 2]}}
\* Two installs of the same directory: the helper's one after the other, the server's own together.
Two == {[StoredApp EXCEPT !.asks = [i1 |-> [Ask EXCEPT !.sub = p, !.create = TRUE], i2 |-> [Plugin EXCEPT !.sha = x]], !.helper = h,
                       !.faults = {"killed"}, !.digests = [d |-> <<"z">>, e |-> <<"y">>], !.tree = (<<"p">> :> Folder)]
        : h \in BOOLEAN, x \in {"none", "e"}, p \in {<<"p", "q">>, <<"p">>}}
\* Uploads of one name, one of them installed.
Sent(c) == [name |-> "u", data |-> <<c, "end">>, facts |-> {}]
Sends == {[StoredApp EXCEPT !.sends = [c1 |-> Sent("x"), c2 |-> Sent("y")], !.faults = f, !.archives = ((<<"z">> :> Application) @@ (<<"x", "end">> :> Application)),
                         !.digests = [d |-> <<"x", "end">>], !.asks.i1.sha = x, !.sends.c2.facts = g]
          : f \in {{"abort"}, {"disk"}, {"delete"}}, x \in {"none", "d"}, g \in {{}, {"name"}}}
\* A template of the application copied into place while the site makes the same file.
Copied == {[StoredApp EXCEPT !.asks = [i1 |-> [Ask EXCEPT !.kind = "copy", !.from = <<"f">>, !.to = <<"p", "f">>, !.overwrite = o, !.secrets = {<<"p", "f">>}, !.dry = d]],
                          !.tree = ((<<"p">> :> Folder) @@ (<<"f">> :> [Folder EXCEPT !.kind = "file", !.data = 2])), !.writes = {<<"p", "f">>}]
           : o, d \in BOOLEAN}
AllInstall == Formats \cup Walks \cup Answers \cup Downloads \cup Two \cup Sends \cup Copied

I == INSTANCE Install WITH Settings <- AllInstall
-----------------------------------------------------------------------------
Fl(n) == [kind |-> "file", ino |-> n, own |-> TRUE, in |-> <<>>]
FNone == [kind |-> "none", ino |-> 0, own |-> TRUE, in |-> <<>>]
Dr(in) == [FNone EXCEPT !.kind = "dir", !.in = in]
Tx(x) == [text |-> x, mode |-> "dir"]
Ver(id, p, n) == [id |-> id, path |-> p, node |-> Fl(n), meta |-> TRUE, aged |-> FALSE]
FAsk(act, p) == [act |-> act, path |-> p, to |-> <<"b">>, overwrite |-> TRUE, recursive |-> TRUE, parents |-> TRUE, dry |-> FALSE,
    text |-> "new", edits |-> [v0 |-> "v1"], sha |-> "none", after |-> 0, version |-> 1, approved |-> FALSE, facts |-> {}]
FBase == [part |-> "files", asks |-> <<>>, faults |-> {}, versions |-> 1, helper |-> TRUE, secrets |-> {},
    tree |-> [n \in {"a", "b", "d"} |-> CASE n = "a" -> Fl(1) [] n = "b" -> Fl(2) [] n = "d" -> Dr(<<Fl(3)>>)],
    data |-> <<Tx("v0"), Tx("v0"), Tx("v0"), Tx("old")>>, hist |-> <<Ver(1, <<"a">>, 4)>>, site |-> {}]
PA == <<"a">>
PB == <<"b">>
PD == <<"d">>
PDF == <<"d", "f">>
SiteDoes(how, p) == [how |-> how, path |-> p]
FEach == {[FBase EXCEPT !.asks = <<a>>, !.faults = f, !.versions = v] :
    a \in {FAsk("write", PA), FAsk("edit", PDF), FAsk("move", PA), FAsk("delete", PD), FAsk("restore", PA), FAsk("list", PD), FAsk("history", PA), FAsk("read", PA),
           [FAsk("write", PA) EXCEPT !.dry = TRUE], [FAsk("write", PA) EXCEPT !.overwrite = FALSE], [FAsk("write", PA) EXCEPT !.text = "v0"],
           [FAsk("write", PA) EXCEPT !.sha = "absent"], [FAsk("write", PA) EXCEPT !.sha = "v0"], [FAsk("edit", PA) EXCEPT !.edits = [x |-> "y"]],
           [FAsk("write", PA) EXCEPT !.facts = {"path"}], FAsk("write", PD), [FAsk("delete", PD) EXCEPT !.recursive = FALSE],
           [FAsk("delete", PA) EXCEPT !.sha = "v1"], [FAsk("delete", PA) EXCEPT !.path = <<"a", "f">>],
           [FAsk("restore", PA) EXCEPT !.dry = TRUE], [FAsk("restore", PA) EXCEPT !.overwrite = FALSE], [FAsk("restore", PB) EXCEPT !.path = PB],
           [FAsk("move", PA) EXCEPT !.to = PD], [FAsk("move", PA) EXCEPT !.overwrite = FALSE], [FAsk("move", PD) EXCEPT !.to = PA]},
    f \in {{}, {"killed"}, {"history", "full"}, {"meta"}, {"invalid"}}, v \in {0, 1}}
FDirs == {[FBase EXCEPT !.asks = <<a>>, !.faults = f, !.tree = [@ EXCEPT !["d"] = d]] :
    a \in {FAsk("mkdir", PDF), FAsk("mkdir", PD), [FAsk("mkdir", PDF) EXCEPT !.parents = FALSE], [FAsk("mkdir", PDF) EXCEPT !.dry = TRUE], FAsk("write", PDF),
           [FAsk("move", PA) EXCEPT !.to = PDF], FAsk("edit", PDF), FAsk("restore", PD), [FAsk("read", PDF) EXCEPT !.dry = TRUE], FAsk("read", PD),
           [FAsk("mkdir", PD) EXCEPT !.dry = TRUE], FAsk("delete", PDF), FAsk("list", PDF)},
    d \in {FNone, Dr(<<>>), Fl(3), [Fl(3) EXCEPT !.own = FALSE], [Dr(<<Fl(3)>>) EXCEPT !.own = FALSE], [FNone EXCEPT !.kind = "link"], Dr(<<[Fl(3) EXCEPT !.own = FALSE]>>)}, f \in {{}, {"full"}}}
FPairs == {[FBase EXCEPT !.asks = <<a, b>>, !.site = {w}, !.faults = {"days"}] :
    a \in {FAsk("write", PA), FAsk("delete", PA), [FAsk("move", PB) EXCEPT !.to = PA]},
    b \in {FAsk("restore", PA), [FAsk("restore", PA) EXCEPT !.version = 2], [FAsk("edit", PA) EXCEPT !.edits = [new |-> "v2"]]},
    w \in {SiteDoes("in place", PA), SiteDoes("replace", PA), SiteDoes("remove", PA)}}
FReads == {[FBase EXCEPT !.asks = <<FAsk("read", PA), [FAsk(act, PA) EXCEPT !.sha = "read", !.after = 1]>>, !.site = {w}] :
    act \in {"write", "delete"}, w \in {SiteDoes("in place", PA), SiteDoes("replace", PA)}}
FKeys == {[FBase EXCEPT !.asks = <<[FAsk("read", PA) EXCEPT !.approved = ap], FAsk("write", PA)>>, !.data = <<Tx(x), Tx("v0"), Tx("v0"), Tx("old")>>, !.secrets = se] :
    ap \in BOOLEAN, x \in {"key", "huge", "binary"}, se \in {{}, {PA}}}
FThread(a, b) == [FBase EXCEPT !.asks = <<a, b>>, !.helper = FALSE, !.faults = {"days"}]
FThreads == {FThread(FAsk("write", PA), FAsk("edit", PDF)), FThread(FAsk("delete", PA), FAsk("write", PDF)), FThread(FAsk("write", PA), FAsk("write", PB)),
            FThread(FAsk("restore", PA), FAsk("delete", PDF))}
AllFiles == FEach \cup FDirs \cup FPairs \cup FReads \cup FKeys \cup FThreads

F == INSTANCE Files WITH Settings <- AllFiles
-----------------------------------------------------------------------------
CSite == [name |-> "x", names |-> {"x"}, catch |-> FALSE, listen |-> {"a"}, http |-> {}, off |-> FALSE, tls |-> FALSE, protocols |-> "1",
         h2c |-> FALSE, log |-> "", keep |-> FALSE, user |-> "", socket |-> "", pool |-> "", root |-> "r", cert |-> "", upstream |-> "", bounds |-> 0]
CNamed(x, n) == [x EXCEPT !.name = n, !.names = {n}]
CText(kind, sites) == [kind |-> kind, sites |-> sites, tls |-> {"t"}, plain |-> {"p"}, log |-> "own"]
CBase == [part |-> "config", files |-> <<"f", "g">>, domains |-> <<"x", "y">>, adds |-> {"none", "good", "bad"}, extended |-> {}, breaks |-> {}, lose |-> FALSE,
         disk |-> [f |-> "x", g |-> "y", main |-> "m"], may |-> [f |-> {}, g |-> {}],
         texts |-> [m |-> CText("good", <<>>), x |-> CText("good", <<CSite>>), y |-> CText("good", <<CNamed(CSite, "y")>>)]]
\* Names contested between two files, texts that break, the record lost.
CNames == [CBase EXCEPT !.texts = @ @@ [xy |-> CText("good", <<CSite, CNamed(CSite, "y")>>), tx |-> CText("torn", <<CSite>>), bx |-> CText("bad", <<CSite>>)],
            !.may = [f |-> {"x", "y", "tx", "none"}, g |-> {"y", "x", "xy", "bx"}], !.lose = TRUE]

\* A hosting rule, a log and a certificate break and are mended under two edited files.
CTls == [CSite EXCEPT !.tls = TRUE, !.listen = {"s"}, !.http = {"a"}, !.cert = "c", !.log = "l", !.user = "u"]
CHost == [CBase EXCEPT !.texts = [m |-> CText("good", <<>>), x |-> CText("good", <<CTls>>), y |-> CText("good", <<CNamed(CSite, "y")>>),
                                x2 |-> CText("good", <<[CTls EXCEPT !.root = "q", !.cert = "d", !.log = "k"]>>),
                                tx |-> CText("torn", <<CTls>>)],
            !.may = [f |-> {"x", "x2", "tx"}, g |-> {"y", "x"}], !.breaks = {"r", "l", "c"}]
CHost2 == [CHost EXCEPT !.breaks = {"q", "k", "d"}, !.may = [f |-> {"x", "x2"}, g |-> {"y"}]]
\* The main file's own sites and addresses, sites that name no address, root's additions.
CDefault == [CSite EXCEPT !.listen = {}, !.tls = TRUE, !.cert = "c"]
CMainTexts == [m |-> CText("good", <<[CNamed(CSite, "y") EXCEPT !.listen = {"p"}, !.log = "l"]>>),
              n |-> [CText("good", <<[CSite EXCEPT !.listen = {"w"}]>>) EXCEPT !.tls = {"v"}, !.plain = {"w"}],
              e |-> CText("bad", <<>>), x |-> CText("good", <<CDefault>>), bx |-> CText("bad", <<CDefault>>),
              z |-> CText("good", <<[CNamed(CDefault, "z") EXCEPT !.off = TRUE]>>)]
CMains == [CBase EXCEPT !.texts = CMainTexts, !.domains = <<"x", "y", "z">>, !.disk = [f |-> "x", g |-> "none", main |-> "m"], !.extended = {"x"},
             !.may = [main |-> {"m", "n", "e"}, f |-> {"x"}, g |-> {"none", "x", "bx"}]]
\* Three files at odds over protocols, TLS, a log, a socket, a pool and an upstream's bounds.
COdds == [CBase EXCEPT !.files = <<"f", "g", "h">>, !.disk = [f |-> "p1", g |-> "p2", h |-> "p3", main |-> "m"],
            !.domains = <<"x", "y", "z">>,
            !.texts = [m |-> CText("good", <<>>), p1 |-> CText("good", <<[CSite EXCEPT !.user = "u", !.socket = "k", !.log = "l", !.upstream = "b"]>>),
                       p2 |-> CText("good", <<[CNamed(CSite, "y") EXCEPT !.user = "v", !.socket = "k", !.root = "q", !.upstream = "b"]>>),
                       p3 |-> CText("good", <<[CNamed(CSite, "z") EXCEPT !.log = "l", !.keep = TRUE, !.user = "v", !.root = "r"]>>),
                       q1 |-> CText("good", <<[CSite EXCEPT !.h2c = TRUE, !.pool = "o", !.user = "u"]>>),
                       q2 |-> CText("good", <<[CNamed(CSite, "y") EXCEPT !.tls = TRUE, !.cert = "c", !.user = "u", !.pool = "o"]>>),
                       q3 |-> CText("good", <<[CNamed(CSite, "z") EXCEPT !.upstream = "b", !.bounds = 1, !.catch = TRUE]>>)],
            !.may = [f |-> {"p1", "q1"}, g |-> {"p2", "q2", "none"}, h |-> {"p3", "q3"}], !.lose = TRUE]
\* The main file's log, an address that cannot be bound, a record that cannot be written, names that cannot be read.
CFacts == [CMains EXCEPT !.extended = {}, !.texts = @ @@ [gx |-> CText("garbled", <<CDefault>>)],
             !.may = [main |-> {"m", "n"}], !.breaks = {"l", "w"}]
CUnread == [CFacts EXCEPT !.may = [f |-> {"gx"}, g |-> {"x", "z"}], !.breaks = {"record"}]
AllConfigLoad == {CNames, CHost, CHost2, CMains, COdds, CFacts, CUnread}

L == INSTANCE ConfigLoad WITH Settings <- AllConfigLoad
-----------------------------------------------------------------------------
PNo == [private |-> {}, entry_points |-> {}, cache |-> {}, front |-> <<>>, refuse |-> {}, restricted |-> {},
        admin |-> [given |-> FALSE, login |-> FALSE]]
PAdmin == [PNo EXCEPT !.admin = [given |-> TRUE, login |-> TRUE]]
PRule(path, exact) == [path |-> path, exact |-> exact, any |-> FALSE]
PSet(app, body, hand, paths) ==
    [part |-> "presets", app |-> app, body |-> body, hand |-> hand, rooted |-> TRUE,
     paths |-> paths \cup {<<"">>, <<"index.php">>, <<"index.php", "x">>, <<"x.php">>, <<"x.php", "x">>, <<"x.PHP">>, <<"x.php.">>,
                           <<"x.phtml">>, <<"x.bak">>, <<"x.png">>, <<"x">>, <<"d", "">>, <<"d">>, <<"d", "x.php">>},
     files |-> {<<"index.php">>, <<"index.html">>, <<"d", "index.php">>, <<"wp-admin", "index.php">>, <<"uploads", "index.php">>,
                <<"user", "index.php">>, <<"private", "index.html">>, <<"assets", "index.html">>,
                <<"install.php">>, <<"wp-content", "db.php">>}]
PWordpress == {<<"wp-config.php">>, <<"wp-config.txt">>, <<"wp-config.php~">>, <<".wp-config.php.swp">>, <<"wp-config">>, <<"#wp-config">>, <<"wp-content", "db.txt">>,
    <<"wp-config.php", "x">>, <<"wp-content", "db.php", "x">>, <<"uploads", "">>, <<"uploads", "x.php">>, <<"uploads", "x.php", "x">>,
    <<"uploads", "x.phtml">>, <<"uploads", "docs", "x.php">>, <<"uploads", "docs", "x.bak">>, <<"uploads", "docs", "x.png">>,
    <<"wp-admin", "">>, <<"wp-admin">>, <<"wp-admin", "x.php">>, <<"wp-admin", "includes", "x.php">>, <<"wp-admin", "includes">>,
    <<"wp-admin", "admin-ajax.php">>, <<"wp-admin", "css", "x.png">>, <<"wp-login.php">>, <<"wp-login.php", "x">>}
PDrupal == {<<"autoload.php">>, <<"core", "install.php">>, <<"core", "install.php", "x">>, <<"core", "modules", "statistics.php">>,
    <<"core", "modules", "x.php">>, <<"vendor", "x.php">>, <<"files", "x.png">>, <<"files", "x.php">>, <<"x.module">>,
    <<"assets", "x.module">>, <<"assets", "x.phtml">>, <<"assets", "x.png">>, <<"admin", "x">>, <<"sites", "x.yaml">>}
PGrav == {<<"user", "">>, <<"user", "x.yaml">>, <<"user", "x.png">>, <<"user", "accounts", "x.png">>, <<"user", "accounts", "x.yaml">>,
    <<"user", "accounts", "a", "x.yaml">>, <<"user", "themes", "x.yaml">>, <<"user", "themes", "x.png">>, <<"user", "themes", "x.php">>,
    <<"user", "config", "security.yaml">>, <<"logs", "x">>, <<"logs">>, <<"images", "x">>, <<"images", "x.php">>}
PRules == {<<"private", "">>, <<"private">>, <<"private", "x.php">>, <<"private", "x.png">>, <<"private", "x", "x.png">>, <<"assets", "">>, <<"assets", "x.php">>,
    <<"assets", "x.png">>, <<"assets", "x.bak">>, <<"install.php">>, <<"install.php", "x">>, <<"update.php">>}
PPrivate == [PNo EXCEPT !.private = {<<"private", "">>, <<"install.php">>}, !.cache = {<<"assets", "">>}]
PEntries == [PPrivate EXCEPT !.entry_points = {<<"index.php">>, <<"update.php">>}]
PFront == [PEntries EXCEPT !.front = <<"index.php">>]
PHand(path, how, kind, final) == [path |-> path, match |-> how, kind |-> kind, final |-> final]
AllPresets ==
    {PSet("wordpress", b, h, PWordpress) :
        b \in {PNo, PAdmin, [PNo EXCEPT !.restricted = {PRule(<<"wp-admin", "css">>, FALSE), PRule(<<"wp-admin">>, FALSE)}],
               [PAdmin EXCEPT !.restricted = {PRule(<<"">>, FALSE)}], [PNo EXCEPT !.restricted = {PRule(<<"index.php">>, TRUE)}],
               [PNo EXCEPT !.cache = {<<"uploads", "docs", "">>, <<"wp-content", "">>}], [PNo EXCEPT !.cache = {<<"wp-admin", "includes", "x", "">>}],
               [PAdmin EXCEPT !.restricted = {PRule(<<"wp-admin">>, FALSE)}]},
        h \in {{}, {PHand(<<"uploads", "x.php">>, "exact", "fastcgi", FALSE)}, {PHand(<<"uploads", "">>, "prefix", "static", FALSE)}}}
    \cup {PSet("wordpress", PNo, {PHand(<<"wp-admin", "includes", "x", "">>, "prefix", "static", TRUE)}, PWordpress)}
    \cup {PSet("drupal", b, {}, PDrupal) : b \in {PNo, PAdmin, [PNo EXCEPT !.cache = {<<"assets", "">>}],
                                                    [PNo EXCEPT !.entry_points = {<<"core", "modules", "x.php">>}]}}
    \cup {PSet("grav", b, {}, PGrav) :
             b \in {PNo, [PNo EXCEPT !.cache = {<<"user", "themes", "">>, <<"user", "accounts", "a", "">>}],
                    [PNo EXCEPT !.cache = {<<"logs", "x", "">>}]}}
    \cup {PSet(app, b, h, PRules) : app \in {"php", "laravel", "static"},
             b \in {PNo, PPrivate, PEntries, PFront, [PFront EXCEPT !.entry_points = {<<"update.php">>}],
                    [PPrivate EXCEPT !.entry_points = {<<"private", "x.php">>}], [PPrivate EXCEPT !.cache = {<<"private", "x", "">>}],
                    [PEntries EXCEPT !.refuse = {[dir |-> <<"d", "">>, endings |-> {".bak"}]}],
                    [PNo EXCEPT !.refuse = {[dir |-> <<>>, endings |-> {".php"}]}],
                    [PNo EXCEPT !.restricted = {PRule(<<"index.html">>, TRUE), PRule(<<"d">>, FALSE)}]},
             h \in {{}, {PHand(<<"assets", "">>, "prefix", "static", TRUE)}}}
    \cup {PSet(app, b, {}, {<<"storage", "x">>, <<"x.key">>, <<"static", "x.key">>, <<"static", "x.png">>, <<"media", "documents", "x">>,
                           <<"config", "master.key">>, <<"node_modules", "x">>, <<"private", "x">>}) :
             app \in {"proxy", "rails", "django", "node"}, b \in {PNo, [PNo EXCEPT !.private = {<<"private", "">>}], PPrivate}}

P == INSTANCE Presets WITH Settings <- AllPresets
-----------------------------------------------------------------------------
(* Sites: a php site, its HSTS over a few steps of the clock, the fields of    *)
(* its managed line, its addresses, and a new site on a host that is not ready. *)
Body(given, nulls) == [given |-> given, nulls |-> nulls, create |-> FALSE, dry |-> FALSE]
SiteHost ==
    [part |-> "sites", start |-> <<>>, bodies |-> {}, requests |-> 2, end |-> 0, faults |-> {}, fields |-> {}, field |-> -1,
     held |-> 0, accounts |-> {"u"}, dir |-> "u", groups |-> {}, certificates |-> {"pair"}, proxies |-> {"p"}, ceiling |-> 2,
     acme |-> TRUE, strict_users |-> FALSE, explicit |-> TRUE, privileged |-> FALSE, helper |-> TRUE,
     included |-> TRUE, users |-> TRUE]
SiteSpec ==
    [domain |-> "d", aliases |-> {"a"}, https |-> "auto", user |-> "u", user_decided |-> TRUE, app |-> "php", root |-> "r",
     access_log |-> "own"]
NewProxy == [domain |-> "d", https |-> [mode |-> "none"], app |-> "proxy", upstream |-> "h", no_user |-> TRUE]
Hsts(age, sub) == Body([hsts |-> [age |-> age, sub |-> sub]], {})
HstsBodies == {Hsts("none", FALSE), Hsts("application", FALSE), Hsts("2", FALSE), Hsts("0", FALSE)}
AllSites == {
    \* what browsers hold, the site's own and the application's
    [SiteHost EXCEPT !.start = SiteSpec, !.requests = 3, !.end = 3, !.bodies = HstsBodies, !.field = 1],
    [SiteHost EXCEPT !.start = SiteSpec, !.requests = 2, !.end = 2, !.bodies = {Hsts("none", FALSE), Hsts("application", FALSE), Hsts("1s", TRUE)},
                     !.field = 2, !.fields = {-1}, !.faults = {"probe", "reload"}],
    [SiteHost EXCEPT !.start = SiteSpec @@ [hsts |-> "2", hsts_decided |-> TRUE], !.requests = 3, !.end = 3,
                     !.bodies = {Hsts("none", FALSE), Hsts("1", FALSE), Body([https |-> [mode |-> "none"]], {}), Body([https |-> [mode |-> "auto"]], {}),
                                 Body([redirect_http |-> FALSE], {})}],
    [SiteHost EXCEPT !.start = SiteSpec @@ [hsts_unnamed |-> TRUE, hsts_decided |-> TRUE], !.requests = 3, !.end = 4, !.held = 3,
                     !.bodies = {Hsts("none", FALSE), Hsts("1", FALSE), Hsts("application", FALSE), Body([aliases |-> {}], {})}, !.faults = {"restart"}],
    \* the fields, through the managed line
    [SiteHost EXCEPT !.start = SiteSpec @@ [settings |-> [children |-> 1, memory_limit |-> 2], php_children |-> 1, own_trusted_proxies |-> TRUE,
                                           canonical |-> "a", rules |-> {"private", "entry"}, hsts_decided |-> TRUE],
                     !.requests = 2,
                     !.bodies = {Body([settings |-> [memory_limit |-> 1]], {}), Body([php_children |-> 2], {}), Body([settings |-> [max_body_size |-> 2]], {}),
                                 Body([user |-> "", php_socket |-> "sock"], {}), Body([aliases |-> {}], {}), Body([canonical |-> "d"], {}),
                                 Body([app |-> "static"], {}), Body([app |-> "static", rules |-> {}], {}),
                                 Body([login_paths |-> {"/l"}], {}), Body(<<>>, {"login_paths", "trusted_proxies"}),
                                 Body([trusted_proxies |-> {}], {}), Body([response_compression |-> [enabled |-> "on", offload |-> "null"]], {}),
                                 Body([response_compression |-> [enabled |-> "null"]], {})}],
    [SiteHost EXCEPT !.start = SiteSpec @@ [login_paths |-> {"/l"}, access_log_keep_days |-> 3], !.requests = 2, !.strict_users = TRUE,
                     !.bodies = {Body([access_log_exclude_paths |-> {"/x"}], {}), Body([access_log_exclude_paths |-> {"/l"}], {}),
                                 Body([login_paths |-> {"/x"}], {}), Body(<<>>, {"user", "access_log_keep_days"}), Body([no_user |-> TRUE, php_socket |-> "sock"], {}),
                                 Body([https |-> [mode |-> "manual", cert |-> "pair"]], {}), Body([https |-> [mode |-> "manual", cert |-> "gone"]], {}),
                                 Body([group |-> "g"], {}), Body([served_dir |-> "public", env_file |-> "public"], {})}],
    \* addresses
    [SiteHost EXCEPT !.start = SiteSpec, !.requests = 2, !.faults = {"restart"},
                     !.bodies = {Body([listen_tls |-> a], {}) : a \in {"", "own:443", "own:8443"}}
                                \cup {Body([listen_plain |-> a], {}) : a \in {"", "own:8080", "own:80", "own:8443"}}
                                \cup {Body([redirect_http |-> FALSE], {}), Body([https |-> [mode |-> "none"]], {})}],
    [SiteHost EXCEPT !.start = SiteSpec @@ [listen_tls |-> "own:443", listen_plain |-> "own:8080"],
                     !.bodies = {Body([listen_plain |-> a], {}) : a \in {"", "own:80"}}],
    [SiteHost EXCEPT !.start = SiteSpec, !.requests = 2, !.privileged = TRUE, !.explicit = FALSE,
                     !.bodies = {Body([listen_tls |-> "own:443"], {}), Body([listen_plain |-> "own:80"], {}), Body([redirect_http |-> FALSE], {})}]}
    \cup
    \* a new site, its host not ready, and dry runs
    {[SiteHost EXCEPT !.accounts = have, !.dir = d, !.helper = h, !.requests = 2, !.faults = {"reload"}, !.explicit = h,
                      !.bodies = UNION {{[given |-> g, nulls |-> {}, create |-> c, dry |-> dry] : c \in BOOLEAN, dry \in BOOLEAN} :
                                   g \in {[domain |-> "d", https |-> [mode |-> "auto"], app |-> "php", root |-> "r", user |-> "w"],
                                          NewProxy,
                                          [domain |-> "d", https |-> [mode |-> "none"], app |-> "php", root |-> "r", user |-> "w", group |-> "g"],
                                          [domain |-> "d", app |-> "static"], [user |-> "u", group |-> "g"]}}] :
        have \in {{}, {"w"}}, d \in {"none", "shut", "u"}, h \in BOOLEAN}
    \cup
    \* a password rule, sites.d not included, and a full disk
    {[SiteHost EXCEPT !.start = f, !.included = FALSE, !.users = u, !.faults = {"disk", "restart"} \ (IF u THEN {} ELSE {"disk"}),
                      !.bodies = {Body([rules |-> {"auth"}], {}), Body([aliases |-> {}], {}), [Body([aliases |-> {}], {}) EXCEPT !.dry = TRUE],
                                  [Body(NewProxy, {}) EXCEPT !.create = TRUE]}] : f \in {<<>>, SiteSpec}, u \in BOOLEAN}

S == INSTANCE Sites WITH Settings <- AllSites
-----------------------------------------------------------------------------
codes == <<files, checker, uses, wrong>>
changes == <<change, queued, post, runs, handed>>

MCInit ==
    /\ Init
    /\ \/ /\ setting = [part |-> "codes"]
          /\ change = 0 /\ queued = 0 /\ post = 0 /\ runs = 0 /\ handed = 0 /\ s = 0
       \/ C!Init /\ setting = [part |-> "changes"] /\ s = 0
       \/ /\ T!Init \/ E!Init \/ K!Init \/ I!Init \/ F!Init \/ L!Init \/ P!Init \/ S!Init
          /\ change = 0 /\ queued = 0 /\ post = 0 /\ runs = 0 /\ handed = 0

MCNext ==
    \/ setting.part = "codes" /\ Next /\ UNCHANGED <<changes, s, setting>>
    \/ setting.part = "changes" /\ C!Next /\ UNCHANGED <<codes, s, setting>>
    \/ /\ \/ setting.part = "trash" /\ T!Next
          \/ setting.part = "presets" /\ P!Next
          \/ setting.part = "config" /\ L!Next
          \/ setting.part = "sites" /\ S!Next
          \/ setting.part = "files" /\ F!Next
          \/ setting.part = "install" /\ I!Next
          \/ setting.part = "tasks" /\ K!Next
          \/ setting.part = "certs" /\ E!Next
       /\ UNCHANGED <<now, codes, changes>>

MCSpec == MCInit /\ [][MCNext]_<<now, codes, changes, s, setting>>
-----------------------------------------------------------------------------

\* Approvals' OverIsOver: a change rejected, skipped, finished or dropped for its age is
\* not run, also when that happened while a code was being checked (approvals_post).
OverIsOver == [][setting.part = "changes" => C!OverStep]_<<now, changes, setting>>



\* Tasks' TaskStep: every request gets its own answer and ends, one task at a time works in a
\* site, a run is bounded and leaves nothing running and no credential file open, and a dry
\* run meets what the run would (site_task, Provisioner, execute, run, sweep).
TasksEnd == [][setting.part = "tasks" => K!TaskStep]_<<s, setting>>




\* Approvals' RunOnce: a change is approved once and its request run once.
RunOnce == setting.part = "changes" => C!RunOnce
=============================================================================
