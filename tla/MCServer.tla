------------------------------ MODULE MCServer ------------------------------
(* Instances of FileCache, Listeners, Tunnel, AccessLog and Requests for TLC: *)
(* a behaviour is of one of them, the setting says of which.                  *)
EXTENDS FileCache, TLC

CONSTANTS e1, e2, e3, w0, w1, w2

VARIABLE s
-----------------------------------------------------------------------------
Logo == [scope |-> 1, path |-> "logo"]
Page == [scope |-> 2, path |-> "page"]
Icon == [scope |-> 2, path |-> "icon"]

\* A worker and the copy maker over budgets that two of three files fill.
Filling ==
    [part |-> "cache", workers |-> {w0}, keys |-> {Logo, Page, Icon}, sizes |-> {3}, copies |-> {2},
     max_total |-> 6, target_total |-> 5, max_open |-> 1, target_open |-> 1,
     max_local |-> 2, limit |-> 1, generations |-> <<{1, 2}>>]

\* Two workers through a reload that replaces the location of one file and
\* keeps the other's; copies are made outside of it.
Reloading ==
    [part |-> "cache", workers |-> {w1, w2}, keys |-> {Logo, Page}, sizes |-> {2}, copies |-> {1},
     max_total |-> 3, target_total |-> 2, max_open |-> 0, target_open |-> 0,
     max_local |-> 2, limit |-> 0, generations |-> <<{1, 2}, {2}>>]

AllCaches == {Filling, Reloading}

Symmetry == Permutations(Entries) \cup Permutations({w1, w2})
-----------------------------------------------------------------------------
Address(port, v6, priv, h3) == [port |-> port, v6 |-> v6, privileged |-> priv, h3 |-> h3]

\* Two workers with their own sockets; a later address may be busy.
Shared == [part |-> "listeners", workers |-> 2, reuse_port |-> TRUE, switches |-> 2, busy |-> TRUE, stops |-> TRUE,
           pauses |-> FALSE,
           facts |-> [web |-> Address(443, FALSE, TRUE, TRUE), alt |-> Address(8443, FALSE, FALSE, TRUE),
                      plain |-> Address(8080, FALSE, FALSE, FALSE)],
           configs |-> <<<<"web">>, <<"web", "alt">>, <<"web", "plain", "alt">>>>]

\* An address that comes, goes and comes again.
Again == [Shared EXCEPT !.configs = <<<<"web">>, <<"web", "alt">>>>, !.switches = 3, !.busy = FALSE]

\* The two families on one port, and an acceptor that runs out of descriptors.
Families == [Shared EXCEPT !.workers = 1, !.reuse_port = FALSE, !.switches = 3, !.busy = FALSE,
             !.facts = [web |-> Address(443, FALSE, TRUE, TRUE), v4 |-> Address(8080, FALSE, FALSE, FALSE),
                        v6 |-> Address(8080, TRUE, FALSE, FALSE)],
             !.configs = <<<<"web">>, <<"web", "v4">>, <<"web", "v6">>, <<"web", "v6", "v4">>, <<"v4">>>>]
Pauses == [Families EXCEPT !.configs = <<<<"web">>, <<"web", "v4">>>>, !.pauses = TRUE, !.stops = FALSE]

AllListeners == {Shared, Again, Families, Pauses}
L == INSTANCE Listeners WITH Settings <- AllListeners
-----------------------------------------------------------------------------
\* A tunnel without an idle limit, over TLS with one longer than the write's, with a
\* shorter one.
Plain == [part |-> "tunnel", units |-> 3, send_limit |-> 2, idle |-> 0, tls |-> FALSE, overlap |-> FALSE, end |-> 5]
Tls == [Plain EXCEPT !.tls = TRUE, !.idle = 3]
Short == [Plain EXCEPT !.idle = 1]

AllTunnels == {Plain, Tls, Short}
T == INSTANCE Tunnel WITH Settings <- AllTunnels
-----------------------------------------------------------------------------
\* Two workers writing two logs under two rotations.
Rotates == [part |-> "logs", workers |-> 2, dirs |-> [a |-> <<"sites">>, b |-> <<"sites">>], first |-> {"a", "b"},
            layouts |-> {<<>>}, fds |-> 8, root |-> FALSE, lines |-> 2, flush_size |-> 2, stops |-> TRUE,
            rotations |-> 2, planted |-> {"missing"}, reloads |-> 0, configs |-> {}]

\* Reloads that add and drop a log, with a rotation.
LogReloads == [Rotates EXCEPT !.rotations = 1, !.planted = {"missing", "link"}, !.first = {"a"}, !.reloads = 2,
               !.configs = {{"a", "b"}, {"b"}}, !.lines = 1, !.root = TRUE]

\* What may stand in the way of a log file at the start.
Layouts == [Rotates EXCEPT !.dirs = [a |-> <<>>, b |-> <<"sites">>, c |-> <<"sites", "shop">>, d |-> <<"old">>],
            !.first = {"a", "b", "c", "d"}, !.workers = 1, !.lines = 0, !.rotations = 0, !.stops = FALSE,
            !.reloads = 1, !.configs = {{"a", "b", "c", "d"}},
            !.layouts = {[a |-> [top |-> "dir", dirs |-> <<>>, file |-> f],
                          b |-> [top |-> "dir", dirs |-> <<d>>, file |-> "missing"]] :
                           f \in {"missing", "regular", "link", "fifo", "hard", "foreign"},
                           d \in {"dir", "link", "missing"}}]

AllLogs == {Rotates, LogReloads, Layouts}
A == INSTANCE AccessLog WITH Settings <- AllLogs
-----------------------------------------------------------------------------
(* Requests.                                                                  *)
\* A PHP site: files, a try_files fallback to the front controller, scripts by suffix.
Root == [match |-> "prefix", path |-> <<"">>, kind |-> "static", final |-> FALSE, index |-> <<"index.php", "index.html">>,
          try |-> <<>>, hidden |-> FALSE, deny |-> {}, closed |-> FALSE, methods |-> {"GET", "OPTIONS"}, buffer |-> FALSE]
TryStep(kind, target) == [kind |-> kind, status |-> 404, target |-> target]
FrontController == <<TryStep("uri", <<>>), TryStep("uri_dir", <<>>), TryStep("fallback", <<"index.php">>)>>
Php == [Root EXCEPT !.match = "suffix", !.path = <<>>, !.kind = "fastcgi", !.methods = {"GET", "POST", "OPTIONS"}, !.deny = {"db"}]
Cgi == [Root EXCEPT !.path = <<"cgi", "">>, !.kind = "cgi", !.methods = {"GET", "POST"}]
Proxy == [Root EXCEPT !.path = <<"app", "">>, !.kind = "proxy", !.methods = {"GET", "POST"}, !.buffer = TRUE]
Uploads == [Root EXCEPT !.path = <<"up", "">>, !.final = TRUE, !.deny = {"x.php"}]
BareSite == [names |-> <<"a", "b">>, catchall |-> FALSE, canonical |-> "", redirect |-> FALSE, hsts |-> "off", trusted |-> {},
         refuse |-> {}, redirects |-> {}, access |-> {}, auth |-> {}, locs |-> {Root, Php}]
Plainly == [path |-> <<"">>, host |-> "a", tls |-> TRUE, peer |-> "p", xff |-> <<>>, proto |-> "", method |-> "GET",
        body |-> FALSE, login |-> [user |-> "", pw |-> ""], query |-> {}, escaped |-> FALSE, preflight |-> FALSE, claims |-> {}]
Get(p) == [Plainly EXCEPT !.path = p]
As(p, u, w) == [Plainly EXCEPT !.path = p, !.login = [user |-> u, pw |-> w]]
User(pw) == [pw |-> pw, hash |-> pw, expires |-> 0, locked |-> FALSE]
Area(u) == [a |-> u]
AuthRule == [path |-> <<"admin">>, exact |-> FALSE, open |-> FALSE, area |-> "a", plain |-> FALSE, skip |-> {}, strip |-> TRUE, forward |-> FALSE]
OpenRule == [AuthRule EXCEPT !.path = <<"admin", "open">>, !.open = TRUE]
AccessRule == [path |-> <<"admin">>, exact |-> FALSE, report |-> FALSE, allow |-> {"p"}]
Request == [part |-> "requests", site |-> BareSite, files |-> {<<"index.php">>, <<"x.php">>, <<"admin", "index.php">>, <<"admin", "f">>, <<"d", "index.html">>, <<"f">>},
         validation |-> [Root EXCEPT !.index = <<>>, !.path = <<".well-known">>, !.hidden = TRUE],
         users |-> <<Area([u |-> User("w")])>>, trusted |-> {}, asks |-> <<{Plainly}>>, mux |-> FALSE, inflight |-> 2, queue |-> 1,
         threads |-> 1, ways |-> 1, keep |-> 1, hops |-> 2, follows |-> 3, again |-> 1, spills |-> FALSE, closes |-> FALSE, end |-> 1]
\* Passwords: a right, a wrong and no login on one connection, while the file changes and logins expire.
Logins == {As(<<"admin", "f">>, "u", "w"), As(<<"admin", "f">>, "u", "v"), As(<<"admin", "">>, "v", "w"), Get(<<"admin", "f">>)}
Guarded == [BareSite EXCEPT !.auth = {AuthRule, OpenRule}]
Changing == <<Area([u |-> User("w")]), Area([u |-> [User("v") EXCEPT !.expires = 2], v |-> [User("w") EXCEPT !.locked = TRUE]])>>
Passwords == [Request EXCEPT !.site = Guarded, !.users = Changing, !.asks = <<Logins>>, !.again = 2, !.end = 2, !.closes = TRUE]
Pooled == [Request EXCEPT !.site = Guarded, !.asks = [i \in 1 .. 3 |-> {As(<<"admin", "f">>, "u", "w"), As(<<"admin", "f">>, "u", "v")}],
           !.inflight = 2, !.queue = 1, !.closes = TRUE]
Mux == [Pooled EXCEPT !.mux = TRUE, !.users = <<@[1]>>, !.asks = [i \in 1 .. 2 |-> @[1]], !.again = 2, !.inflight = 1]
\* Every way to what a rule protects.
Ways == {<<"admin">>, <<"admin", "">>, <<"admin", "index.php">>, <<"admin", "f">>, <<"x.php">>, <<"x.php", "y">>, <<"x.php", "admin">>,
         <<"d", "..", "admin", "f">>, <<"%61dmin", "f">>, <<"admin;x", "f">>, <<"admin", "open", "f">>, <<"missing">>, <<"">>, <<"d">>, <<"d", "">>, <<"..", "f">>,
         <<".env">>, <<"app", "admin">>, <<"app", "..;x", "admin">>, <<"cgi", "run", "x">>, <<"cgi", "">>, <<"up", "x.php">>, <<"up", "">>, <<"shut", "f">>, <<"x.php", "db">>}
KeptRule == [AuthRule EXCEPT !.strip = FALSE]
Routes == [Guarded EXCEPT !.auth = {KeptRule, OpenRule}, !.locs = {[Root EXCEPT !.try = FrontController], Php, Cgi, Proxy, Uploads,
                                    [Root EXCEPT !.path = <<"shut", "">>, !.closed = TRUE]}]
SiteFiles == Request.files \cup {<<"cgi", "run">>, <<"cgi", "index.cgi">>, <<"up", "x.php">>, <<"shut", "f">>, <<".env">>}
Exact(p) == [KeptRule EXCEPT !.path = p, !.exact = TRUE]
Routing(r) == [Request EXCEPT !.site = r, !.files = SiteFiles, !.asks = <<{Get(p) : p \in Ways} \cup {As(p, "u", "w") : p \in Ways}
                 \cup {[Get(p) EXCEPT !.method = "POST", !.body = TRUE] : p \in Ways}
                 \cup {[Get(p) EXCEPT !.method = "OPTIONS", !.preflight = TRUE] : p \in Ways}
                 \cup {[Get(<<"admin", "f">>) EXCEPT !.peer = "local", !.tls = FALSE], [As(<<"admin", "f">>, "u", "w") EXCEPT !.tls = FALSE],
                       [Get(<<"f">>) EXCEPT !.escaped = TRUE], [Get(<<"f">>) EXCEPT !.host = "other"],
                       As(<<"admin", "f">>, "malformed", "w")}>>, !.spills = TRUE, !.closes = TRUE]
AllRoutes == {Routing(Routes),
              Routing([Routes EXCEPT !.auth = {Exact(<<"x.php">>), Exact(<<"admin", "index.php">>), Exact(<<"cgi", "run">>), [Exact(<<"index.php">>) EXCEPT !.skip = {"p"}]}]),
              Routing([Routes EXCEPT !.refuse = {[head |-> <<"admin">>, tail |-> <<>>], [head |-> <<>>, tail |-> <<"index.html">>], [head |-> <<"cgi">>, tail |-> <<"*", "x">>]}, !.auth = {}]),
              Routing([Routes EXCEPT !.auth = {}, !.access = {[AccessRule EXCEPT !.allow = {"q"}], [AccessRule EXCEPT !.path = <<"index.php">>, !.exact = TRUE, !.allow = {}],
                                                             [AccessRule EXCEPT !.path = <<"d">>, !.report = TRUE, !.allow = {}], [AccessRule EXCEPT !.path = <<"d", "index.html">>, !.allow = {}]}]),
              Routing([Routes EXCEPT !.locs = (@ \ {[Root EXCEPT !.try = FrontController]}) \cup {Root}]),
              Routing([Routes EXCEPT !.locs = {[Root EXCEPT !.try = <<TryStep("uri", <<>>), TryStep("status", <<>>)>>],
                                               [Root EXCEPT !.match = "exact", !.path = <<"x.php">>, !.kind = "fastcgi"],
                                               [Root EXCEPT !.path = <<"d", "">>, !.try = <<TryStep("fallback", <<"e", "">>)>>],
                                               [Root EXCEPT !.path = <<"e", "">>, !.try = <<TryStep("fallback", <<"d", "">>)>>]}])}
\* Refusals by address, more than one a second.
Refusals == [Request EXCEPT !.site = [BareSite EXCEPT !.access = {AccessRule}], !.asks = [i \in 1 .. 2 |-> {[Get(<<"admin", "f">>) EXCEPT !.peer = "q"], Get(<<"admin", "f">>)}], !.again = 2, !.end = 3]
\* Names, schemes, rules and proxies in front.
Redirect(p, exact, to) == [path |-> p, exact |-> exact, params |-> {}, to |-> to, status |-> 301]
Redirects == {Redirect(<<"old">>, FALSE, <<"d">>), Redirect(<<"old", "f">>, TRUE, <<"f">>), [Redirect(<<"f">>, TRUE, <<"d", "">>) EXCEPT !.params = {"q"}],
              [Redirect(<<"gone">>, TRUE, <<"">>) EXCEPT !.status = 410], Redirect(<<"old", "">>, FALSE, <<"d", "">>)}
MovedPaths == {<<"old">>, <<"old", "f">>, <<"old", "index.html">>, <<"d">>, <<"f">>, <<"gone">>, <<".well-known", "acme-challenge", "t">>, <<"x.php">>}
Movers == {[Get(p) EXCEPT !.tls = x, !.host = h] : p \in MovedPaths, x \in BOOLEAN, h \in {"a", "b", "other"}}
          \cup {[Get(<<"f">>) EXCEPT !.query = {"q"}], [Get(<<"old", "x">>) EXCEPT !.escaped = TRUE],
                [Get(<<"f">>) EXCEPT !.tls = FALSE, !.peer = "proxy", !.proto = "https", !.host = "b"], [Get(<<"f">>) EXCEPT !.tls = FALSE, !.peer = "proxy", !.proto = "http", !.host = "b"]}
Moving(site) == [Request EXCEPT !.site = site, !.asks = <<Movers>>, !.trusted = {"proxy"}, !.files = @ \cup {<<".well-known", "acme-challenge", "t">>}]
AllMoves == {Moving([BareSite EXCEPT !.redirects = Redirects, !.redirect = r, !.canonical = n, !.hsts = h, !.catchall = (n = "")]) :
                r \in BOOLEAN, n \in {"", "a"}, h \in {"on", "off"}}
\* A proxy in front: whose word counts.
FrontedAsks == {[Get(p) EXCEPT !.peer = e, !.tls = FALSE, !.xff = x, !.proto = o, !.claims = {"cdn", "real", "user"}, !.login = [user |-> "u", pw |-> "w"]] :
             p \in {<<"app", "admin">>, <<"app", "y">>}, e \in {"proxy", "other"}, o \in {"https", "http"},
             x \in {<<>>, <<"local">>, <<"q", "local">>, <<"local", "proxy">>, <<"local", "garbage">>}}
Fronted(own) == [Request EXCEPT !.site = [BareSite EXCEPT !.locs = {Root, Proxy}, !.trusted = own, !.auth = {[AuthRule EXCEPT !.path = <<"app", "admin">>, !.forward = TRUE]}],
                             !.trusted = {"proxy", "other"}, !.asks = <<FrontedAsks>>]
AllRequests == {Passwords, Pooled, Mux, Refusals} \cup AllRoutes \cup AllMoves \cup {Fronted({}), Fronted({"proxy"})}

Q == INSTANCE Requests WITH Settings <- AllRequests

\* An upload to a script, its body collected first, beside a file of the same connection.
ScriptUploads == [Request EXCEPT !.mux = TRUE, !.site = [BareSite EXCEPT !.locs = {Root, [Php EXCEPT !.buffer = TRUE]}],
                  !.asks = <<{[Get(<<"x.php">>) EXCEPT !.method = "POST", !.body = TRUE]}, {Get(<<"f">>)}>>]
U == INSTANCE Requests WITH Settings <- {ScriptUploads}

\* The password file changes while two streams of a connection log in.
PasswordChange == [Mux EXCEPT !.users = Changing]
P == INSTANCE Requests WITH Settings <- {PasswordChange}
-----------------------------------------------------------------------------
Units(n) == [k \in 1 .. n |-> k]
Source(from, coding, n, declared, sized, est, mem, padding) ==
  [from |-> from, coding |-> coding, kind |-> "answer", level |-> 3, body |-> Units(n), declared |-> declared,
   sized |-> sized, estimate |-> est, memory |-> mem, padding |-> padding]
Pieces(answers, budget) == [part |-> "compression", answers |-> answers, budget |-> budget, keep |-> 1, room |-> 3, flush_room |-> 2,
   capacity |-> 2, window |-> 1, yield_input |-> 1]
AllCompression == {Pieces(<<Source("stream", "zstd", 3, 3, FALSE, 2, 3, 1), Source("memory", "zstd", 1, 1, FALSE, 2, 3, 0)>>, 6),
        Pieces(<<Source("memory", "gzip", 5, 5, FALSE, 2, 3, 0)>>, 2),
        Pieces(<<Source("file", "gzip", 3, 3, FALSE, 3, 2, 0), Source("memory", "gzip", 1, 1, FALSE, 2, 3, 0)>>, 4),
        Pieces(<<Source("stream", "gzip", 3, 3, TRUE, 3, 2, 0), Source("file", "br", 2, 3, FALSE, 2, 3, 0)>>, 5),
        Pieces(<<Source("stream", "gzip", 2, 3, TRUE, 2, 3, 1)>>, 2),
        Pieces(<<Source("stream", "gzip", 3, 2, TRUE, 2, 3, 0)>>, 4)}

C == INSTANCE Compression WITH Settings <- AllCompression
-----------------------------------------------------------------------------
Fld(n, v) == [n |-> n, v |-> v]
Say(n, verb, v) == [n |-> n, verb |-> verb, v |-> v]
Rule(path, exact, ok, endings, base, own, says) == [path |-> path, exact |-> exact, success_only |-> ok, endings |-> endings, baseline |-> base, own_only |-> own, says |-> says]
Acc(g, b, z, st) == [gzip |-> g, br |-> b, zstd |-> z, star |-> st]
Client0 == [path |-> <<"a", "b">>, user |-> "u", authorization |-> "none", guarded |-> FALSE, access_admitted |-> FALSE, accept |-> Acc(2, -1, -1, -1), cache_control |-> {}, method |-> "GET", protocol |-> "1.1", tls |-> TRUE]
Html0 == [status |-> 200, streamed |-> FALSE, size |-> 2, fields |-> <<Fld("content-type", {"html"})>>]
Ap(fs) == [Html0 EXCEPT !.fields = @ \o fs]
Site0 == [enabled |-> FALSE, codings |-> {}, events |-> FALSE, exclude_paths |-> {}, signed_in |-> TRUE, min_size |-> 1, whole_max |-> 2, hsts |-> {}, strip_hsts |-> FALSE, http_redirect |-> FALSE]
Loc0 == [proxied |-> FALSE, hide |-> {}, origin |-> {"origin"}, prefixed |-> FALSE, rewrite_redirects |-> FALSE, add_headers |-> <<>>]
File0 == [status |-> 200, block |-> <<Fld("content-type", {"html"})>>, own_fields |-> FALSE, unsettled |-> FALSE, headers |-> <<>>, file |-> <<"x", "tar", "gz">>]
Error0 == [File0 EXCEPT !.file = <<>>, !.status = 404]
Fielded(rules, loc, site, reqs, ans, own) == [part |-> "fields", rules |-> rules, loc |-> loc, site |-> site, requests |-> reqs, answers |-> ans, own |-> own, most |-> 1]
\* resolution of rules
RuleSet == << Rule(<<"a">>, FALSE, TRUE, {}, FALSE, FALSE, <<Say("x-frame", "remove", {})>>),
  Rule(<<>>, FALSE, FALSE, {}, FALSE, FALSE, <<Say("x-frame", "fallback", {"root"}), Say("x-type", "fallback", {"root"})>>),
  Rule(<<"a", "b">>, TRUE, FALSE, {}, FALSE, FALSE, <<Say("x-type", "set", {"exact"})>>),
  Rule(<<"a", "b">>, FALSE, FALSE, {}, FALSE, FALSE, <<Say("x-type", "remove", {})>>),
  Rule(<<"a">>, FALSE, FALSE, {<<"gz">>}, FALSE, FALSE, <<Say("x-frame", "set", {"gz"})>>) >>
BaseSet == << Rule(<<>>, FALSE, FALSE, {}, TRUE, TRUE, <<Say("x-type", "set", {"nosniff"}), Say("x-frame", "fallback", {"base"})>>),
  Rule(<<>>, FALSE, FALSE, {}, FALSE, FALSE, <<Say("x-frame", "set", {"deny"})>>),
  Rule(<<"c">>, TRUE, TRUE, {}, FALSE, FALSE, <<Say("x-frame", "fallback", {"c"})>>) >>
Paths == {[Client0 EXCEPT !.path = p, !.protocol = v] : p \in {<<>>, <<"a">>, <<"a", "b">>, <<"a", "b", "d">>, <<"c">>, <<"c", "d">>}, v \in {"1.1", "2"}}
Pages == {Html0, Ap(<<Fld("x-frame", {"app"}), Fld("x-type", {"app"})>>), [Ap(<<Fld("x-frame", {"app"}), Fld("x-frame", {"app2"})>>) EXCEPT !.status = 404]}
Owns == {File0, [Error0 EXCEPT !.headers = <<Fld("x-frame", {"page"})>>], [Error0 EXCEPT !.own_fields = TRUE, !.block = <<Fld("cache-control", {"no-store"})>>]}
Resolved == {Fielded(r, l, Site0, Paths, Pages, Owns) : r \in {RuleSet, BaseSet}, l \in {Loc0, [Loc0 EXCEPT !.add_headers = <<Fld("x-frame", {"added"})>>, !.proxied = TRUE, !.hide = {"x-type"}]}}
\* caches
CacheRules == {
  << Rule(<<>>, FALSE, TRUE, {}, FALSE, FALSE, <<Say("cache-control", "set", {"public", "max-age"})>>) >>,
  << Rule(<<>>, FALSE, TRUE, {}, FALSE, FALSE, <<Say("cdn-cache-control", "set", {"max-age"}), Say("expires", "fallback", {"1"})>>) >>,
  << Rule(<<>>, FALSE, TRUE, {}, FALSE, FALSE, <<Say("cache-control", "remove", {}), Say("surrogate-control", "fallback", {"max-age"})>>) >>,
  << Rule(<<>>, FALSE, TRUE, {}, FALSE, FALSE, <<Say("cache-control", "fallback", {"s-maxage"}), Say("cdn-cache-control", "remove", {})>>) >>,
  << Rule(<<>>, FALSE, TRUE, {}, FALSE, FALSE, <<Say("cache-control", "set", {"private"}), Say("expires", "set", {"1"})>>) >> }
CacheAnswers == {Ap(x \o y) : x \in {<<>>, <<Fld("set-cookie", {"c"})>>, <<Fld("vary", {"cookie"})>>},
   y \in {<<>>, <<Fld("cache-control", {"no-store"})>>, <<Fld("cache-control", {"private=f", "max-age"})>>, <<Fld("cache-control", {"public", "max-age"})>>,
          <<Fld("cache-control", {"no-cache"}), Fld("cdn-cache-control", {"max-age"})>>, <<Fld("cache-control", {"max-age"}), Fld("cdn-cache-control", {"private"})>>,
          <<Fld("expires", {"1"}), Fld("cache-control", {"private"})>>}}
CacheRequests == {Client0, [Client0 EXCEPT !.user = "w"], [Client0 EXCEPT !.authorization = "basic"], [Client0 EXCEPT !.guarded = TRUE]}
Caching == {Fielded(r, [Loc0 EXCEPT !.add_headers = h], Site0, CacheRequests, CacheAnswers, {File0, [File0 EXCEPT !.unsettled = TRUE], [Error0 EXCEPT !.status = 401, !.own_fields = TRUE, !.block = <<Fld("cache-control", {"no-store"})>>]}) : r \in CacheRules, h \in {<<>>, <<Fld("cache-control", {"public", "max-age"}), Fld("surrogate-control", {"max-age"}), Fld("expires", {"1"})>>}}
\* compression
Site1 == [Site0 EXCEPT !.enabled = TRUE, !.codings = {"gzip", "zstd"}, !.signed_in = FALSE, !.exclude_paths = {<<"c">>}]
CodeRequests == {[Client0 EXCEPT !.accept = x, !.method = m, !.protocol = v] : x \in {Acc(-1, -1, -1, -1), Acc(2, -1, -1, 1), Acc(1, 2, 0, -1)}, m \in {"GET", "HEAD"}, v \in {"1.0", "2"}}
   \cup {[Client0 EXCEPT !.path = <<"c", "d">>], [Client0 EXCEPT !.authorization = "basic"], [Client0 EXCEPT !.cache_control = {"no-transform"}]}
CodeAnswers == {[Html0 EXCEPT !.size = n, !.streamed = st, !.fields = @ \o <<Fld("etag", {"strong"}), Fld("accept-ranges", {"bytes"})>> \o x] : n \in {0, 2, 3}, st \in BOOLEAN,
     x \in {<<>>, <<Fld("vary", {"cookie"}), Fld("content-length", {"app"})>>}}
   \cup {[Html0 EXCEPT !.fields = <<Fld("content-type", {"event-stream"})>>, !.streamed = TRUE], Ap(<<Fld("content-encoding", {"identity"}), Fld("cache-control", {"no-transform"})>>), [Html0 EXCEPT !.status = 304], [Html0 EXCEPT !.status = 101]}
Coding == {Fielded(<<>>, Loc0, [Site1 EXCEPT !.events = e], CodeRequests, CodeAnswers, {File0}) : e \in BOOLEAN}
\* the site's name
Hops == {[Html0 EXCEPT !.status = 302, !.fields = <<Fld("location", l), Fld("hsts", h)>>] : l \in {{"http", "site", "under"}, {"http", "origin", "under"}, {"http", "origin"}, {"https", "other"}}, h \in {{"age2"}, {"age1", "subdomains"}, {"age1", "repeated"}}}
HopLocs == {[Loc0 EXCEPT !.proxied = TRUE, !.rewrite_redirects = TRUE, !.prefixed = b] : b \in BOOLEAN}
Hopping == {Fielded(<<>>, l, [Site0 EXCEPT !.hsts = h, !.strip_hsts = h = {}, !.http_redirect = TRUE], {Client0, [Client0 EXCEPT !.tls = FALSE]}, Hops, {Error0}) : l \in HopLocs, h \in {{}, {"age1"}}}
Twice == {[Fielded(r, Loc0, Site0, {Client0, [Client0 EXCEPT !.guarded = TRUE], [Client0 EXCEPT !.user = "w"]}, {Html0, Ap(<<Fld("cache-control", {"public", "max-age"})>>), Ap(<<Fld("cache-control", {"no-store"}), Fld("vary", {"cookie"})>>)}, {File0}) EXCEPT !.most = 2] : r \in CacheRules}
AllAnswerFields == Twice \cup Resolved \cup Caching \cup Coding \cup Hopping

F == INSTANCE AnswerFields WITH Settings <- AllAnswerFields
-----------------------------------------------------------------------------
cache == <<map, ent, total, open, local, req, queue, job, latest, gen, drops>>

NoCache ==
    /\ map = 0 /\ ent = 0 /\ total = 0 /\ open = 0 /\ local = 0 /\ req = 0 /\ queue = 0 /\ job = 0
    /\ latest = 0 /\ gen = 0 /\ drops = 0

MCInit ==
    \/ Init /\ s = 0
    \/ /\ NoCache
       /\ L!Init \/ T!Init \/ A!Init \/ Q!Init \/ F!Init \/ C!Init

MCNext ==
    \/ setting.part = "cache" /\ Next /\ UNCHANGED s
    \/ setting.part = "listeners" /\ L!Next /\ UNCHANGED cache
    \/ setting.part = "tunnel" /\ T!Next /\ UNCHANGED cache
    \/ setting.part = "logs" /\ A!Next /\ UNCHANGED cache
    \/ setting.part = "requests" /\ Q!Next /\ UNCHANGED cache
    \/ setting.part = "fields" /\ F!Next /\ UNCHANGED cache
    \/ setting.part = "compression" /\ C!Next /\ UNCHANGED cache

MCSpec == MCInit /\ [][MCNext]_<<vars, s>>

ScriptUploadsSpec == NoCache /\ U!Init /\ [][U!Next /\ UNCHANGED cache]_<<vars, s>>
PasswordChangeSpec == NoCache /\ P!Init /\ [][P!Next /\ UNCHANGED cache]_<<vars, s>>
-----------------------------------------------------------------------------
\* FileCache's WithinBudget, LocalCanonical and SweepComplete: the counters are what the
\* entries hold and the budgets bound them, no worker serves an entry the others replaced,
\* and a reload leaves nothing of its old locations (insert, evict, LocalIndex,
\* retain_scopes).
CacheTrue == setting.part = "cache" => WithinBudget /\ LocalCanonical /\ SweepComplete

\* FileCache's RecentSurvive: the least recently used go first (evict).
RecentSurvives == [][setting.part = "cache" => RecentStep]_vars

\* Listeners' ListensAsConfigured and Http3AsAdvertised: after any switches, refusals and
\* stops the sockets are those of the configuration in force, over TCP (switch_to,
\* open_acceptor) and over UDP (sync_h3, open_gained_h3).
ListenersAgree == setting.part = "listeners" => L!ListensAsConfigured /\ L!Http3AsAdvertised

\* Tunnel's InOrder and Bounded: both directions arrive whole, in order and once, and a
\* write that makes no progress ends (start_tunnel, tunnel_tick).
TunnelsCarry == setting.part = "tunnel" => T!InOrder /\ T!Bounded




\* Requests' ParamsOwn: a script is started with the path of its own request, however long
\* its body took to come (FcgiHandler::start and launch).
ScriptsOwnParams == U!ParamsOwn

\* Requests' RulesKept where the password file changes: a request that came after the
\* reload is served under a login of the new file only (check_auth, refresh_generation).
OldPasswordsRefused == [][P!RulesKept]_<<s, setting>>
=============================================================================
