------------------------------ MODULE Requests ------------------------------
(* A request on its way to what answers it: Dispatcher::route with the        *)
(* redirects, the refused paths, the address and password rules, the choice   *)
(* of the location, the static handler's lookup with its internal redirects,  *)
(* and the start of a FastCGI, CGI or proxy exchange.                         *)
(*                                                                            *)
(* A path is the sequence of its segments, a directory's ending in "".  The   *)
(* streams of one worker interleave where the code waits: for a password on   *)
(* the pool, for a body that is collected.  The worker's scratch state        *)
(* (s.ws) is shared by them.  A client follows the redirects it gets.  The    *)
(* password files change by reloads; time is the worker's clock.              *)
EXTENDS Integers, Sequences, FiniteSets, SequencesExt, FiniteSetsExt

CONSTANTS Settings

VARIABLES
    s,        \* the streams, the worker's state, the password pool
    setting   \* the site and the requests, which no step changes

vars == <<s, setting>>

Site == setting.site
Streams == DOMAIN setting.asks
Conn(c) == IF setting.mux THEN 1 ELSE c     \* HTTP/2: the streams of one connection
Root == <<"">>
NoLogin == [user |-> "", pw |-> ""]
NoMemo == [login |-> NoLogin, id |-> <<0, "">>, until |-> 0]
NoAnswer == [status |-> 0, by |-> "", from |-> <<>>, params |-> <<>>, to |-> <<>>, host |-> "", https |-> FALSE,
             hsts |-> FALSE, private |-> FALSE, claims |-> {}, path |-> <<>>]
IsDir(p) == Last(p) = ""
-----------------------------------------------------------------------------
(* Paths (path.cpp, core/access.hpp, core/script_split.hpp)                   *)
Resolve(a, seg) ==
    CASE seg \in {"", "."} -> [a EXCEPT !.dir = TRUE]
      [] seg = ".." -> IF a.path = <<>> THEN [a EXCEPT !.ok = FALSE]
                       ELSE [a EXCEPT !.path = Front(@), !.dir = TRUE]
      [] OTHER -> [a EXCEPT !.path = Append(@, seg), !.dir = FALSE]
normalize_target(t) ==
    LET a == FoldLeft(Resolve, [ok |-> TRUE, path |-> <<>>, dir |-> FALSE], t)
    IN  [ok |-> a.ok, path |-> IF a.path = <<>> \/ a.dir THEN Append(a.path, "") ELSE a.path]

certificate_validation(p) == Len(p) >= 3 /\ p[1] = ".well-known" /\ p[2] = "acme-challenge"
has_hidden_segment(p) ==
    \E i \in DOMAIN p : p[i] = ".env" \/ (p[i] = ".well-known" /\ i > 1)
\* What another reader makes of a segment: without its parameter, decoded once more.
Bare(seg) == CASE seg = "..;x" -> ".." [] seg = "admin;x" -> "admin" [] OTHER -> seg
Decoded(seg) == IF seg = "%61dmin" THEN "admin" ELSE seg
Each(f(_), p) == [i \in DOMAIN p |-> f(p[i])]

Php(seg) == seg \in {"index.php", "x.php"}
\* Where the script ends in a path with path info, 0 without one.
php_end(p) ==
    LET ends == {i \in 1 .. Len(p) - 1 : Php(p[i])} IN IF ends = {} THEN 0 ELSE Min(ends)
IsFile(p) == p \in setting.files
IsDirectory(p) == IsDir(p) /\ (p = Root \/ \E f \in setting.files : Len(f) >= Len(p) /\ IsPrefix(Front(p), f))
\* The longest leading part that is a file, 0 when none is.
cgi_end(p) ==
    LET ends == {i \in DOMAIN p : IsFile(SubSeq(p, 1, i))} IN IF ends = {} THEN 0 ELSE Max(ends)

Read(p, q, n) == IF q # p /\ n.ok THEN <<n.path>> ELSE <<>>
other_readings(p) ==
    Read(p, Each(Bare, p), normalize_target(Each(Bare, p)))
    \o Read(p, Each(Decoded, p), normalize_target(Each(Decoded, p)))
    \o (IF php_end(p) # 0 THEN <<SubSeq(p, php_end(p) + 1, Len(p))>> ELSE <<>>)
-----------------------------------------------------------------------------
(* Sites and locations (core/router.cpp, core/router.hpp)                     *)
listed_name(host) == host \in Range(Site.names)
Authority(host) == listed_name(host) \/ Site.catchall

Under(p, prefix) == prefix = Root \/ (Len(p) >= Len(prefix) /\ IsPrefix(Front(prefix), p))
suffix_hit(p) == \E i \in DOMAIN p : Php(p[i])
Longest(ls) == CHOOSE l \in ls : \A m \in ls : Len(l.path) >= Len(m.path)
location(p) ==
    LET exact == {l \in Site.locs : l.match = "exact" /\ l.path = p}
        script == {l \in Site.locs : /\ l.match = "exact" /\ Php(Last(l.path))
                                     /\ Len(p) > Len(l.path) /\ IsPrefix(l.path, p)}
        suffix == {l \in Site.locs : l.match = "suffix" /\ suffix_hit(p)}
        prefix == Longest({l \in Site.locs : l.match = "prefix" /\ Under(p, l.path)})
    IN  IF exact # {} THEN CHOOSE l \in exact : TRUE
        ELSE IF script # {} THEN Longest(script)
        ELSE IF suffix # {} /\ ~prefix.final THEN CHOOSE l \in suffix : TRUE
        ELSE prefix

ExactRules == \E r \in Site.access \cup Site.auth : r.exact
\* The script a path runs when that is not the path itself.
ScriptIn(p, l, php, q) ==
    CASE l.kind = "fastcgi" -> IF php # 0 THEN <<SubSeq(p, 1, php)>>
                               ELSE IF IsDir(p) THEN <<Append(Front(p), "index.php")>> ELSE <<>>
      [] l.kind = "cgi" -> IF cgi_end(q) \in {0, Len(p)} THEN <<>> ELSE <<SubSeq(q, 1, cgi_end(q))>>
      [] OTHER -> <<>>
script_of(p) ==
    IF ExactRules THEN ScriptIn(p, location(p), php_end(p), IF IsDir(p) THEN Append(Front(p), "index.cgi") ELSE p)
    ELSE <<>>
Judged(p) == <<p>> \o script_of(p)
Readings(p) == Judged(p) \o FlattenSeq(Each(Judged, other_readings(p)))
-----------------------------------------------------------------------------
(* The rules: refused paths, addresses, passwords, redirects                  *)
segment_matches(g, seg) == g = "*" \/ g = seg
Matches(pattern, p, from) ==
    /\ from + Len(pattern) <= Len(p)
    /\ \A i \in DOMAIN pattern : segment_matches(pattern[i], p[from + i])
Segments(p) == SelectSeq(p, LAMBDA seg : seg # "")
refuse_matches(r, p) ==
    /\ Matches(r.head, p, 0)
    /\ r.tail = <<>> \/ \E at \in Len(r.head) .. Len(p) : Matches(r.tail, p, at)
refuse_match(p) == \E r \in Site.refuse : refuse_matches(r, Segments(p))
refuse_decide(p) == refuse_match(p) \/ \E q \in Range(other_readings(p)) : refuse_match(q)

covers(r, p) == IF r.exact THEN p = r.path ELSE r.path = Root \/ IsPrefix(r.path, p)
\* The rule that decides a path: the longest, an exact one before a prefix.
NoRule == [path |-> <<>>, exact |-> FALSE]
Before(a, b) == IF Len(a.path) # Len(b.path) THEN Len(a.path) > Len(b.path) ELSE a.exact \/ ~b.exact
rule_for(rules, p) ==
    LET found == {r \in rules : covers(r, p)}
    IN  IF found = {} THEN NoRule ELSE CHOOSE r \in found : \A q \in found : Before(r, q)
access_refuses(p, client) ==
    \E q \in Range(Readings(p)) : LET r == rule_for(Site.access, q) IN r # NoRule /\ ~r.report /\ client \notin r.allow
auth_protecting_rule(p) ==
    LET asked == SelectSeq(Each(LAMBDA q : rule_for(Site.auth, q), Readings(p)), LAMBDA r : r # NoRule /\ ~r.open)
    IN  IF asked = <<>> THEN NoRule ELSE Head(asked)

\* The redirect rule of a request: an exact one whose parameters the query holds, the
\* one with most of them first; then the longest prefix, never for an escaped separator.
redirect_match(p, req) ==
    LET exact == {r \in Site.redirects : r.exact /\ r.path = p /\ r.params \subseteq req.query}
        prefix == {r \in Site.redirects : ~r.exact /\ ~req.escaped /\ covers(r, p)}
    IN  IF exact # {} THEN CHOOSE r \in exact : \A q \in exact : Cardinality(r.params) >= Cardinality(q.params)
        ELSE IF prefix # {} THEN Longest(prefix)
        ELSE NoRule
write_location(r, p) ==
    IF r.exact \/ p = r.path THEN r.to
    ELSE (IF IsDir(r.to) THEN Front(r.to) ELSE r.to) \o SubSeq(p, IF r.path = Root THEN 1 ELSE Len(r.path) + 1, Len(p))
-----------------------------------------------------------------------------
(* The client a request is from (core/forwarded.hpp, dispatch.cpp)            *)
\* The X-Forwarded-For entries count from the right while the hop that wrote them is trusted.
resolve_forwarded(req) ==
    LET reached == {i \in DOMAIN req.xff : /\ req.xff[i] # "garbage"
                                           /\ \A j \in i + 1 .. Len(req.xff) : req.xff[j] \in setting.trusted}
    IN  IF reached = {} THEN req.peer ELSE req.xff[Min(reached)]
apply_forwarded(req) ==
    IF req.peer \in setting.trusted
    THEN [client |-> resolve_forwarded(req), fwd |-> req.proto = "https", trusted |-> TRUE]
    ELSE [client |-> req.peer, fwd |-> FALSE, trusted |-> FALSE]
apply_site_trust(x, req) ==
    IF Site.trusted = {} \/ req.peer \in Site.trusted THEN x
    ELSE [client |-> req.peer, fwd |-> FALSE, trusted |-> FALSE]

Secure(t) == t.req.tls \/ t.conn.fwd
-----------------------------------------------------------------------------
(* Answers                                                                    *)
Answer(k, c, a) ==
    [k EXCEPT !.st[c].at = "answered",
              !.st[c].ans = a @@ [NoAnswer EXCEPT !.host = k.st[c].req.host, !.https = Secure(k.st[c]),
                                                  !.hsts = k.st[c].fields, !.path = k.st[c].path]]
error(k, c, status) == Answer(k, c, [status |-> status, by |-> "page"])
redirect_answer(k, c, status, https, host, path) ==
    Answer(k, c, [status |-> status, by |-> "redirect", to |-> <<[https |-> https, host |-> host, path |-> path]>>])
answer_rule(k, c, r, https, host) ==
    IF r.status = 410 THEN error(k, c, 410)
    ELSE redirect_answer(k, c, r.status, https, host, write_location(r, k.ws.path))

\* The rule of a redirect that joins the scheme's or the name's hop: none on a refused path.
path_rule(k, c) ==
    IF refuse_decide(k.ws.path) THEN NoRule ELSE redirect_match(k.ws.path, k.st[c].req)
SameNameFirst(host) ==
    listed_name(host) /\ Site.canonical # "" /\ Site.hsts = "on" /\ host # Site.canonical
\* Mutant: the scheme and the name change in one hop on every site.
HttpsHost_straight(host) == IF listed_name(host) /\ Site.canonical # "" THEN Site.canonical ELSE host
HttpsHost(host) ==
    IF listed_name(host) /\ Site.canonical # "" /\ ~SameNameFirst(host) THEN Site.canonical ELSE host
redirect_https(k, c) ==
    LET host == IF k.st[c].req.host = "" THEN Head(Site.names) ELSE k.st[c].req.host
        rule == IF SameNameFirst(host) THEN NoRule ELSE path_rule(k, c)
    IN  IF rule # NoRule THEN answer_rule(k, c, rule, TRUE, HttpsHost(host))
        ELSE redirect_answer(k, c, 308, TRUE, HttpsHost(host), k.st[c].req.path)
redirect_host(k, c) ==
    LET host == k.st[c].req.host
        rule == path_rule(k, c)
    IN  IF Site.canonical = "" \/ host = Site.canonical \/ ~listed_name(host) THEN k
        ELSE IF rule # NoRule THEN answer_rule(k, c, rule, Secure(k.st[c]), Site.canonical)
        ELSE redirect_answer(k, c, 308, Secure(k.st[c]), Site.canonical, k.st[c].req.path)
-----------------------------------------------------------------------------
(* Passwords (Dispatcher::check_auth and start_auth, core/auth.cpp)           *)
Gen(k, c) == k.gen[Conn(c)]
Users(k, c, rule) == setting.users[Gen(k, c)][rule.area]
Known(k, c, rule) == k.st[c].login.user \in DOMAIN Users(k, c, rule)
\* The entry a login is checked against: the user's own, or any when it is unknown.
Entry(k, c, rule) ==
    LET us == Users(k, c, rule)
    IN  IF Known(k, c, rule) THEN us[k.st[c].login.user] ELSE us[CHOOSE u \in DOMAIN us : TRUE]
cache_key(k, c, rule) == <<k.st[c].login, Entry(k, c, rule).hash>>
Until(now, expires) == IF expires # 0 /\ expires < now + setting.keep THEN expires ELSE now + setting.keep

cache_find(k, key) == \E e \in k.cache : e.key = key /\ e.until > k.ws.now
\* A set of the cache holds kWays entries; the oldest gives way.
cache_insert(k, key, until) ==
    LET kept == {e \in k.cache : e.key # key}
        full == IF Cardinality(kept) < setting.ways THEN kept
                ELSE kept \ {CHOOSE e \in kept : \A f \in kept : e.until <= f.until}
    IN  [k EXCEPT !.cache = full \cup {[key |-> key, until |-> until]}]

strip(t, rule) == IF rule.strip THEN [t EXCEPT !.login = NoLogin] ELSE t
Allow(k, c, rule) == [k EXCEPT !.st[c] = strip([@ EXCEPT !.user = k.st[c].login.user], rule)]
remember(k, c, rule, expires) ==
    [k EXCEPT !.memo[Conn(c)] = [login |-> k.st[c].login, id |-> <<Gen(k, c), rule.area>>, until |-> Until(k.ws.now, expires)]]
\* Mutant: the connection's remembered login outlives the password file it was verified by.
MemoHit_stale(k, c, rule) ==
    LET m == k.memo[Conn(c)]
    IN  k.st[c].login # NoLogin /\ k.ws.now < m.until /\ m.login = k.st[c].login /\ k.st[c].result = "none"
MemoHit(k, c, rule) ==
    LET m == k.memo[Conn(c)]
    IN  /\ k.st[c].login # NoLogin /\ m.id = <<Gen(k, c), rule.area>> /\ k.ws.now < m.until
        /\ m.login = k.st[c].login /\ k.st[c].result = "none"
InClear(t, rule) ==
    /\ ~rule.plain
    /\ IF t.conn.trusted THEN ~t.conn.fwd /\ t.conn.client # "local" ELSE ~t.req.tls /\ t.req.peer # "local"
Expired(u, now) == u.expires # 0 /\ now >= u.expires
CacheHit(k, c, rule) ==
    /\ Known(k, c, rule) /\ ~Entry(k, c, rule).locked /\ ~Expired(Entry(k, c, rule), k.ws.now)
    /\ cache_find(k, cache_key(k, c, rule))
Remembered(k, c, rule) ==
    Allow(remember(k, c, rule, IF Known(k, c, rule) THEN Entry(k, c, rule).expires ELSE 0), c, rule)

\* The job of a login that is verified on the pool, and its way there.
\* Mutant: a login the full pool turns away stays counted.
submit_counted(k, j) ==
    IF Len(k.queue) >= setting.queue THEN [k EXCEPT !.posted = Append(@, [j EXCEPT !.result = "busy"])]
    ELSE [k EXCEPT !.queue = Append(@, j)]
submit(k, j) ==
    IF Len(k.queue) >= setting.queue
    THEN [k EXCEPT !.inflight = @ - 1, !.posted = Append(@, [j EXCEPT !.result = "busy"])]
    ELSE [k EXCEPT !.queue = Append(@, j)]
start_auth(k, c, rule) ==
    LET u == Entry(k, c, rule)
        known == Known(k, c, rule)
    IN  submit([k EXCEPT !.st[c].at = "auth", !.inflight = @ + 1],
               [c |-> c, n |-> k.st[c].n, result |-> "none", key |-> cache_key(k, c, rule), known |-> known,
                locked |-> known /\ u.locked, expires |-> IF known THEN u.expires ELSE 0, ok |-> u.pw = k.st[c].login.pw])

Protect(k, c, rule) ==
    [k EXCEPT !.st[c].req.claims = IF rule.forward THEN @ \ {"user"} ELSE @, !.st[c].forward = @ \/ rule.forward]
Verify(k, c, rule) ==
    IF CacheHit(k, c, rule) THEN Remembered(k, c, rule)
    ELSE IF k.inflight >= setting.inflight THEN error(k, c, 503)
    ELSE start_auth(k, c, rule)
Login(k, c, rule) ==
    CASE k.st[c].result = "verified" -> Remembered(k, c, rule)
      [] k.st[c].result = "failed" -> error(k, c, 401)
      [] k.st[c].result = "busy" -> error(k, c, 503)
      [] OTHER -> Verify(k, c, rule)
Judge(k, c, rule) ==
    IF k.st[c].conn.client \in rule.skip THEN [k EXCEPT !.st[c].login = NoLogin]
    ELSE IF InClear(k.st[c], rule) THEN error(k, c, 403)
    ELSE IF MemoHit(k, c, rule) THEN Allow(k, c, rule)
    ELSE IF k.st[c].login.user \in {"", "malformed"} THEN error(k, c, 401)
    ELSE Login(k, c, rule)
check_auth(k, c, rule) == IF rule = NoRule THEN k ELSE Judge(Protect(k, c, rule), c, rule)
-----------------------------------------------------------------------------
(* Files (handlers/static.cpp)                                                *)
refused_by_name(loc, p) == (~loc.hidden /\ has_hidden_segment(p)) \/ Last(p) \in loc.deny
refused_request(owner, p) ==
    refuse_match(p) \/ (IF owner.kind = "static" THEN owner.closed \/ refused_by_name(owner, p) ELSE Last(p) \in owner.deny)

\* The index of the directory ws.path: its own, another location's or rule's, or none.
Indexed(p, index) == Append(Front(p), index)
SameRules(p, q) == rule_for(Site.access, p) = rule_for(Site.access, q) /\ rule_for(Site.auth, p) = rule_for(Site.auth, q)
\* Mutant: an index of the same location is served without a look at its own rules.
index_lookup_unruled(k, loc) ==
    LET p == k.ws.path
        served == SelectSeq(loc.index, LAMBDA i : IsFile(Indexed(p, i)) /\ ~refused_request(location(Indexed(p, i)), Indexed(p, i)))
    IN  IF served = <<>> THEN [found |-> "none", path |-> p, fs |-> p]
        ELSE LET q == Indexed(p, Head(served))
             IN  [found |-> IF location(q) # loc THEN "redirect" ELSE "file", path |-> IF location(q) # loc THEN q ELSE p, fs |-> q]
index_lookup(k, loc) ==
    LET p == k.ws.path
        served == SelectSeq(loc.index, LAMBDA i : IsFile(Indexed(p, i)) /\ ~refused_request(location(Indexed(p, i)), Indexed(p, i)))
    IN  IF served = <<>> THEN [found |-> "none", path |-> p, fs |-> p]
        ELSE LET q == Indexed(p, Head(served))
             IN  IF location(q) # loc \/ ~SameRules(p, q) THEN [found |-> "redirect", path |-> q, fs |-> q]
                 ELSE [found |-> "file", path |-> p, fs |-> q]

\* A file is served, or refused to a method the location does not serve (a 304 or a
\* range of it is an answer from the same file).
ServeFile(k, c, fs) ==
    IF k.st[c].allowed THEN Answer([k EXCEPT !.ws.fs = fs], c, [status |-> 200, by |-> "file", from |-> fs])
    ELSE error(k, c, 405)
ServeIndex(k, c, l) ==
    IF l.found = "redirect" THEN [k EXCEPT !.ws.path = l.path, !.ws.fs = l.fs, !.st[c].at = "again"]
    ELSE ServeFile(k, c, l.fs)
redirect_slash(k, c) ==
    redirect_answer(k, c, 301, Secure(k.st[c]), k.st[c].req.host, Append(k.ws.path, ""))
PlainDir(k, c, l) ==
    IF l.found # "none" THEN ServeIndex(k, c, l)
    ELSE error(k, c, IF ~k.st[c].allowed THEN 405 ELSE IF IsDirectory(l.path) THEN 403 ELSE 404)
PlainFile(k, c, p) ==
    IF IsFile(p) THEN ServeFile(k, c, p)
    ELSE IF IsDirectory(Append(p, "")) THEN redirect_slash(k, c)
    ELSE error(k, c, 404)
plain_lookup(k, c, l) == IF IsDir(k.ws.path) THEN PlainDir(k, c, l) ELSE PlainFile(k, c, k.ws.path)
StepTaken(p, l, step) ==
    CASE step.kind = "uri" -> ~IsDir(p) /\ IsFile(p)
      [] step.kind = "uri_dir" -> IF IsDir(p) THEN l.found # "none" ELSE IsDirectory(Append(p, ""))
      [] OTHER -> TRUE
TakeStep(k, c, l, step) ==
    CASE step.kind = "uri" -> ServeFile(k, c, k.ws.path)
      [] step.kind = "uri_dir" -> IF IsDir(k.ws.path) THEN ServeIndex(k, c, l) ELSE redirect_slash(k, c)
      [] step.kind = "status" -> error(k, c, step.status)
      [] OTHER -> [k EXCEPT !.ws.path = step.target, !.st[c].at = "again"]
try_files_lookup(k, c, l, taken) == IF taken = <<>> THEN error(k, c, 404) ELSE TakeStep(k, c, l, Head(taken))
Lookup(k, c, loc, l) ==
    IF loc.try = <<>> THEN plain_lookup(k, c, l)
    ELSE try_files_lookup(k, c, l, SelectSeq(loc.try, LAMBDA step : StepTaken(k.ws.path, l, step)))
serve_location(k, c, loc) ==
    IF loc.closed \/ refused_by_name(loc, k.ws.path) THEN error(k, c, 404)
    ELSE Lookup(k, c, loc, IF IsDir(k.ws.path) THEN index_lookup(k, loc) ELSE [found |-> "none", path |-> <<>>, fs |-> <<>>])
-----------------------------------------------------------------------------
(* Applications: FastCGI, CGI, proxy                                          *)
\* The client's own address and user fields, as far as they reach the origin.
build_head(t) == IF t.conn.trusted THEN t.req.claims \ {"real"} ELSE t.req.claims \ {"real", "cdn"}
\* The script's parameters are the worker's path at this moment.
launch(k, c) ==
    LET t == k.st[c]
    IN  CASE t.kind = "fastcgi" -> Answer(k, c, [status |-> 200, by |-> "script", from |-> k.ws.fs, params |-> k.ws.fs])
          [] t.kind = "cgi" -> Answer(k, c, [status |-> 200, by |-> "script", from |-> t.script, params |-> k.ws.fs])
          [] OTHER -> Answer(k, c, [status |-> 200, by |-> "proxy", from |-> t.script, params |-> t.script, claims |-> build_head(t)])
collect_request_body(k, c, loc) ==
    IF k.st[c].req.body /\ loc.buffer THEN [k EXCEPT !.st[c].at = "body"] ELSE launch(k, c)
StartScript(k, c, loc, p) ==
    IF ~IsFile(p) THEN error([k EXCEPT !.ws.path = p, !.ws.fs = p], c, 404)
    ELSE collect_request_body([k EXCEPT !.ws.path = p, !.ws.fs = p, !.st[c].script = p, !.st[c].kind = loc.kind], c, loc)
fastcgi_start(k, c, loc) ==
    LET p == k.ws.path
        cut == IF php_end(p) # 0 THEN SubSeq(p, 1, php_end(p)) ELSE p
    IN  StartScript(k, c, loc, IF IsDir(cut) THEN Append(Front(cut), "index.php") ELSE cut)
resolve_script(p) ==
    LET q == IF IsDir(p) THEN Append(Front(p), "index.cgi") ELSE p IN IF cgi_end(q) = 0 THEN q ELSE SubSeq(q, 1, cgi_end(q))
cgi_start(k, c, loc) == StartScript(k, c, loc, resolve_script(k.ws.path))
proxy_start(k, c, loc) ==
    collect_request_body([k EXCEPT !.st[c].script = k.ws.path, !.st[c].kind = "proxy"], c, loc)
-----------------------------------------------------------------------------
(* The route of a request (Dispatcher::route and serve_static)                *)
Going(k, c) == k.st[c].at = "go"
\* One line a second names a refusal; the others are counted for the next.
LogRefusal(k) ==
    IF k.ws.now # k.log.at THEN [k EXCEPT !.log = [at |-> k.ws.now, held |-> 0, told |-> @.told + 1 + @.held, all |-> @.all + 1]]
    ELSE [k EXCEPT !.log.held = @ + 1, !.log.all = @ + 1]
admit(k, c) ==
    IF access_refuses(k.ws.path, k.st[c].conn.client) THEN error(LogRefusal(k), c, 403) ELSE k
check_method(k, c, loc) ==
    LET allowed == k.st[c].req.method \in loc.methods
        rescued == /\ loc.kind = "static" /\ k.st[c].req.method = "POST"
                   /\ IsDir(k.ws.path) \/ \E i \in DOMAIN loc.try : loc.try[i].kind = "fallback"
    IN  IF allowed \/ rescued THEN [k EXCEPT !.st[c].allowed = allowed] ELSE error(k, c, 405)

\* The name is one the site answers, the path one that can be read.
SiteStep(k, c) ==
    LET req == k.st[c].req
        norm == normalize_target(req.path)
        conn == apply_site_trust(apply_forwarded(req), req)
    IN  IF ~norm.ok THEN error(k, c, 400)
        ELSE IF ~Authority(req.host) THEN error([k EXCEPT !.ws.path = norm.path], c, 421)
        ELSE    [k EXCEPT !.ws.path = norm.path, !.st[c].path = norm.path, !.st[c].conn = conn,
                                !.st[c].fields = (req.tls \/ conn.fwd) /\ Site.hsts = "on"]
Validating(k, c) == ~Secure(k.st[c]) /\ certificate_validation(k.ws.path)
SchemeStep(k, c) ==
    IF Validating(k, c) THEN [k EXCEPT !.st[c].validation = Site.redirect]
    ELSE IF ~Secure(k.st[c]) /\ Site.redirect THEN redirect_https(k, c)
    ELSE redirect_host(k, c)
RuleStep(k, c) ==
    IF refuse_decide(k.ws.path) THEN error(k, c, 404)
    ELSE IF Validating(k, c) \/ redirect_match(k.ws.path, k.st[c].req) = NoRule THEN admit(k, c)
    ELSE answer_rule(k, c, redirect_match(k.ws.path, k.st[c].req), Secure(k.st[c]), k.st[c].req.host)
cors_preflight(req) == req.method = "OPTIONS" /\ req.preflight
AuthStep(k, c) ==
    IF cors_preflight(k.st[c].req) /\ location(k.ws.path).kind = "static" THEN k
    ELSE check_auth(k, c, auth_protecting_rule(k.ws.path))
Loc(k, c) == IF k.st[c].validation /\ k.st[c].hops = 0 THEN setting.validation ELSE location(k.ws.path)
Endings(k, c, loc) ==
    IF ~Going(k, c) THEN k
    ELSE IF loc.kind # "static" /\ Last(k.ws.path) \in loc.deny THEN error(k, c, 404)
    ELSE IF k.st[c].req.method = "OPTIONS" /\ loc.kind = "static" THEN Answer(k, c, [status |-> 204, by |-> "page"])
    ELSE k
LocationStep(k, c, loc) ==
    IF k.st[c].req.escaped /\ loc.kind # "proxy" THEN error(k, c, 404) ELSE Endings(check_method(k, c, loc), c, loc)
IfGoing(k, c, next) == IF Going(k, c) THEN next ELSE k
RouteFrom4(k, c) == IfGoing(k, c, LocationStep(k, c, Loc(k, c)))
RouteFrom3(k, c) == IfGoing(k, c, RouteFrom4(AuthStep(k, c), c))
RouteFrom2(k, c) == IfGoing(k, c, RouteFrom3(RuleStep(k, c), c))
RouteFrom1(k, c) == IfGoing(k, c, RouteFrom2(SchemeStep(k, c), c))
route(k, c) == RouteFrom1(SiteStep([k EXCEPT !.st[c].at = "go", !.st[c].hops = 0, !.st[c].validation = FALSE], c), c)

\* An internal redirect meets the rules of its own path, a bounded number of times.
Admitted(k, c) == IfGoing(k, c, check_auth(k, c, auth_protecting_rule(k.ws.path)))
Methods(k, c) == IfGoing(k, c, check_method(k, c, location(k.ws.path)))
Again(k, c) ==
    IF k.st[c].hops > setting.hops THEN error(k, c, 500)
    ELSE IF refuse_decide(k.ws.path) THEN error(k, c, 404)
    ELSE Methods(Admitted(admit(k, c), c), c)
Rerouted(k, c) ==
    IF k.st[c].at # "again" THEN k ELSE Again([k EXCEPT !.st[c].at = "go", !.st[c].hops = @ + 1], c)
serve_static(k, c, loc) == Rerouted(serve_location(k, c, loc), c)
Handle(k, c, loc) ==
    CASE loc.kind = "static" -> serve_static(k, c, loc)
      [] loc.kind = "fastcgi" -> fastcgi_start(k, c, loc)
      [] loc.kind = "cgi" -> cgi_start(k, c, loc)
      [] OTHER -> proxy_start(k, c, loc)
RECURSIVE Handlers(_, _)
Handlers(k, c) == IF Going(k, c) THEN Handlers(Handle(k, c, Loc(k, c)), c) ELSE k
dispatch(k, c) == Handlers(route(k, c), c)
-----------------------------------------------------------------------------
(* The worker, the pool that verifies passwords, the clients                  *)
NoRequest == [path |-> Root, host |-> "", tls |-> FALSE, peer |-> "", xff |-> <<>>, proto |-> "", method |-> "GET",
              body |-> FALSE, login |-> NoLogin, query |-> {}, escaped |-> FALSE, preflight |-> FALSE, claims |-> {}]
Idle == [at |-> "idle", req |-> NoRequest, path |-> Root, conn |-> [client |-> "", fwd |-> FALSE, trusted |-> FALSE],
         fields |-> FALSE, validation |-> FALSE, allowed |-> TRUE, hops |-> 0, login |-> NoLogin, result |-> "none",
         user |-> "", forward |-> FALSE, kind |-> "", script |-> <<>>, ans |-> NoAnswer,
         n |-> 0, asked |-> 0, follows |-> 0, first |-> "", learned |-> {}, since |-> 0]

Begin(t, req, g) ==
    [Idle EXCEPT !.at = "go", !.req = req, !.login = req.login, !.n = t.n + 1, !.asked = t.asked, !.follows = t.follows,
                 !.first = t.first, !.learned = t.learned, !.since = g]
start_request(k, c, req) ==
    dispatch([k EXCEPT !.gen[Conn(c)] = k.cur, !.ws.now = k.now, !.st[c] = Begin(@, req, k.cur)], c)
Ask(c) ==
    /\ s.st[c].at \in {"idle", "answered"} /\ s.st[c].ans.to = <<>> /\ s.st[c].asked < setting.again
    /\ \E req \in setting.asks[c] :
          s' = start_request([s EXCEPT !.st[c].asked = @ + 1, !.st[c].follows = 0, !.st[c].first = req.host,
                                       !.st[c].learned = {}], c, req)
\* A client follows a redirect, remembering what its answer says of HTTPS.
Followed(req, to) ==
    IF req.peer \in setting.trusted
    THEN [req EXCEPT !.path = to.path, !.host = to.host, !.proto = IF to.https THEN "https" ELSE "http", !.query = {}]
    ELSE [req EXCEPT !.path = to.path, !.host = to.host, !.tls = to.https, !.query = {}]
Learned(t) == IF t.ans.hsts THEN t.learned \cup {t.req.host} ELSE t.learned
Follow(c) ==
    /\ s.st[c].at = "answered" /\ s.st[c].ans.to # <<>> /\ s.st[c].follows < setting.follows
    /\ s' = start_request([s EXCEPT !.st[c].follows = @ + 1, !.st[c].learned = Learned(s.st[c])], c,
                           Followed(s.st[c].req, Head(s.st[c].ans.to)))

\* A thread of the pool takes a job and, later, ends it; the result is posted to the worker.
Take ==
    /\ s.queue # <<>> /\ Cardinality(s.running) < setting.threads
    /\ s' = [s EXCEPT !.queue = Tail(@), !.running = @ \cup {Head(s.queue)}]
Hashed == \E j \in s.running : s' = [s EXCEPT !.running = @ \ {j}, !.posted = Append(@, j)]
Verdict(j, now) == IF j.known /\ ~j.locked /\ j.ok /\ ~Expired(j, now) THEN "verified" ELSE "failed"
\* The request goes on with the verdict, unless it ended meanwhile.
done(k, j, result) ==
    IF k.st[j.c].n # j.n \/ k.st[j.c].at # "auth" THEN k ELSE dispatch([k EXCEPT !.st[j.c].result = result], j.c)
Settled(k, j) == IF Verdict(j, k.now) = "verified" THEN cache_insert(k, j.key, Until(k.now, j.expires)) ELSE k
Finish ==
    /\ s.posted # <<>>
    /\ LET j == Head(s.posted)
           k == [s EXCEPT !.posted = Tail(@)]
       IN  s' = IF j.result = "busy" THEN done(k, j, "busy")
                ELSE done(Settled([k EXCEPT !.inflight = @ - 1], j), j, Verdict(j, k.now))

BodyEnds(c) == s.st[c].at = "body" /\ s' = launch(s, c)
SpillFails(c) == s.st[c].at = "body" /\ setting.spills /\ s' = error(s, c, 502)
\* The client goes away: what was pending for it finds another request number.
Close(c) ==
    /\ s.st[c].at \in {"auth", "body"} /\ setting.closes
    /\ s' = [s EXCEPT !.st[c] = [Idle EXCEPT !.n = s.st[c].n + 1, !.asked = s.st[c].asked]]
\* A second passes; the worker's tick, some time in it, tells the refusals still counted.
access_log_tick(k) ==
    IF k.log.held > 0 /\ k.now # k.log.at
    THEN [k EXCEPT !.log = [@ EXCEPT !.at = k.now, !.told = @ + k.log.held, !.held = 0]] ELSE k
Tick == s.now < setting.end /\ s' = [s EXCEPT !.now = @ + 1]
LogTick == access_log_tick(s) # s /\ s' = access_log_tick(s)
\* A reload loads the password files again; a connection takes them at its next request.
Reload ==
    /\ s.cur < Len(setting.users)
    /\ s' = [s EXCEPT !.cur = @ + 1]

Init ==
    /\ setting \in Settings
    /\ s = [st |-> [c \in Streams |-> Idle], ws |-> [path |-> Root, fs |-> Root, now |-> 0],
            gen |-> [c \in Streams |-> 1], memo |-> [c \in Streams |-> NoMemo], cur |-> 1, now |-> 1, inflight |-> 0,
            cache |-> {}, queue |-> <<>>, running |-> {}, posted |-> <<>>,
            log |-> [at |-> 0, held |-> 0, told |-> 0, all |-> 0]]
Next ==
    /\ UNCHANGED setting
    /\ \/ \E c \in Streams : Ask(c) \/ Follow(c) \/ BodyEnds(c) \/ SpillFails(c) \/ Close(c)
       \/ Take \/ Hashed \/ Finish \/ Tick \/ LogTick \/ Reload
Spec == Init /\ [][Next]_vars
-----------------------------------------------------------------------------
(* Properties                                                                 *)
Answered(c) == s'.st[c].at = "answered" /\ s'.st[c] # s.st[c]
\* The login is one the password file of some generation of this request accepts.
Right(login, u, now) == u.pw = login.pw /\ ~u.locked /\ ~Expired(u, now)
RightIn(g, r, t, now) ==
    LET us == setting.users[g][r.area]
    IN  t.req.login.user \in DOMAIN us /\ Right(t.req.login, us[t.req.login.user], now)
Asking(p) == LET r == rule_for(Site.auth, p) IN IF r # NoRule /\ ~r.open THEN {r} ELSE {}
Restricting(p) == LET r == rule_for(Site.access, p) IN IF r # NoRule /\ ~r.report THEN {r} ELSE {}
Served(a) == IF a.by = "proxy" THEN {a.from} \cup Range(other_readings(a.from)) ELSE {a.from}

\* Whatever path led to a file or a script (a directory's index, a try_files fallback, path
\* info, another reading of the path by an origin), the answer obeys the rules of what is
\* served: it is not refused, the client's address is allowed, and the password its rule asks
\* was right, in a generation of the password file of the request's own time, and came over a
\* safe link (Dispatcher::route and serve_static, StaticHandler::index_lookup).
RulesKept ==
    \A c \in Streams : Answered(c) /\ s'.st[c].ans.by \in {"file", "script", "proxy"} =>
        LET t == s'.st[c]
        IN  \A p \in Served(t.ans) :
              /\ ~refuse_match(p)
              /\ \A r \in Restricting(p) : t.conn.client \in r.allow
              /\ \A r \in Asking(p) :
                    \/ t.conn.client \in r.skip
                    \/ /\ \E g \in t.since .. s'.gen[Conn(c)] : RightIn(g, r, t, s'.ws.now)
                       /\ r.plain \/ Secure(t) \/ "local" \in {t.conn.client, t.req.peer}

\* A login that every generation of the request's time accepts is never challenged again
\* (Dispatcher::check_auth: the memo, the cache and the verdict all let it in).
RightServed ==
    \A c \in Streams : Answered(c) /\ s'.st[c].ans.status = 401 =>
        \E r \in Site.auth : ~r.open /\ \E g \in s'.st[c].since .. s'.gen[Conn(c)] : ~RightIn(g, r, s'.st[c], s'.now)

\* The verifications counted in flight are the jobs on the pool or on their way back, never
\* more than the limit, and every request that waits for one has its own (start_auth, submit).
Jobs(k) == k.running \cup Range(k.queue) \cup Range(k.posted)
PoolCounted ==
    /\ s.inflight = Cardinality(s.running) + Len(s.queue) + Cardinality({i \in DOMAIN s.posted : s.posted[i].result # "busy"})
    /\ s.inflight <= setting.inflight
    /\ \A c \in Streams : s.st[c].at = "auth" => \E j \in Jobs(s) : j.c = c /\ j.n = s.st[c].n

\* A client that follows the site's redirects arrives: the scheme, the canonical name, a path
\* rule and a directory's slash never send it round, and with hsts on it has learned HTTPS for
\* the name it first asked (redirect_https, redirect_host, path_rule, redirect_slash).
RedirectsEnd ==
    \A c \in Streams :
        LET t == s.st[c]
        IN  /\ t.at = "answered" /\ t.ans.to # <<>> => t.follows < setting.follows
            /\ (t.at = "answered" /\ t.ans.by \in {"file", "script", "proxy"} /\ Site.hsts = "on" /\ Site.redirect
                /\ listed_name(t.first) /\ ~certificate_validation(t.path)) => t.first \in Learned(t)

\* Over plain HTTP certificate validation gets the site's files and nothing else, on every name
\* of the site: no redirect and no application (certificate_validation, SiteConfig::validation).
ValidationKept ==
    \A c \in Streams :
        LET t == s.st[c]
        IN  t.at = "answered" /\ Site.redirect /\ certificate_validation(t.path) /\ ~Secure(t) => t.ans.by \in {"file", "page"}

\* The origin sees a client's own claim of its address only from a proxy the site trusts, and
\* never a user name the client chose where a password rule names the user (build_head).
ClaimsTrusted ==
    \A c \in Streams :
        LET t == s.st[c]
        IN  t.at = "answered" /\ t.ans.by = "proxy" =>
                /\ "cdn" \in t.ans.claims => t.req.peer \in setting.trusted /\ (Site.trusted = {} \/ t.req.peer \in Site.trusted)
                /\ "user" \in t.ans.claims => \A r \in Asking(t.ans.from) : ~r.forward

\* Every refusal by address is told by a line of its own or counted in a later one.
RefusalsTold == s.log.told + s.log.held = s.log.all

\* A script runs with its own request's parameters, however long its body took
\* (FcgiHandler::start, CgiHandler::start).
ParamsOwn == \A c \in Streams : s.st[c].ans.by = "script" => s.st[c].ans.params = s.st[c].script

Held == PoolCounted /\ RedirectsEnd /\ ValidationKept /\ ClaimsTrusted /\ RefusalsTold
Step == Held' /\ RulesKept /\ RightServed
=============================================================================
