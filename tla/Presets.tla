------------------------------ MODULE Presets -------------------------------
(* What a site answers a path with, from its preset and its rules: the rules  *)
(* a control client gives (check_rules), the locations they are rendered as,  *)
(* the ones a preset adds (apply_preset), the openings and the order of       *)
(* finalize_site, and then the worker's choice for one GET (Router::location, *)
(* the refusals by name, try_files, the index, the script) beside the         *)
(* description path_check gives of the same GET.                              *)
(*                                                                            *)
(* A path is the sequence of its segments, a directory's ending in "".  Of    *)
(* the lists of endings and names each kind keeps one or two members.  The    *)
(* answers to clients outside the address rules are Requests' matter; here    *)
(* only which rules are asked.                                                *)
EXTENDS Integers, Sequences, FiniteSets, SequencesExt, FiniteSetsExt

CONSTANTS Settings

VARIABLES
    s,        \* the site as loaded, the last path asked for and its answers
    setting   \* the application, the rules, the files: no step changes it

vars == <<s, setting>>

Root == <<"">>
IsDir(p) == Last(p) = ""
Below(p, dir) == Len(p) > Len(Front(dir)) /\ IsPrefix(Front(dir), p) /\ p # dir
Under(p, dir) == p = dir \/ Below(p, dir)
NoPath == <<>>
-----------------------------------------------------------------------------
(* Names: the stem, whether a dot follows it, a leading mark, the ending as   *)
(* refused_suffix reads it, and whether the name is spelled as a script.      *)
Named(stem, ending, script) == [stem |-> stem, dot |-> TRUE, marked |-> FALSE, ending |-> ending, script |-> script]
Plain(seg) == [stem |-> seg, dot |-> FALSE, marked |-> FALSE, ending |-> "", script |-> FALSE]
Scripts == [index |-> "index.php", x |-> "x.php", config |-> "wp-config.php", db |-> "db.php", update |-> "update.php",
            autoload |-> "autoload.php", stats |-> "statistics.php", login |-> "wp-login.php", ajax |-> "admin-ajax.php",
            install |-> "install.php"]
Spelled(seg) ==
    IF \E n \in DOMAIN Scripts : Scripts[n] = seg
    THEN Named(CHOOSE n \in DOMAIN Scripts : Scripts[n] = seg, ".php", TRUE)
    ELSE CASE seg \in {"x.PHP", "x.php."} -> Named("x", ".php", FALSE)
           [] seg = "x.phtml" -> Named("x", ".phtml", FALSE)
           [] seg \in {"x.bak", "x.inc"} -> Named("x", ".bak", FALSE)
           [] seg = "x.module" -> Named("x", ".module", FALSE)
           [] seg = "x.yaml" -> Named("x", ".yaml", FALSE)
           [] seg = "security.yaml" -> Named("security", ".yaml", FALSE)
           [] seg = "x.png" -> Named("x", ".png", FALSE)
           [] seg = "x.key" -> Named("x", ".key", FALSE)
           [] seg = "index.html" -> Named("index", ".html", FALSE)
           [] seg = "wp-config.txt" -> Named("config", ".txt", FALSE)
           [] seg = "wp-config.php~" -> Named("config", "~", FALSE)
           [] seg = ".wp-config.php.swp" -> [Named("config", ".swp", FALSE) EXCEPT !.marked = TRUE]
           [] seg = "#wp-config" -> [Plain("config") EXCEPT !.marked = TRUE]
           [] seg = "wp-config" -> Plain("config")
           [] seg = "db.txt" -> Named("db", ".txt", FALSE)
           [] OTHER -> Plain(seg)
has_hidden_segment(p) == \E i \in DOMAIN p : p[i] \in {".wp-config.php.swp", ".env", ".git"}

kPhpSuffixes == {".php", ".phtml"}
kSourceBackups == {".bak", "~", ".swp"}
kDrupalSource == kSourceBackups \cup {".module", ".yaml"}
kGravUserDeny == {".txt", ".yaml"}
kGravAvatars == {".png"}
ProxyEndings(app) ==
    CASE app \in {"rails", "django"} -> {".key"} [] app = "node" -> {".key", ".bak"} [] OTHER -> {}
ProxyRefused(app) ==
    CASE app = "rails" -> {<<"config", "master.key">>, <<"storage", "">>}
      [] app = "django" -> {<<"manage.py">>, <<".git", "">>, <<"media", "documents", "">>}
      [] app = "node" -> {<<"package.json">>, <<"node_modules", "">>}
      [] OTHER -> {}
proxy_app(app) == app \in {"proxy", "rails", "django", "node"}
php_app(app) == app \in {"php", "laravel", "drupal", "wordpress", "grav"}

Shield(path, fallback, extra, allow) == [path |-> path, fallback |-> fallback, extra |-> extra, allow |-> allow]
Preset(index, front, any, refuse, shields, never, never_dirs) ==
    [index |-> index, front |-> front, any |-> any, refuse |-> refuse, shields |-> shields, never |-> never,
     never_dirs |-> never_dirs, php_dirs |-> {}, entries |-> {}]
kPhpPresets(app) ==
    CASE app = "php" -> Preset(<<"index.php", "index.html">>, FALSE, TRUE, kSourceBackups, {}, {}, {})
      [] app = "laravel" -> Preset(<<"index.php">>, TRUE, FALSE, kSourceBackups, {Shield(<<"build", "">>, FALSE, {}, {})}, {}, {})
      [] app = "drupal" ->
           [Preset(<<"index.php">>, TRUE, TRUE, kDrupalSource,
                   {Shield(<<"vendor", "">>, FALSE, {}, {}), Shield(<<"files", "">>, TRUE, {}, {})},
                   {<<"autoload.php">>, <<"sites", "x.yaml">>}, {})
            EXCEPT !.php_dirs = {Root, <<"core", "">>}, !.entries = {<<"core", "modules", "statistics.php">>}]
      [] app = "wordpress" ->
           Preset(<<"index.php">>, TRUE, TRUE, kSourceBackups,
                  {Shield(<<"uploads", "">>, FALSE, {}, {}), Shield(<<"wp-admin", "css", "">>, FALSE, {}, {})},
                  {<<"wp-config.php">>, <<"wp-content", "db.php">>}, {<<"wp-admin", "includes", "">>})
      [] app = "grav" ->
           Preset(<<"index.php">>, TRUE, FALSE, kSourceBackups,
                  {Shield(<<"user", "">>, FALSE, kGravUserDeny, {}),
                   Shield(<<"user", "accounts", "">>, FALSE, kGravUserDeny, kGravAvatars),
                   Shield(<<"images", "">>, TRUE, {}, {})},
                  {<<"user", "config", "security.yaml">>}, {<<"logs", "">>, <<"user", "config", "">>})
      [] OTHER -> Preset(<<"index.html">>, FALSE, FALSE, {}, {}, {}, {})
preset_admin_paths(app) ==
    CASE app = "wordpress" -> {[path |-> <<"wp-admin">>, exact |-> FALSE, login |-> FALSE],
                               [path |-> <<"wp-login.php">>, exact |-> TRUE, login |-> TRUE]}
      [] app = "drupal" -> {[path |-> <<"admin">>, exact |-> FALSE, login |-> FALSE],
                            [path |-> <<"core", "install.php">>, exact |-> TRUE, login |-> FALSE]}
      [] OTHER -> {}
-----------------------------------------------------------------------------
(* Refusals by name (handlers/static.hpp, core/refuse.hpp)                    *)
\* Mutant: the trailing dots and the case of an ending count.
refused_suffix_spelled(p, deny) ==
    ~IsDir(p) /\ Spelled(Last(p)).ending \in deny /\ Last(p) \notin {"x.PHP", "x.php."}
refused_suffix(p, deny) == ~IsDir(p) /\ Spelled(Last(p)).ending \in deny

protected_name(path) == [dir |-> Front(path), stem |-> Spelled(Last(path)).stem]
\* Mutant: a mark before the name hides it.
backup_of_protected_unmarked(p, names) ==
    /\ ~IsDir(p) /\ ~Spelled(Last(p)).marked
    /\ \E n \in names : Front(p) = n.dir /\ Spelled(Last(p)).stem = n.stem /\ Spelled(Last(p)).dot
backup_of_protected(p, names) ==
    /\ ~IsDir(p)
    /\ \E n \in names : /\ Front(p) = n.dir /\ Spelled(Last(p)).stem = n.stem
                        /\ Spelled(Last(p)).dot \/ Spelled(Last(p)).marked

\* A pattern names a directory or an ending.
refuse_match(refuse, p) == \E r \in refuse : (r.dir # NoPath /\ Under(p, r.dir)) \/ refused_suffix(p, r.endings)
\* Where the script ends in a path with path info, 0 without one.
php_end(p) ==
    LET ends == {i \in 1 .. Len(p) - 1 : Spelled(p[i]).script} IN IF ends = {} THEN 0 ELSE Min(ends)
refuse_decide(refuse, p) ==
    \/ refuse_match(refuse, p)
    \/ php_end(p) # 0 /\ refuse_match(refuse, SubSeq(p, php_end(p) + 1, Len(p)))
-----------------------------------------------------------------------------
(* The rules a control client gives (control/sites.cpp)                       *)
php_ending(p) == ~IsDir(p) /\ Spelled(Last(p)).ending \in kPhpSuffixes /\ Last(p) \notin {"x.PHP", "x.php."}
InPrivate(body, p) == \E q \in body.private : p = q \/ (IsDir(q) /\ Under(p, q))
admin_rules(app, admin) ==
    IF ~admin.given THEN {}
    ELSE {[path |-> a.path, exact |-> a.exact, any |-> FALSE] :
              a \in {b \in preset_admin_paths(app) : b.login => admin.login}}
StaticSite(app) == app \in {"", "static"}
\* Mutant: a cached directory may lie under a private path.
CacheFits_private(app, body) ==
    /\ body.cache # {} => php_app(app) \/ StaticSite(app)
    /\ \A c \in body.cache : IsDir(c) /\ ~\E d \in kPhpPresets(app).never_dirs : Under(c, d)
CacheFits(app, body) ==
    /\ body.cache # {} => php_app(app) \/ StaticSite(app)
    /\ \A c \in body.cache : /\ IsDir(c) /\ ~InPrivate(body, c)
                             /\ ~\E d \in kPhpPresets(app).never_dirs : Under(c, d)
\* Mutant: an entry point may lie under a private path.
EntriesFit_private(app, body) ==
    /\ body.entry_points # {} => php_app(app)
    /\ \A e \in body.entry_points : php_ending(e) /\ ~refuse_match(body.refuse, e)
EntriesFit(app, body) ==
    /\ body.entry_points # {} => php_app(app)
    /\ \A e \in body.entry_points : php_ending(e) /\ ~InPrivate(body, e) /\ ~refuse_match(body.refuse, e)
AccessFits(app, body) ==
    /\ body.admin.given => preset_admin_paths(app) # {}
    /\ \A a \in admin_rules(app, body.admin), r \in body.restricted : a.path = r.path => a.exact # r.exact
check_rules(app, body) ==
    /\ AccessFits(app, body)
    /\ EntriesFit(app, body)
    /\ CacheFits(app, body)
    /\ body.front # NoPath => php_app(app) /\ body.front \in body.entry_points
-----------------------------------------------------------------------------
(* Locations: the ones written, the ones the preset adds (config.cpp)         *)
Try(kinds) == [i \in DOMAIN kinds |-> [kind |-> kinds[i], to |-> NoPath]]
TryOrGo(kinds, to) == Append(Try(kinds), [kind |-> "fallback", to |-> to])
NotFound == Try(<<"404">>)
\* A location as parse_location leaves it, with the site's index.
Location(path, match, kind, try, app) ==
    [path |-> path, match |-> match, final |-> FALSE, kind |-> kind, denies |-> FALSE, deny |-> {}, allow |-> {},
     protects |-> {}, try |-> try, index |-> kPhpPresets(app).index, origin |-> "site", dir |-> NoPath]
Deny(path, match, app) == [Location(path, match, "static", NotFound, app) EXCEPT !.denies = TRUE]
Final(l) == [l EXCEPT !.final = TRUE]
PhpSuffix == <<".php">>

\* The site's try_files as the file gives it: the rule's front controller.
SiteTry(body) == IF body.front = NoPath THEN <<>> ELSE TryOrGo(<<"uri", "dir">>, body.front)
\* Mutant: a private directory is not final.
rule_locations_open(app, body) ==
    {Deny(p, IF IsDir(p) THEN "prefix" ELSE "exact", app) : p \in body.private}
    \cup {Location(e, "exact", "fastcgi", SiteTry(body), app) : e \in body.entry_points}
    \cup (IF body.entry_points = {} THEN {} ELSE {Deny(PhpSuffix, "suffix", app)})
    \cup {[Final(Location(c, "prefix", "static", SiteTry(body), app)) EXCEPT !.deny = kPhpSuffixes \cup kSourceBackups] :
              c \in body.cache}
rule_locations(app, body) ==
    {IF IsDir(p) THEN Final(Deny(p, "prefix", app)) ELSE Deny(p, "exact", app) : p \in body.private}
    \cup {Location(e, "exact", "fastcgi", SiteTry(body), app) : e \in body.entry_points}
    \cup (IF body.entry_points = {} THEN {} ELSE {Deny(PhpSuffix, "suffix", app)})
    \cup {[Final(Location(c, "prefix", "static", SiteTry(body), app)) EXCEPT !.deny = kPhpSuffixes \cup kSourceBackups] :
              c \in body.cache}

has(ls, path, match) == \E l \in ls : l.path = path /\ l.match = match
\* What of `new` the site did not write itself: a hand-written location wins.
Added(ls, new) == ls \cup {[l EXCEPT !.origin = "preset"] : l \in {m \in new : ~has(ls, m.path, m.match)}}
Served(path, app) == [Location(path, "prefix", "static", Try(<<"uri", "404">>), app) EXCEPT !.deny = ProxyEndings(app), !.index = <<>>]
ProxyLocations(app, ls) ==
    Added(ls, {[Location(Root, "prefix", "proxy", <<>>, app) EXCEPT !.deny = ProxyEndings(app)]}
              \cup (IF app = "django" THEN {Served(<<"static", "">>, app), Served(<<"media", "">>, app)} ELSE {})
              \cup {Deny(p, IF IsDir(p) THEN "prefix" ELSE "exact", app) : p \in ProxyRefused(app)})

\* What runs: every .php, those directly in the preset's directories, or /index.php alone.
Runs(app, try, pre) ==
    (IF ~pre.any THEN {Location(<<"index.php">>, "exact", "fastcgi", try, app)}
     ELSE IF pre.php_dirs = {} THEN {Location(PhpSuffix, "suffix", "fastcgi", try, app)}
     ELSE {[Location(PhpSuffix, "suffix", "fastcgi", try, app) EXCEPT !.dir = d] : d \in pre.php_dirs})
    \cup {Location(e, "exact", "fastcgi", try, app) : e \in pre.entries}
\* Mutant: the shields are ordinary prefixes.
Shields_weak(app, pre) ==
    {[Location(sh.path, "prefix", "static", Try(<<"uri", "404">>), app)
      EXCEPT !.deny = kPhpSuffixes \cup pre.refuse \cup sh.extra, !.allow = sh.allow] : sh \in pre.shields}
Shields(app, pre) ==
    {[Final(Location(sh.path, "prefix", "static",
                     IF sh.fallback /\ pre.front THEN TryOrGo(<<"uri">>, <<"index.php">>) ELSE Try(<<"uri", "404">>), app))
      EXCEPT !.deny = kPhpSuffixes \cup pre.refuse \cup sh.extra, !.allow = sh.allow] : sh \in pre.shields}
Nevers(app, pre) ==
    {Final(Deny(d, "prefix", app)) : d \in pre.never_dirs} \cup {Deny(Front(d), "exact", app) : d \in pre.never_dirs}
    \cup {Deny(p, "exact", app) : p \in pre.never}
\* A static prefix the site wrote below a shield keeps the shield's refusals.
Owner(pre, l) ==
    LET over == {sh \in pre.shields : Below(l.path, sh.path) /\ l.path # sh.path}
    IN  CHOOSE sh \in over : \A o \in over : Len(sh.path) >= Len(o.path)
Below_shield(pre, l) ==
    /\ l.match = "prefix" /\ l.kind = "static" /\ ~l.denies /\ l.origin # "preset"
    /\ \E sh \in pre.shields : Below(l.path, sh.path)
\* Mutant: the shield's endings are not passed on.
Shielded_not(pre, l) == l
Shielded(pre, l) ==
    IF ~Below_shield(pre, l) THEN l
    ELSE [l EXCEPT !.deny = @ \cup kPhpSuffixes \cup pre.refuse \cup Owner(pre, l).extra,
                   !.allow = IF @ = {} THEN Owner(pre, l).allow ELSE @]
\* Mutant: only the preset's own locations refuse the backups.
Guarded_own(pre, l) ==
    IF l.kind = "static" /\ l.origin = "preset" THEN [l EXCEPT !.protects = {protected_name(p) : p \in pre.never}] ELSE l
Guarded(pre, l) ==
    IF l.kind = "static" THEN [l EXCEPT !.protects = {protected_name(p) : p \in pre.never}] ELSE l

PresetTry(pre) == IF pre.front THEN TryOrGo(<<"uri", "dir">>, <<"index.php">>) ELSE Try(<<"uri", "dir", "404">>)
RootLocation(app, try, pre) == [Location(Root, "prefix", "static", try, app) EXCEPT !.deny = kPhpSuffixes \cup pre.refuse]
PhpLocations(app, ls, try, pre) ==
    {Guarded(pre, Shielded(pre, l)) :
        l \in Added(ls, Runs(app, try, pre) \cup {RootLocation(app, try, pre)} \cup Shields(app, pre) \cup Nevers(app, pre))}
\* Whether a location lies where the preset never answers.
NeverHolds(app, ls) ==
    php_app(app) =>
        \A l \in ls : l.match = "prefix" /\ l.kind = "static" /\ ~l.denies
                          => ~\E d \in kPhpPresets(app).never_dirs : Below(l.path, d)
apply_preset(app, ls, try) ==
    IF StaticSite(app) THEN ls
    ELSE IF proxy_app(app) THEN ProxyLocations(app, ls)
    ELSE PhpLocations(app, ls, IF try = <<>> THEN PresetTry(kPhpPresets(app)) ELSE try, kPhpPresets(app))

\* finalize_site: the implicit "/", and what stays open below a restricted /wp-admin.
Implicit(app, ls, try) ==
    IF has(ls, Root, "prefix") THEN ls ELSE ls \cup {Location(Root, "prefix", "static", try, app)}
covers(r, p) == IF r.exact THEN p = r.path ELSE r.path = Root \/ IsPrefix(r.path, p)
Length(r) == IF r.path = Root THEN 0 ELSE Len(r.path)
NoRule == [path |-> NoPath, exact |-> FALSE, any |-> TRUE]
rule_for(rules, p) ==
    LET found == {r \in rules : covers(r, p)}
    IN  IF found = {} THEN NoRule
        ELSE CHOOSE r \in found : \A q \in found : IF Length(q) = Length(r) THEN r.exact \/ ~q.exact ELSE Length(q) < Length(r)
kWordPressOpenings ==
    {[path |-> <<"wp-admin", "admin-ajax.php">>, exact |-> TRUE, probe |-> <<"wp-admin", "admin-ajax.php">>],
     [path |-> <<"wp-admin", "css">>, exact |-> FALSE, probe |-> <<"wp-admin", "css", "x.png">>]}
\* Mutant: below a restricted /wp-admin they are open on a site restricted whole.
Openings_whole(app, rules) ==
    IF app # "wordpress" THEN {}
    ELSE {[path |-> o.path, exact |-> o.exact, any |-> TRUE] :
              o \in {q \in kWordPressOpenings : rule_for(rules, q.probe).path = <<"wp-admin">>}}
Openings(app, rules) ==
    IF app # "wordpress" \/ \E r \in rules : r.path = Root THEN {}
    ELSE {[path |-> o.path, exact |-> o.exact, any |-> TRUE] :
              o \in {q \in kWordPressOpenings : LET best == rule_for(rules, q.probe)
                                                IN  best.path = <<"wp-admin">> /\ ~best.exact /\ ~best.any}}
AccessRules(app, body) ==
    LET written == {[path |-> r.path, exact |-> r.exact, any |-> r.any] : r \in body.restricted} \cup admin_rules(app, body.admin)
    IN  written \cup Openings(app, written)
-----------------------------------------------------------------------------
(* The location of a path (core/router.hpp) and the rules asked for it        *)
suffix_hit(p) == \E i \in DOMAIN p : Spelled(p[i]).script
script_in(p, dir) ==
    LET end == Min({i \in DOMAIN p : Spelled(p[i]).script}) IN end = Len(dir) /\ IsPrefix(Front(dir), p)
Longest(ls) == CHOOSE l \in ls : \A m \in ls : Len(l.path) >= Len(m.path)
script_exact(l) == Spelled(Last(l.path)).script /\ php_end(l.path) = 0
exact_hit(l, p) == p = l.path \/ (script_exact(l) /\ Len(p) > Len(l.path) /\ IsPrefix(l.path, p))
location(locs, p) ==
    LET exact == {l \in locs : l.match = "exact" /\ exact_hit(l, p)}
        suffix == {l \in locs : l.match = "suffix" /\ suffix_hit(p) /\ (l.dir = NoPath \/ script_in(p, l.dir))}
        prefix == Longest({l \in locs : l.match = "prefix" /\ Under(p, l.path)})
    IN  IF exact # {} THEN Longest(exact)
        ELSE IF suffix # {} /\ ~prefix.final THEN CHOOSE l \in suffix : TRUE
        ELSE prefix

refused_by_name(l, p) ==
    \/ has_hidden_segment(p)
    \/ refused_suffix(p, l.deny)
    \/ l.allow # {} /\ ~refused_suffix(p, l.allow)
    \/ backup_of_protected(p, l.protects)
refused_request(site, l, p) ==
    \/ refuse_match(site.refuse, p)
    \/ IF l.kind = "static" THEN l.denies \/ refused_by_name(l, p) ELSE refused_suffix(p, l.deny)

ExactRules(site) == \E r \in site.access : r.exact /\ ~r.any
\* The script a path runs when that is not the path itself (access::script_of).
script_of(site, p) ==
    IF ~ExactRules(site) \/ (php_end(p) = 0 /\ ~IsDir(p)) \/ location(site.locs, p).kind # "fastcgi" THEN {}
    ELSE IF php_end(p) # 0 THEN {SubSeq(p, 1, php_end(p))}
    ELSE {Append(Front(p), Head(location(site.locs, p).index))}
Asked(site, p) == {r \in {rule_for(site.access, q) : q \in {p} \cup script_of(site, p)} : ~r.any}
-----------------------------------------------------------------------------
(* What a worker does with one GET (dispatch.cpp, static.cpp, fastcgi.cpp)    *)
IsDirectory(disk, p) == p = Root \/ \E f \in disk : Below(f, Append(p, "")) \/ (IsDir(p) /\ Below(f, p))
Reply(what, status, at) == [what |-> what, status |-> status, at |-> at, to |-> NoPath]
Missing == Reply("none", 404, NoPath)
GoTo(p) == [Reply("go", 0, NoPath) EXCEPT !.to = p]
NextStep == Reply("next", 0, NoPath)

\* Mutant: the index is chosen by existence alone.
Indexes_any(site, disk, l, p) == SelectSeq(l.index, LAMBDA i : Append(Front(p), i) \in disk)
Indexes(site, disk, l, p) ==
    SelectSeq(l.index, LAMBDA i : LET c == Append(Front(p), i)
                                  IN  c \in disk /\ ~refused_request(site, location(site.locs, c), c))
\* Mutant: the rule that decided the directory decides its index.
IndexAt_unasked(site, l, p, c) == IF location(site.locs, c) # l THEN GoTo(c) ELSE Reply("static", 200, c)
IndexAt(site, l, p, c) ==
    IF location(site.locs, c) # l \/ rule_for(site.access, c) # rule_for(site.access, p) THEN GoTo(c)
    ELSE Reply("static", 200, c)
index_lookup(site, disk, l, p, found) ==
    IF found = <<>> THEN NextStep ELSE IndexAt(site, l, p, Append(Front(p), Head(found)))
plain_lookup(site, disk, l, p, index) ==
    IF IsDir(p) THEN (IF index # NextStep THEN index ELSE IF IsDirectory(disk, p) THEN Reply("forbidden", 403, NoPath) ELSE Missing)
    ELSE IF p \in disk THEN Reply("static", 200, p)
    ELSE IF IsDirectory(disk, p) THEN Reply("redirect", 301, NoPath)
    ELSE Missing
TakeStep(disk, p, step, index) ==
    CASE step.kind = "uri" -> IF ~IsDir(p) /\ p \in disk THEN Reply("static", 200, p) ELSE NextStep
      [] step.kind = "dir" -> IF IsDir(p) THEN index
                              ELSE IF IsDirectory(disk, p) THEN Reply("redirect", 301, NoPath) ELSE NextStep
      [] step.kind = "404" -> Missing
      [] step.kind = "fallback" -> GoTo(step.to)
try_files_lookup(disk, l, p, index) ==
    LET taken == SelectSeq([i \in DOMAIN l.try |-> TakeStep(disk, p, l.try[i], index)], LAMBDA r : r # NextStep)
    IN  IF taken = <<>> THEN Missing ELSE Head(taken)
Lookup(site, disk, l, p, index) ==
    IF l.try = <<>> THEN plain_lookup(site, disk, l, p, index) ELSE try_files_lookup(disk, l, p, index)
serve_location(site, disk, l, p) ==
    IF ~site.rooted \/ refused_by_name(l, p) THEN Missing
    ELSE Lookup(site, disk, l, p, IF IsDir(p) THEN index_lookup(site, disk, l, p, Indexes(site, disk, l, p)) ELSE NextStep)

Script(l, p) ==
    LET q == IF php_end(p) = 0 THEN p ELSE SubSeq(p, 1, php_end(p))
    IN  IF IsDir(q) THEN Append(Front(q), Head(l.index)) ELSE q
fastcgi_start(disk, l, p) == IF Script(l, p) \in disk THEN Reply("runs", 0, Script(l, p)) ELSE Missing
\* The endings another handler's location refuses are looked at for the path asked alone.
Handle(site, disk, l, p, hop) ==
    IF l.kind # "static" /\ hop = 0 /\ refused_suffix(p, l.deny) THEN Missing
    ELSE CASE l.kind = "proxy" -> Reply("proxied", 0, p)
           [] l.kind = "fastcgi" -> fastcgi_start(disk, l, p)
           [] l.kind = "static" -> serve_location(site, disk, l, p)

kMaxInternalRedirects == 8
RECURSIVE Serve(_, _, _, _, _)
ServeOn(site, disk, r, hop, asked) ==
    IF r.what # "go" THEN [r |-> r, asked |-> asked]
    ELSE IF hop >= kMaxInternalRedirects THEN [r |-> Reply("error", 500, NoPath), asked |-> asked]
    ELSE Serve(site, disk, r.to, hop + 1, asked)
\* One turn: the refused paths and the address rules first, whichever location would serve it.
Serve(site, disk, p, hop, asked) ==
    IF refuse_decide(site.refuse, p) THEN [r |-> Missing, asked |-> asked]
    ELSE ServeOn(site, disk, Handle(site, disk, location(site.locs, p), p, hop), hop, asked \cup Asked(site, p))
-----------------------------------------------------------------------------
(* What path_check says of the same GET (control/commands.cpp)                *)
ToldIndex(site, disk, l, p, found) ==
    IF found = <<>> THEN NextStep ELSE IndexAt(site, l, p, Append(Front(p), Head(found)))
ToldStatic(site, disk, l, p, index) ==
    IF refused_by_name(l, p) THEN Missing
    ELSE IF l.try = <<>>
    THEN (IF IsDir(p) THEN (IF index # NextStep THEN index
                            ELSE IF IsDirectory(disk, p) THEN Reply("forbidden", 403, NoPath) ELSE Missing)
          ELSE IF p \in disk THEN Reply("static", 200, p)
          ELSE IF IsDirectory(disk, p) THEN Reply("redirect", 301, NoPath)
          ELSE Missing)
    ELSE try_files_lookup(disk, l, p, index)
ToldAt(site, disk, l, p) ==
    IF l.kind # "static" /\ refused_suffix(p, l.deny) THEN Missing
    ELSE CASE l.kind = "proxy" -> Reply("proxied", 0, p)
           [] l.kind = "fastcgi" -> fastcgi_start(disk, l, p)
           [] l.kind = "static" ->
                ToldStatic(site, disk, l, p,
                           IF IsDir(p) THEN ToldIndex(site, disk, l, p, Indexes(site, disk, l, p)) ELSE NextStep)
\* The rule it names: the path's, or its script's where the path's is open to anyone.
ToldRule(site, p) ==
    LET own == rule_for(site.access, p)
    IN  IF ~own.any THEN {own} ELSE {r \in {rule_for(site.access, q) : q \in script_of(site, p)} : ~r.any}
RECURSIVE path_check(_, _, _, _, _)
ToldOn(site, disk, r, hop, rule) ==
    IF r.what # "go" THEN [r |-> r, rule |-> rule] ELSE path_check(site, disk, r.to, hop + 1, rule)
\* Mutant: the access rule is looked for on the path asked alone.
path_check_first(site, disk, p, hop, rule) ==
    IF hop > kMaxInternalRedirects THEN [r |-> Reply("error", 500, NoPath), rule |-> rule]
    ELSE IF refuse_decide(site.refuse, p) THEN [r |-> Missing, rule |-> rule]
    ELSE ToldOn(site, disk, ToldAt(site, disk, location(site.locs, p), p), hop, IF hop = 0 THEN ToldRule(site, p) ELSE rule)
path_check(site, disk, p, hop, rule) ==
    IF hop > kMaxInternalRedirects THEN [r |-> Reply("error", 500, NoPath), rule |-> rule]
    ELSE IF refuse_decide(site.refuse, p) THEN [r |-> Missing, rule |-> rule]
    ELSE ToldOn(site, disk, ToldAt(site, disk, location(site.locs, p), p), hop, IF rule = {} THEN ToldRule(site, p) ELSE rule)
-----------------------------------------------------------------------------
NoRules == [private |-> {}, entry_points |-> {}, cache |-> {}, front |-> NoPath, refuse |-> {}, restricted |-> {},
            admin |-> [given |-> FALSE, login |-> FALSE]]
Site(app, hand, body, rooted) ==
    [locs |-> Implicit(app, apply_preset(app, hand \cup rule_locations(app, body), SiteTry(body)), SiteTry(body)),
     access |-> AccessRules(app, body), refuse |-> body.refuse, rooted |-> rooted]
Hand == {[Location(h.path, h.match, h.kind, <<>>, setting.app) EXCEPT !.final = h.final] : h \in setting.hand}

\* A location written twice, by hand and by a rule.
Duplicated(hand, ruled) == \E h \in hand : has(ruled, h.path, h.match)
\* check_refuse_conflicts: no pattern refuses what the site serves on purpose.
check_refuse_conflicts(site) ==
    \A l \in site.locs :
        /\ l.match = "prefix" /\ l.path = Root => \A i \in Range(l.index) : ~refuse_match(site.refuse, <<i>>)
        /\ \A step \in Range(l.try) : step.kind = "fallback" => ~refuse_match(site.refuse, step.to)
        /\ l.match = "exact" /\ l.kind # "static" => ~refuse_match(site.refuse, l.path)
NoAnswer == [r |-> Missing, asked |-> {}]
NoAsk == [path |-> NoPath, there |-> FALSE]
Init ==
    /\ setting \in Settings
    /\ s = [phase |-> "given", site |-> Site("static", {}, NoRules, TRUE), bare |-> Site("static", {}, NoRules, TRUE),
            ask |-> NoAsk, got |-> NoAnswer, without |-> NoAnswer, told |-> [r |-> Missing, rule |-> {}]]

\* The change: the rules checked, the file rendered from them and loaded.
Refuse ==
    /\ s.phase = "given" /\ ~check_rules(setting.app, setting.body)
    /\ s' = [s EXCEPT !.phase = "refused"]
Load ==
    /\ s.phase = "given" /\ check_rules(setting.app, setting.body)
    /\ LET site == Site(setting.app, Hand, setting.body, setting.rooted)
           fits == /\ ~Duplicated(Hand, rule_locations(setting.app, setting.body))
                   /\ NeverHolds(setting.app, Hand \cup rule_locations(setting.app, setting.body))
                   /\ check_refuse_conflicts(site)
       IN  s' = IF fits THEN [s EXCEPT !.phase = "loaded", !.site = site, !.bare = Site(setting.app, Hand, NoRules, setting.rooted)]
                ELSE [s EXCEPT !.phase = "unloaded"]
\* A GET for a path, whose file is there or not, the description of it, and the answer
\* the site without its rules has at the address of what was answered.
Answered(p, there, disk, got) ==
    s' = [s EXCEPT !.ask = [path |-> p, there |-> there], !.got = got,
                   !.without = Serve(s.bare, disk, IF got.r.at = NoPath THEN p ELSE got.r.at, 0, {}),
                   !.told = path_check(s.site, disk, p, 0, {})]
Asks(p, there, disk) == Answered(p, there, disk, Serve(s.site, disk, p, 0, {}))
Ask(p, there) ==
    /\ s.phase = "loaded" /\ s.ask = NoAsk
    /\ Asks(p, there, IF there THEN setting.files \cup {p} ELSE setting.files \ {p})
Next ==
    /\ UNCHANGED setting
    /\ \/ Refuse
       \/ Load
       \/ \E p \in setting.paths, there \in BOOLEAN : (there => ~IsDir(p)) /\ Ask(p, there)
Spec == Init /\ [][Next]_vars
-----------------------------------------------------------------------------
Pre == kPhpPresets(setting.app)
At == s.got.r.at
Answers == s.phase = "loaded" /\ At # NoPath
WrittenAt(p) == has(Hand \cup rule_locations(setting.app, setting.body), p, "exact")
Replaced(dir) == has(Hand, dir, "prefix")
Ends(p, endings) == ~IsDir(p) /\ Spelled(Last(p)).ending \in endings
BackupOf(p, q) == /\ ~IsDir(p) /\ Front(p) = Front(q) /\ Spelled(Last(p)).stem = Spelled(Last(q)).stem
                  /\ Last(p) # Spelled(Last(p)).stem /\ Last(p) # "wp-config"

\* A script that runs lies below no directory the preset shields (config.cpp, "Shielded
\* directories: files served, nothing PHP-like ever runs"), whatever directories the site
\* caches below it, however the script is reached (by name, as an index, by try_files, with
\* path info): only an exact location naming the script, or one at the shield's own path
\* that replaces it, lets it run.
ShieldsHold ==
    Answers /\ s.got.r.what = "runs" /\ ~WrittenAt(At) /\ At \notin Pre.entries
        => \A sh \in Pre.shields : Under(At, sh.path) => Replaced(sh.path)

\* No PHP in any spelling is sent as a file by a PHP site from a location the preset or
\* the rules made, and nothing below a shield that
\* the shield refuses or does not serve, where the site caches a directory below it too.
NoSource ==
    Answers /\ s.got.r.what = "static" /\ php_app(setting.app) /\ ~WrittenAt(At) =>
        /\ ~(\E h \in Hand : h.match = "prefix" /\ Under(At, h.path) /\ ~Below_shield(Pre, h))
               => ~Ends(At, kPhpSuffixes)
        /\ \A sh \in Pre.shields :
               Under(At, sh.path) /\ ~Replaced(sh.path)
                   => ~Ends(At, sh.extra \cup Pre.refuse) /\ (sh.allow # {} => Ends(At, sh.allow))

\* A name the preset never answers is answered in none of its backup spellings, from no
\* location, and nothing below a directory it never answers; with the rules' private paths
\* the same, their scripts' path-info forms included.
NeverAnswered ==
    Answers /\ ~has(Hand, At, "exact") =>
        /\ ~InPrivate(setting.body, At)
        /\ php_app(setting.app) /\ ~WrittenAt(At) =>
               /\ At \notin Pre.never
               /\ \A d \in Pre.never_dirs : ~Under(At, d)
               /\ s.got.r.what = "static" => ~\E p \in Pre.never : BackupOf(At, p)

\* The rules only narrow the site (control/sites.cpp: "like every rule it only narrows the
\* site"): what a site with rules answers with it answers with at that address without
\* them, but for the entry points the rules name.  (A cached directory outside the preset's
\* shields refuses the endings every preset refuses, not the further ones of its preset.)
RulesNarrow ==
    Answers /\ At \notin setting.body.entry_points =>
        \/ s.without.r.what = s.got.r.what /\ s.without.r.at = At
        \/ s.got.r.what = "static" /\ \E c \in setting.body.cache : Under(At, c) /\ Ends(At, Pre.refuse \ kSourceBackups)

\* An entry point the accepted rules name runs, and what check_rules accepts the loader
\* refuses for no rule but a pattern against the preset's own index or front controller.
RulesLoad ==
    /\ s.phase = "unloaded" => setting.hand # {} \/ setting.body.refuse # {}
    /\ s.phase = "loaded" /\ s.ask.there /\ s.ask.path \in setting.body.entry_points
           => s.got.r.what = "runs" /\ At = s.ask.path

\* The address rule of what is answered was asked, whichever path led to it: a directory's
\* index, try_files' target, a script with path info; and on a site restricted whole nothing
\* is answered without one (the openings below /wp-admin are for a restricted /wp-admin).
RulesAsked ==
    Answers =>
        /\ ~rule_for(s.site.access, At).any => rule_for(s.site.access, At) \in s.got.asked
        /\ (\E r \in setting.body.restricted : r.path = Root /\ ~r.any) => s.got.asked # {}

\* path_check describes the answer a worker gives (commands.cpp: "in the order a worker
\* decides it"): the same decision, file or script, and a rule where one is asked.
PathChecked ==
    s.phase = "loaded" /\ s.ask # NoAsk /\ setting.rooted =>
        /\ s.told.r = s.got.r
        /\ (s.told.rule = {}) = (s.got.asked = {}) /\ s.told.rule \subseteq s.got.asked

Safe == ShieldsHold /\ NoSource /\ NeverAnswered /\ RulesNarrow /\ RulesLoad /\ RulesAsked /\ PathChecked
Step == Safe'
=============================================================================
