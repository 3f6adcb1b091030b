-------------------------------- MODULE Sites --------------------------------
(* A managed site through the control plane: site_create and site_update over *)
(* the spec that the site file's first line carries (SiteSpec, to_json and    *)
(* from_json), apply_request, the preflight and the helper's fixes, the file  *)
(* render_site writes and what the loader makes of it; beside it the clock, a *)
(* browser that keeps the site's HSTS and an application that sends its own.  *)
(*                                                                            *)
(* Lifetimes are small numbers with two spellings of one of them; lists are   *)
(* sets of names, one bad name refused; a body names fields and nulls.  The   *)
(* rules' own checks are Presets' matter, the reload's the Reload module's.   *)
EXTENDS Integers, Sequences, FiniteSets, FiniteSetsExt, TLC

CONSTANTS Settings

VARIABLES
    s,        \* the clock, the file, the running site, the host, the browser, the request in hand
    setting   \* the bodies a client sends, the host's facts and the faults: no step changes it

vars == <<s, setting>>

None == <<>>
Blank ==
    [domain |-> "", aliases |-> {}, canonical |-> "", https |-> "", cert |-> "", redirect_http |-> TRUE,
     hsts |-> "", hsts_subdomains |-> FALSE, hsts_decided |-> FALSE, hsts_application |-> FALSE, hsts_unnamed |-> FALSE,
     hsts_held_until |-> 0, hsts_since |-> 0, encoded_slashes |-> "", own_trusted_proxies |-> FALSE, trusted_proxies |-> {},
     user |-> "", user_decided |-> FALSE, group |-> "", app |-> "", root |-> "", upstream |-> "", project |-> "", entry |-> "",
     served_dir |-> "", env_file |-> "", php_socket |-> "", php_children |-> 0, php_version |-> "", settings |-> None,
     rules |-> {}, redirects |-> {}, response_headers |-> {}, response_headers_baseline |-> TRUE, response_headers_offer_declined |-> {},
     response_compression |-> None, login_paths |-> {}, public_archives |-> {}, mime_types |-> {}, access_log |-> "",
     access_log_exclude_paths |-> {}, access_log_keep_days |-> 0, listen_plain |-> "", listen_tls |-> ""]

python_app(app) == app = "django"
node_app(app) == app = "node"
proxy_app(app) == app \in {"proxy", "django", "node"}
php_app(app) == app \in {"php", "laravel"}
schedule_app(app) == app \in {"php", "laravel"}
app_presets == {"static", "php", "laravel", "proxy", "django", "node"}
-----------------------------------------------------------------------------
(* The managed line                                                           *)
Always == {"domain", "aliases", "https", "redirect_http", "hsts_decided", "user", "group", "app", "root"}
Apart == {"cert", "hsts", "hsts_application", "hsts_unnamed", "own_trusted_proxies", "trusted_proxies", "user_decided"}
hsts_line(p) ==
    IF p.hsts # "" THEN p.hsts ELSE IF p.hsts_application THEN "application" ELSE IF p.hsts_decided THEN "none" ELSE ""
own_list(p) == p.own_trusted_proxies
to_json(p) ==
    [f \in Always \cup {g \in DOMAIN Blank \ (Always \cup Apart) : p[g] # Blank[g]} |-> p[f]]
    @@ (IF p.https = "manual" THEN [cert |-> p.cert] ELSE None)
    @@ (IF hsts_line(p) # "" THEN [hsts |-> hsts_line(p)] ELSE None)
    @@ (IF own_list(p) THEN [trusted_proxies |-> p.trusted_proxies] ELSE None)

\* "TRUE" is an earlier version's boolean, which named no lifetime.
from_json(v) ==
    LET has(f) == f \in DOMAIN v
        text == has("hsts") /\ v.hsts # "TRUE"
        unnamed == has("hsts") /\ v.hsts = "TRUE"
    IN [f \in DOMAIN Blank |->
          IF f = "hsts" THEN IF text /\ v.hsts \notin {"application", "none"} THEN v.hsts ELSE ""
          ELSE IF f = "hsts_unnamed" THEN unnamed
          ELSE IF f = "hsts_decided" THEN v.hsts_decided \/ text
          ELSE IF f = "hsts_application"
               THEN (text /\ v.hsts = "application") \/ (v.hsts_decided /\ ~text /\ ~unnamed)
          ELSE IF f = "own_trusted_proxies" THEN has("trusted_proxies")
          ELSE IF f = "user_decided" THEN TRUE
          ELSE IF f = "php_children" /\ has("settings") /\ "children" \in DOMAIN v.settings THEN v.settings.children
          ELSE IF has(f) THEN v[f] ELSE Blank[f]]
-----------------------------------------------------------------------------
(* HSTS in apply_request (docs/redirects.md 4.5)                              *)
hsts_duration == ("0" :> 0) @@ ("1" :> 1) @@ ("1s" :> 1) @@ ("2" :> 2)
Year == 3   \* longer than the others; the model's year
NoField == -1

has_key(b, f) == f \in DOMAIN b.given
given(b, f) == has_key(b, f) \/ f \in b.nulls

sent(p) ==
    IF p.https \in {"", "none"} THEN 0
    ELSE IF p.hsts_unnamed THEN Year
    ELSE IF p.hsts # "" THEN hsts_duration[p.hsts] ELSE 0
\* Mutant: the application's field counts behind the site's own "none" only.
app_sent_never(p, seen) == 0
app_sent(p, seen) ==
    IF p.hsts = "" /\ ~p.hsts_unnamed /\ (~p.hsts_decided \/ p.hsts_application) /\ seen > 0 THEN seen ELSE 0
clearing(p) == p.hsts # "" /\ ~p.hsts_unnamed /\ hsts_duration[p.hsts] = 0
none_already(p) == p.hsts = "" /\ p.hsts_decided /\ ~p.hsts_application /\ ~p.hsts_unnamed

\* Mutant: the date of the last change replaces a later one.
hold_last(p, own, app, now) == [p EXCEPT !.hsts_held_until = IF own + app > 0 THEN now + Max({own, app}) ELSE @]
hold(p, own, app, now) ==
    [p EXCEPT !.hsts_held_until = Max({@} \cup {now + n : n \in {own, app} \ {0}})]
off(p) ==
    [p EXCEPT !.hsts = "", !.hsts_subdomains = FALSE, !.hsts_decided = TRUE, !.hsts_application = FALSE,
              !.hsts_unnamed = FALSE, !.hsts_since = 0]
Lifetime(p, text, sub, now) ==
    LET same == p.hsts # "" /\ ~p.hsts_unnamed /\ hsts_duration[p.hsts] = hsts_duration[text] /\ p.hsts_subdomains = sub
    IN [p EXCEPT !.hsts = text, !.hsts_subdomains = sub, !.hsts_decided = TRUE, !.hsts_application = FALSE,
                 !.hsts_unnamed = FALSE,
                 !.hsts_since = IF same THEN @ ELSE IF hsts_duration[text] > 0 THEN now ELSE 0]
hsts_refused(p, h, now) ==
    \/ h.age \notin DOMAIN hsts_duration \cup {"none", "application"}
    \/ h.age = "none" /\ clearing(p) /\ now < p.hsts_held_until
may_hold(p, own, app, now) == ~none_already(p) /\ (own > 0 \/ app > 0 \/ p.hsts_held_until > now)
hsts_applied(p, h, own, app, now) ==
    IF h.age = "none"
    THEN IF clearing(p) THEN off(p)
         ELSE IF may_hold(p, own, app, now)
              THEN [Lifetime(hold(p, own, app, now), "0", FALSE, now) EXCEPT !.hsts_since = 0]
         ELSE off(p)
    ELSE IF h.age = "application" THEN [off(hold(p, own, app, now)) EXCEPT !.hsts_application = TRUE]
    ELSE Lifetime(hold(p, own, app, now), h.age, h.sub, now)
-----------------------------------------------------------------------------
(* apply_request                                                              *)
Plain == {"domain", "aliases", "canonical", "redirect_http", "app", "root", "upstream", "project", "entry", "served_dir",
          "env_file", "group", "php_socket", "php_children", "php_version", "rules", "redirects", "listen_plain", "listen_tls"}
Nullable == {"response_headers_baseline", "response_headers", "response_headers_offer_declined", "login_paths",
             "public_archives", "mime_types", "access_log_exclude_paths", "access_log_keep_days"}
user_of(p, b) ==
    IF has_key(b, "no_user") /\ b.given.no_user THEN ""
    ELSE IF has_key(b, "user") THEN b.given.user ELSE IF given(b, "user") THEN "" ELSE p.user
Named(p, b) ==
    [f \in DOMAIN Blank |->
       IF f \in Plain \cup Nullable /\ has_key(b, f) THEN b.given[f]
       ELSE IF f \in Nullable /\ given(b, f) THEN Blank[f]
       ELSE IF f = "https" /\ has_key(b, "https") THEN b.given.https.mode
       ELSE IF f = "cert" /\ has_key(b, "https") /\ b.given.https.mode = "manual" THEN b.given.https.cert
       ELSE IF f = "encoded_slashes" /\ has_key(b, f) THEN IF b.given[f] = "allow" THEN "allow" ELSE ""
       ELSE IF f = "own_trusted_proxies" /\ given(b, "trusted_proxies") THEN has_key(b, "trusted_proxies")
       ELSE IF f = "trusted_proxies" /\ given(b, f) THEN IF has_key(b, f) THEN b.given[f] ELSE {}
       ELSE IF f = "user" THEN user_of(p, b)
       ELSE IF f = "user_decided" THEN p.user_decided \/ given(b, "user") \/ (has_key(b, "no_user") /\ b.given.no_user)
       ELSE p[f]]

\* The limits: merged into what the site has; a pool's keys only where there will be a pool.
PoolKeys == {"children", "memory_limit"}
SettingKeys == PoolKeys \cup {"max_body_size"}
will_have_user(p, b) ==
    IF has_key(b, "no_user") THEN ~b.given.no_user ELSE IF has_key(b, "user") THEN b.given.user # "" ELSE p.user # ""
asked_settings(q, b) ==
    b.given.settings @@ (IF q.php_children # 0 THEN [children |-> q.php_children] ELSE None)
apply_settings(given_settings, pool) ==
    \A key \in DOMAIN given_settings :
        key \in SettingKeys /\ given_settings[key] \in 1..setting.ceiling /\ (key \in PoolKeys => pool)
settings_refused(p, q, b) ==
    /\ has_key(b, "settings")
    /\ ~apply_settings(asked_settings(q, b),
                       q.app # "static" /\ ~proxy_app(q.app) /\ will_have_user(p, b) /\ q.php_socket = "")
\* Mutant: the settings are taken whole.
merged_settings_whole(q, b) == asked_settings(q, b)
merged_settings(q, b) == asked_settings(q, b) @@ q.settings
WithSettings(q, b) ==
    IF has_key(b, "settings")
    THEN LET all == merged_settings(q, b)
         IN [q EXCEPT !.settings = all, !.php_children = IF "children" \in DOMAIN all THEN all.children ELSE @]
    ELSE IF has_key(b, "php_children") /\ q.php_children # 0
    THEN [q EXCEPT !.settings = [children |-> q.php_children] @@ @]
    ELSE q

\* The site's own compression, merged field by field: "null" goes back to the main file's.
CompressionKeys == {"enabled", "offload"}
compression_refused(b) ==
    has_key(b, "response_compression") /\ ~(DOMAIN b.given.response_compression \subseteq CompressionKeys)
dropped(all) == {key \in DOMAIN all : all[key] = "null"}
WithCompression(q, b) ==
    IF has_key(b, "response_compression")
    THEN LET all == b.given.response_compression @@ q.response_compression
         IN [q EXCEPT !.response_compression = [key \in DOMAIN all \ dropped(all) |-> all[key]]]
    ELSE IF given(b, "response_compression") THEN [q EXCEPT !.response_compression = None] ELSE q

WithHsts(p, q, b, now, seen) ==
    IF has_key(b, "hsts") THEN hsts_applied(q, b.given.hsts, sent(p), app_sent(p, seen), now) ELSE q
WithLog(q) == [q EXCEPT !.access_log = IF q.user = "" THEN "" ELSE "own"]
Applied(p, b, now, seen) == WithLog(WithCompression(WithSettings(WithHsts(p, Named(p, b), b, now, seen), b), b))

\* What check_rules takes for the app; Presets has the rules themselves.
check_rules(app) ==
    {"auth", "private"} \cup (IF proxy_app(app) THEN {} ELSE {"cache"}) \cup (IF app = "static" \/ proxy_app(app) THEN {} ELSE {"entry"})
\* rules.auth wants a user of the site's users file, which a new site cannot have.
auth_users_needed(q, b) == "auth" \in q.rules /\ (b.create \/ ~setting.users)
check_log_exclusions(q) == q.access_log_exclude_paths \cap q.login_paths = {}
Addresses == {"any:443", "any:80", "own:443", "own:80", "own:8443", "own:8080"}
rules_fit(q, b) == q.rules \subseteq check_rules(q.app)
\* Mutant: canonical is checked only when it is given.
canonical_fits_given(q, b) == has_key(b, "canonical") => q.canonical \in {"", q.domain} \cup q.aliases
canonical_fits(q, b) == q.canonical \in {"", q.domain} \cup q.aliases
ListRefused(q) ==
    \E f \in {"aliases", "response_headers", "response_headers_offer_declined", "login_paths", "public_archives",
              "mime_types", "access_log_exclude_paths", "redirects"} : "bad" \in q[f]
FitsApp(q) ==
    /\ q.project = "" \/ python_app(q.app) \/ q.app = ""
    /\ q.entry = "" \/ node_app(q.app) \/ q.app = ""
    /\ q.served_dir = "" \/ q.app \in {"php", ""}
    /\ q.env_file = "" \/ schedule_app(q.app) \/ q.app = ""
Refused(p, q, b, now) ==
    \/ ~(DOMAIN b.given \cup b.nulls \subseteq DOMAIN Blank \cup {"no_user"}) \/ has_key(b, "access_log")
    \/ q.domain = "bad" \/ ListRefused(q) \/ ~canonical_fits(q, b)
    \/ has_key(b, "hsts") /\ hsts_refused(p, b.given.hsts, now)
    \/ q.hsts_unnamed
    \/ has_key(b, "encoded_slashes") /\ b.given.encoded_slashes \notin {"allow", "deny"}
    \/ settings_refused(p, q, b) \/ compression_refused(b)
    \/ ~(q.trusted_proxies \subseteq setting.proxies)
    \/ q.access_log_keep_days > 14
    \/ ~({q.listen_plain, q.listen_tls} \subseteq Addresses \cup {""})
    \/ has_key(b, "no_user") /\ b.given.no_user /\ has_key(b, "user") /\ b.given.user # ""
    \/ "bad" \in {q.user, q.group, q.root, q.cert}
    \/ ~FitsApp(q) \/ ~rules_fit(q, b)
    \/ q.https = "auto" /\ ~setting.acme
    \/ q.https = "manual" /\ q.cert = ""
    \/ q.hsts_application /\ q.app = "static"
    \/ q.https # "none" /\ q.hsts # "" /\ hsts_duration[q.hsts] > 0 /\ ~q.redirect_http
    \/ q.app \notin app_presets \cup {""}
    \/ ~check_log_exclusions(q)
    \/ q.access_log_keep_days # 0 /\ q.access_log = ""
Needs(q) ==
    {f \in {"https", "root", "project", "app", "upstream", "user", "php_socket"} :
        \/ f = "https" /\ q.https \notin {"auto", "none", "manual"}
        \/ f = "root" /\ q.root = "" /\ q.app # "proxy"
        \/ f = "project" /\ python_app(q.app) /\ q.project = ""
        \/ f = "app" /\ q.app = ""
        \/ f = "upstream" /\ proxy_app(q.app) /\ q.upstream = ""
        \/ f = "user" /\ ~q.user_decided /\ q.user = ""
        \/ f = "php_socket" /\ php_app(q.app) /\ q.user = "" /\ q.php_socket = "" /\ q.user_decided}
-----------------------------------------------------------------------------
(* The site file, and what the loader makes of it                             *)
Port == ("any:443" :> 443) @@ ("any:80" :> 80) @@ ("own:443" :> 443) @@ ("own:80" :> 80) @@ ("own:8443" :> 8443)
        @@ ("own:8080" :> 8080) @@ ("" :> 0)
On443(a) == a # "" /\ Port[a] = 443
PlainBeside == ("any:443" :> "any:80") @@ ("own:443" :> "own:80")
NoText == [server_name |-> {}]
beside_443(q) == q.listen_plain = "" \/ (On443(q.listen_tls) /\ q.listen_plain = PlainBeside[q.listen_tls])
\* Mutant: "application" and "none" are both left to the default.
hsts_key_only(q) == IF q.https = "none" \/ q.hsts = "" THEN "" ELSE q.hsts
hsts_key(q) == IF q.https = "none" THEN "" ELSE hsts_line(q)
php_key(q) ==
    IF ~php_app(q.app) \/ q.php_socket # "" THEN None
    ELSE [key \in DOMAIN q.settings \ {"max_body_size"} |-> q.settings[key]]
         @@ (IF q.php_children # 0 THEN [children |-> q.php_children] ELSE None)
render_site(q) ==
    LET tls == q.https # "none"
    IN [server_name |-> {q.domain} \cup q.aliases, canonical |-> q.canonical,
        listen |-> IF tls THEN q.listen_tls ELSE q.listen_plain,
        tls |-> IF ~tls THEN "" ELSE IF q.https = "auto" THEN "auto" ELSE q.cert,
        http_listen |-> IF ~tls \/ beside_443(q) THEN "" ELSE q.listen_plain,
        http |-> IF tls /\ ~q.redirect_http THEN "serve" ELSE "",
        hsts |-> hsts_key(q), subdomains |-> hsts_key(q) # "" /\ q.hsts_subdomains,
        app |-> q.app, root |-> q.root, user |-> q.user, group |-> q.group, access_log |-> q.access_log,
        project |-> IF python_app(q.app) THEN q.project ELSE "", entry |-> IF node_app(q.app) THEN q.entry ELSE "",
        served_dir |-> IF q.app = "php" THEN q.served_dir ELSE "", env_file |-> IF schedule_app(q.app) THEN q.env_file ELSE "",
        exclude |-> q.access_log_exclude_paths, keep_days |-> q.access_log_keep_days, login_paths |-> q.login_paths,
        php |-> php_key(q), trusted |-> <<q.own_trusted_proxies, q.trusted_proxies>>, rules |-> q.rules]

server_listen(tls) == IF tls THEN "any:443" ELSE "any:80"
\* parse_site and parse_http: the addresses, the plain side and whether the file loads.
listens(t) == IF t.listen # "" THEN t.listen ELSE server_listen(t.tls # "")
parse_http_plain(t) ==
    IF t.tls = "" THEN ""
    ELSE IF t.http_listen # "" THEN t.http_listen
    ELSE IF t.listen = "" THEN server_listen(FALSE)
    ELSE IF On443(t.listen) THEN PlainBeside[t.listen] ELSE ""
parse_http(t) ==
    IF t.tls = "" THEN "serve" ELSE IF parse_http_plain(t) = "" THEN "off" ELSE IF t.http = "serve" THEN "serve" ELSE "redirect"
parse_hsts_on(t) == t.hsts \in DOMAIN hsts_duration
parse_http_refused(t) ==
    \/ t.tls # "" /\ t.http = "serve" /\ parse_http_plain(t) = ""
    \/ t.tls # "" /\ parse_http_plain(t) = listens(t)
    \/ parse_http(t) = "serve" /\ parse_hsts_on(t)
parse_site_refused(t, accounts) ==
    \/ t.project # "" /\ ~python_app(t.app)
    \/ t.entry # "" /\ ~node_app(t.app)
    \/ t.served_dir # "" /\ t.app # "php"
    \/ t.env_file # "" /\ (~schedule_app(t.app) \/ t.env_file = t.served_dir)
    \/ t.group # "" /\ t.user = ""
    \/ setting.strict_users /\ t.user = ""
    \/ t.tls = "auto" /\ ~setting.acme
    \/ t.tls \notin {"", "auto"} /\ t.tls \notin setting.certificates
    \/ t.hsts = "TRUE" \/ (t.hsts = "application" /\ t.app = "static")
    \/ t.canonical \notin t.server_name \cup {""}
    \/ t.keep_days # 0 /\ t.access_log = ""
    \/ t.exclude \cap t.login_paths # {}
    \/ ~(t.trusted[2] \subseteq setting.proxies)
    \/ t.user \notin accounts \cup {""}
    \/ ~(t.rules \subseteq check_rules(t.app)) \/ ("auth" \in t.rules /\ ~setting.users)
loads(t, accounts) == ~parse_http_refused(t) /\ ~parse_site_refused(t, accounts)
site_addresses(t) == {listens(t), parse_http_plain(t)} \ {""}
-----------------------------------------------------------------------------
(* The preflight and the provisioning helper                                  *)
\* Mutant: the plain address beside a TLS address of the site's own is not judged.
spec_listen_own(q) ==
    IF q.https = "none" THEN {IF q.listen_plain = "" THEN "any:80" ELSE q.listen_plain}
    ELSE {IF q.listen_tls = "" THEN "any:443" ELSE q.listen_tls}
         \cup (IF q.listen_plain # "" THEN {q.listen_plain} ELSE IF q.listen_tls = "" THEN {"any:80"} ELSE {})
spec_listen(q) ==
    IF q.https = "none" THEN {IF q.listen_plain = "" THEN "any:80" ELSE q.listen_plain}
    ELSE {IF q.listen_tls = "" THEN "any:443" ELSE q.listen_tls}
         \cup (IF q.listen_plain # "" THEN {q.listen_plain}
               ELSE IF q.listen_tls = "" THEN {"any:80"}
               ELSE IF On443(q.listen_tls) THEN {PlainBeside[q.listen_tls]} ELSE {})
ServerOpens == IF setting.explicit THEN {"any:443", "any:80"} ELSE {}
Unbound(k, q) ==
    {a \in spec_listen(q) : Port[a] < 1024 /\ a \notin ServerOpens \cup (IF k.site = NoText THEN {} ELSE site_addresses(k.site))}
\* The directory: "none", "shut" to the server, "bare" (nobody's, readable) or laid out for its account.
preflight(k, q) ==
    {code \in {"missing_account", "missing_group", "root_missing", "root_unreadable", "certificate_missing", "listen_unbound"} :
        \/ code = "missing_account" /\ q.user \notin k.accounts \cup {""}
        \/ code = "missing_group" /\ q.group \notin setting.groups \cup {""}
        \/ code = "root_missing" /\ q.root # "" /\ k.dir = "none"
        \/ code = "root_unreadable" /\ q.root # "" /\ (k.dir = "shut" \/ (q.user # "" /\ k.dir \notin {"none", q.user}))
        \/ code = "certificate_missing" /\ q.https = "manual" /\ q.cert \notin setting.certificates
        \/ code = "listen_unbound" /\ ~setting.privileged /\ Unbound(k, q) # {}}
fixable(q) == {"missing_account"} \cup (IF q.user # "" THEN {"root_missing", "root_unreadable"} ELSE {})
helper_fixes_all(problems, q) == setting.helper /\ problems # {} /\ problems \subseteq fixable(q)
\* The account first, as the preflight lists it; a directory of another account's is refused.
account_add(k, q) == IF setting.helper THEN [k EXCEPT !.accounts = @ \cup ({q.user} \ {""})] ELSE k
lay_out(k, q) ==
    IF setting.helper /\ q.user \in k.accounts /\ q.root # "" /\ k.dir \in {"none", "shut", "bare", q.user}
    THEN [k EXCEPT !.dir = q.user] ELSE k
\* Mutant: the directory is laid out before its account exists.
provisioned_swapped(k, q) == account_add(lay_out(k, q), q)
provisioned(k, q) == lay_out(account_add(k, q), q)
-----------------------------------------------------------------------------
(* site_create and site_update                                                *)
NoFile == [line |-> None, text |-> NoText]
Idle == [at |-> "idle"]
Nothing == [code |-> "", promised |-> FALSE, user |-> ""]
\* The answer; `promised` is the call a dry run said ok to, while nothing has happened since.
Told(k, b, code) ==
    [k EXCEPT !.op = Idle, !.told = [code |-> code, promised |-> k.promise = [b EXCEPT !.dry = TRUE] /\ ~b.dry, user |-> user_of(Blank, b)],
              !.promise = IF code \in {"ok", "fixes"} THEN b ELSE None]

write_site_file(k, q) ==
    [k EXCEPT !.bak = IF k.file = NoFile THEN @ ELSE k.file, !.file = [line |-> to_json(q), text |-> render_site(q)]]
restored(k, b) == IF b.create THEN NoFile ELSE k.bak
Opened(k, t) == {a \in site_addresses(t) \cup ServerOpens : setting.privileged \/ Port[a] >= 1024 \/ a \in k.open}
Reloaded(k, b, up) ==
    IF up /\ loads(k.file.text, k.accounts)
    THEN [k EXCEPT !.site = k.file.text, !.open = Opened(k, k.file.text), !.noted = FALSE, !.told.code = "made", !.op = Idle,
                   !.bak = NoFile]   \* it stays, and is written over before it is read again
    ELSE [k EXCEPT !.file = restored(k, b), !.bak = NoFile, !.told.code = "undone", !.op = Idle]

Judged(k, b, p, q) ==
    IF Refused(p, q, b, k.now) THEN Told(k, b, "refused")
    ELSE IF Needs(q) # {} THEN Told(k, b, "needs")
    ELSE IF b.create /\ ~setting.included THEN Told(k, b, "no_include")
    ELSE IF b.create /\ k.site # NoText THEN Told(k, b, "exists")
    ELSE IF auth_users_needed(q, b) THEN Told(k, b, "no_users")
    ELSE IF b.dry
    THEN Told(k, b, IF preflight(k, q) = {} THEN "ok" ELSE IF helper_fixes_all(preflight(k, q), q) THEN "fixes" ELSE "blocked")
    ELSE LET ready == IF preflight(k, q) # {} THEN provisioned(k, q) ELSE k
         IN IF preflight(ready, q) # {} THEN Told(ready, b, "waiting")
            ELSE IF "disk" \in setting.faults THEN Told(ready, b, "failed")
            ELSE [write_site_file(Told(ready, b, "written"), q) EXCEPT
                    !.op = [at |-> "reload", body |-> b, now |-> k.now, before |-> p, file |-> k.file],
                    !.blind = @ \/ (has_key(b, "hsts") /\ p.https = "none"),
                    !.moved = @ \/ has_key(b, "app")]
site_create(k, b) == Judged(k, b, Blank, Applied(Blank, b, k.now, NoField))
site_update(k, b) ==
    Judged(k, b, from_json(k.file.line), Applied(from_json(k.file.line), b, k.now, k.seen))
application_hsts_probe(k) == k.site # NoText /\ k.site.tls # "" /\ k.site.app # "static"
Ask(b) ==
    /\ s.op = Idle
    /\ s.asked < setting.requests
    /\ LET k == [s EXCEPT !.asked = @ + 1]
       IN s' = IF b.create THEN site_create(k, b)
               ELSE IF k.file = NoFile THEN Told(k, b, "unknown")
               ELSE IF has_key(b, "hsts") /\ k.seen = NoField /\ application_hsts_probe(k)
               THEN [k EXCEPT !.op = [at |-> "probe", body |-> b]]
               ELSE site_update(k, b)
ProbeDone(answered) ==
    /\ s.op.at = "probe"
    /\ answered \/ "probe" \in setting.faults
    /\ s' = site_update([s EXCEPT !.seen = IF answered THEN s.field ELSE @, !.unseen = @ \/ ~answered], s.op.body)
Commit(up) ==
    /\ s.op.at = "reload"
    /\ up \/ "reload" \in setting.faults
    /\ s' = Reloaded(s, s.op.body, up)
-----------------------------------------------------------------------------
(* Beside it: the clock, the application, a browser and a restart             *)
Since(k) == [k EXCEPT !.told = IF s.op = Idle THEN Nothing ELSE @, !.promise = None]
Tick ==
    /\ s.now < setting.end
    /\ s' = [Since(s) EXCEPT !.now = @ + 1, !.browser.until = IF @ = s.now + 1 THEN 0 ELSE @]
AppChange(f) ==
    /\ f # s.field
    /\ s' = [Since(s) EXCEPT !.field = f, !.moved = TRUE]
\* The field of an HTTPS answer: the site's own replaces the application's, "none" removes it.
AppField(k) == IF k.site.app = "static" THEN NoField ELSE k.field
note_application_hsts(k) ==
    IF k.site.hsts \in {"", "application"} \/ AppField(k) = NoField \/ k.noted THEN k
    ELSE [k EXCEPT !.seen = Max({@, k.field}), !.noted = TRUE]
Sent(k) ==
    IF k.site.hsts \in {"", "application"} THEN AppField(k)
    ELSE IF k.site.hsts = "none" THEN NoField ELSE hsts_duration[k.site.hsts]
Visit ==
    /\ s.site # NoText
    /\ s.site.tls # ""
    /\ s' = [note_application_hsts(Since(s)) EXCEPT !.browser =
               IF Sent(s) = NoField THEN @
               ELSE [until |-> IF Sent(s) = 0 THEN 0 ELSE s.now + Sent(s), own |-> parse_hsts_on(s.site),
                     late |-> s.op.at = "reload" /\ s.now > s.op.now]]
\* Started again: the file is read anew, what was seen is forgotten, every address can be bound.
Started(k) ==
    LET t == IF k.file # NoFile /\ loads(k.file.text, k.accounts) THEN k.file.text ELSE NoText
    IN [k EXCEPT !.site = t, !.open = ServerOpens \cup (IF t = NoText THEN {} ELSE site_addresses(t)), !.seen = NoField,
                 !.noted = FALSE, !.op = Idle, !.promise = None, !.told = Nothing]
Restart ==
    /\ "restart" \in setting.faults
    /\ s' = Started(s)

\* A file the start finds: written by this version, or by an earlier one that named no lifetime.
Written(q) ==
    IF q.hsts_unnamed THEN [line |-> [hsts |-> "TRUE"] @@ to_json(q), text |-> [render_site(q) EXCEPT !.hsts = "TRUE"]]
    ELSE [line |-> to_json(q), text |-> render_site(q)]
Init ==
    /\ setting \in Settings
    /\ s = Started([now |-> 0, asked |-> 0, op |-> Idle, bak |-> NoFile, site |-> NoText, open |-> {},
                    file |-> IF setting.start = None THEN NoFile ELSE Written(setting.start @@ Blank),
                    accounts |-> setting.accounts, dir |-> setting.dir, field |-> setting.field, seen |-> NoField, noted |-> FALSE,
                    browser |-> [until |-> setting.held, own |-> TRUE, late |-> FALSE],
                    told |-> Nothing, promise |-> None, blind |-> FALSE, moved |-> FALSE, unseen |-> FALSE])
Next ==
    /\ UNCHANGED setting
    /\ \/ \E b \in setting.bodies : Ask(b)
       \/ \E answered \in BOOLEAN : ProbeDone(answered)
       \/ \E up \in BOOLEAN : Commit(up)
       \/ Tick
       \/ \E f \in setting.fields : AppChange(f)
       \/ Visit
       \/ Restart
Spec == Init /\ [][Next]_vars
-----------------------------------------------------------------------------
(* Properties                                                                 *)
\* A site at "none", which sends nothing a browser could forget its HSTS by, is one no browser holds
\* a lifetime of any more: the way back through max-age=0 lasts as long as what was sent (apply_request,
\* docs/redirects.md 4.5).  Not counted: a visit after the change was judged and before it was served, a
\* change made while the site had no HTTPS, and a field of the application's that changed or that the
\* probe could not ask for.
NoneCleared ==
    (s.site # NoText /\ s.site.hsts = "none" /\ s.browser.until > s.now)
        => (s.browser.late \/ s.blind \/ (~s.browser.own /\ (s.moved \/ s.unseen)))

\* What a body's field decides besides itself.
Decides(f) ==
    IF f = "https" THEN {"https", "cert"}
    ELSE IF f = "hsts" THEN {"hsts", "hsts_subdomains", "hsts_decided", "hsts_application", "hsts_unnamed", "hsts_held_until", "hsts_since"}
    ELSE IF f \in {"user", "no_user"} THEN {"user", "access_log"}
    ELSE IF f = "trusted_proxies" THEN {"trusted_proxies", "own_trusted_proxies"}
    ELSE IF f \in {"settings", "php_children"} THEN {"settings", "php_children"} ELSE {f}
Kept(before, after) == \A key \in DOMAIN before : key \in DOMAIN after /\ after[key] = before[key]
\* An update changes what its body names and nothing else, through the rendered file and the line it is
\* read back from (to_json, from_json, apply_request): a list given whole is the list, null clears it,
\* limits and compression fields not named keep their values.
UnnamedKept ==
    (s.op.at = "reload" /\ ~s.op.body.create) =>
        LET b == s.op.body
            before == s.op.before
            after == from_json(s.file.line)
            body == DOMAIN b.given \cup b.nulls
        IN /\ \A f \in DOMAIN Blank \ UNION {Decides(g) : g \in body} : after[f] = before[f]
           /\ \A f \in {"login_paths", "mime_types", "trusted_proxies", "response_headers", "access_log_keep_days"} \cap body :
                 after[f] = IF f \in DOMAIN b.given THEN b.given[f] ELSE Blank[f]
           /\ "trusted_proxies" \in body => after.own_trusted_proxies = ("trusted_proxies" \in DOMAIN b.given)
           /\ "settings" \in body =>
                 Kept([key \in DOMAIN before.settings \ DOMAIN b.given.settings |-> before.settings[key]], after.settings)
           /\ "response_compression" \in DOMAIN b.given =>
                 \A key \in DOMAIN after.response_compression : after.response_compression[key] # "null"
           /\ (after.user = "") = (after.access_log = "")

\* The spellings apply_request passes and the loader refuses: known disagreements.
KnownRefusal(q) ==
    \/ q.https # "none" /\ ~q.redirect_http /\ q.listen_plain = "" /\ q.listen_tls \notin {"", "own:443"}
    \/ q.https # "none" /\ q.listen_plain # "" /\ q.listen_plain \in {q.listen_tls, "any:443"}
    \/ q.https # "none" /\ ~q.redirect_http /\ q.hsts = "0"
    \/ q.group # "" /\ q.user = ""
    \/ q.env_file # "" /\ q.env_file = q.served_dir
    \/ setting.strict_users /\ q.user = ""
\* What apply_request and the preflight accept the loader takes: the reload refuses a written file for
\* nothing the answer could have said before (dry runs are "what the real call would" say, sites.cpp).
AcceptedLoads ==
    s.op.at = "reload" => (loads(s.file.text, s.accounts) \/ KnownRefusal(from_json(s.file.line)))

\* The addresses of the running site are open: the preflight judged every address the loader then opens,
\* so no accepted change promises one a server without root cannot bind (spec_listen, parse_http).
AddressesOpen == s.site # NoText => site_addresses(s.site) \subseteq s.open

\* A dry run that answered ok, or helper_fixes, is followed by a change that is made, when nothing changed
\* between the two (site_create, site_update, helper_fixes_all); only a directory that is another
\* account's is found out by the helper alone.
DryTrue ==
    s.told.promised => \/ s.told.code \in {"written", "made", "undone"} \cup (IF "disk" \in setting.faults THEN {"failed"} ELSE {})
                       \/ s.told.code = "waiting" /\ s.dir \notin {"none", "shut", "bare", s.told.user}

\* The site that runs after an update is the one its managed line describes: the HSTS it sends, what its
\* plain port does, and the pool's children (render_site, parse_hsts, parse_http).
ServedAsTold ==
    (s.told.code = "made" /\ s.op = Idle) =>
        LET q == from_json(s.file.line)
            own == q.hsts # ""
        IN q.https # "none" =>
             /\ own = (s.site.hsts \in DOMAIN hsts_duration)
             /\ q.hsts_application => s.site.hsts = "application"
             /\ (q.hsts_decided /\ ~own /\ ~q.hsts_application) => s.site.hsts = "none"
             /\ q.redirect_http = (parse_http(s.site) \in {"redirect", "off"})
             /\ q.listen_plain # "" => q.listen_plain \in site_addresses(s.site)
             /\ (php_app(q.app) /\ q.php_socket = "" /\ "children" \in DOMAIN q.settings) => s.site.php.children = q.settings.children

\* A change whose reload is refused leaves the file it found and the site that ran; a new site leaves none
\* (site_create's and site_update's after).
UndoneWhole ==
    (s'.told.code = "undone" /\ s.op.at = "reload") =>
        /\ s'.site = s.site
        /\ s'.file = IF s.op.body.create THEN NoFile ELSE s.op.file

Step ==
    /\ (NoneCleared /\ UnnamedKept /\ AcceptedLoads /\ AddressesOpen /\ DryTrue /\ ServedAsTold)'
    /\ UndoneWhole
Sound == [][Step]_vars
=============================================================================
