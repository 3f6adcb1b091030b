----------------------------- MODULE ConfigLoad -----------------------------
(* How the server turns its configuration files into the sites it serves    *)
(* (config.cpp load_config and set_aside_until_clean, services/pools.cpp    *)
(* isolate_hosting, services/certificates.cpp isolate_certificates,         *)
(* server.cpp isolate_logs, prepare_reload and record_served).  The main    *)
(* file is all or nothing; an included file that does not load, or that     *)
(* conflicts with another, is set aside whole, and on a reload the version  *)
(* of its sites that is running is carried into the new configuration.  At  *)
(* a start the record of what was served ranks the files instead.           *)
(*                                                                          *)
(* A text is what a file may hold: a kind ("good", "bad" for an error of    *)
(* its own in valid TOML, "torn" for text that is not TOML, "garbled" for   *)
(* one whose names cannot be read either) and its sites.  What the host     *)
(* gets wrong (a root's owner, a log that cannot be opened, a certificate   *)
(* that does not load) is the set `broken` of the things concerned.         *)
EXTENDS Naturals, Sequences, FiniteSets, TLC

CONSTANT Settings

VARIABLES
    s,        \* the files, the facts of the host, the record and the server
    setting   \* the texts, the files and what may happen to them

vars == <<s, setting>>

Main == "main"
Gone == "none"
NoSites == [sites |-> <<>>, held |-> <<>>, tells |-> FALSE, tls |-> {}, plain |-> {}, main |-> Gone]

FilesOf(sites) == {sites[i].file : i \in DOMAIN sites}
Without(sites, f) == SelectSeq(sites, LAMBDA x: x.file # f)
OfFile(sites, f) == SelectSeq(sites, LAMBDA x: x.file = f)
CarriedOf(sites, f) == [i \in DOMAIN OfFile(sites, f) |-> [OfFile(sites, f)[i] EXCEPT !.carried = TRUE]]
HeldOf(c, f) == {i \in DOMAIN c.held : c.held[i].file = f}
Present == {f \in {setting.files[i] : i \in DOMAIN setting.files} : s.disk[f] # Gone}

(***************************************************************************)
(* One site: its addresses, and what two sites cannot both have.           *)
(***************************************************************************)

\* The plain addresses of a TLS site that gives none of its own follow its TLS
\* ones: the server's, when those are the server's.
parse_http(x, c) == IF x.tls /\ x.listen = {} /\ ~x.off THEN c.plain ELSE x.http

\* A site that names no address listens on the server's own (the running
\* ones, on a reload).
parse_site(x, f, d, c, adds) ==
    [x EXCEPT !.listen = IF @ = {} THEN (IF x.tls THEN c.tls ELSE c.plain) ELSE @,
              !.http = parse_http(x, c)]
    @@ [file |-> f, text |-> d, carried |-> FALSE, added |-> adds[x.name] = "good", id |-> 0]

\* Every address of a site and whether it speaks TLS there.
At(x) == {<<a, x.tls>> : a \in x.listen} \cup {<<a, FALSE>> : a \in x.http}
Shared(x, y) == {a \in x.listen \cup x.http : a \in y.listen \cup y.http}

ProtocolsDiffer(x, y) ==
    \E p \in At(x) \cap At(y) : IF p[2] THEN x.protocols # y.protocols ELSE x.h2c # y.h2c
TlsDiffers(x, y) == \E p \in At(x), q \in At(y) : p[1] = q[1] /\ p[2] # q[2]
NameTwice(x, y) == Shared(x, y) # {} /\ (x.names \cap y.names # {} \/ (x.catch /\ y.catch))
LogLost(x, y) == x.log # "" /\ x.log = y.log /\ (x.keep \/ y.keep)
SocketShared(x, y) ==
    /\ x.user # "" /\ y.user # ""
    /\ IF x.user # y.user THEN x.socket # "" /\ x.socket = y.socket
                          ELSE x.pool # "" /\ x.pool = y.pool
BoundsDiffer(x, y) == x.upstream # "" /\ x.upstream = y.upstream /\ x.bounds # y.bounds

Clash(k, x, y) ==
    CASE k = 1 -> ProtocolsDiffer(x, y) [] k = 2 -> TlsDiffers(x, y) [] k = 3 -> NameTwice(x, y)
      [] k = 4 -> LogLost(x, y) [] k = 5 -> SocketShared(x, y) [] k = 6 -> BoundsDiffer(x, y)

Earliest(P) == CHOOSE p \in P : \A q \in P : p[2] < q[2] \/ (p[2] = q[2] /\ p[1] <= q[1])
Pairs(sites) == {p \in (DOMAIN sites) \X (DOMAIN sites) : p[1] < p[2]}

\* The first conflict between two sites, check by check; <<>> for none.
first_site_conflict(sites) ==
    LET Bad(k) == {p \in Pairs(sites) : Clash(k, sites[p[1]], sites[p[2]])}
        K == {k \in 1..6 : Bad(k) # {}}
    IN  IF K = {} THEN <<>> ELSE Earliest(Bad(CHOOSE k \in K : \A j \in K : k <= j))

(***************************************************************************)
(* What the host gets wrong.  Each finder gives <<i, j>>, the sites of the *)
(* first problem (j = 0 for a site alone), or <<>>.                        *)
(***************************************************************************)

\* hosting_errors: a site's own rules first, then what different users share.
hosting_errors(sites, broken) ==
    LET own == {<<i, 0>> : i \in {j \in DOMAIN sites : sites[j].user # "" /\ sites[j].root \in broken}}
        two == {p \in Pairs(sites) : /\ sites[p[1]].user # "" /\ sites[p[2]].user # ""
                                     /\ sites[p[1]].user # sites[p[2]].user
                                     /\ sites[p[1]].root = sites[p[2]].root}
    IN  [own |-> own, two |-> two]

HostWide(sites, p) == sites[p[1]].file = Main /\ (p[2] = 0 \/ sites[p[2]].file = Main)

\* The first rule broken by an included file's site; with one of the main
\* file's sites, the other one yields.
hosting_problem(sites, broken) ==
    LET e == hosting_errors(sites, broken)
        own == {p \in e.own : ~HostWide(sites, p)}
        two == {p \in e.two : ~HostWide(sites, p)}
        first == CHOOSE p \in two : \A q \in two : p[1] < q[1] \/ (p[1] = q[1] /\ p[2] <= q[2])
    IN  IF own # {} THEN CHOOSE p \in own : \A q \in own : p[1] <= q[1]
        ELSE IF two = {} THEN <<>>
        ELSE IF sites[first[1]].file = Main THEN <<first[2], 0>>
        ELSE IF sites[first[2]].file = Main THEN <<first[1], 0>>
        ELSE first

\* A log this process has open already stays open; another one must open.
log_problem(x, e) == x.log # "" /\ x.log \in e.broken \ e.open

First(I) == IF I = {} THEN <<>> ELSE <<CHOOSE i \in I : \A j \in I : i <= j, 0>>

\* A pair that does not load; a carried site keeps what was loaded before, and
\* so does any site after it that names the same pair.
pair_lost(sites, i, e) ==
    /\ sites[i].tls /\ sites[i].cert \in e.broken
    /\ \A j \in 1..i : ~(sites[j].carried /\ sites[j].cert = sites[i].cert /\ sites[i].cert \in e.loaded)

find(step, sites, e) ==
    CASE step = "load" -> first_site_conflict(sites)
      [] step = "hosting" -> hosting_problem(sites, e.broken)
      [] step = "log" -> First({i \in DOMAIN sites : sites[i].file # Main /\ log_problem(sites[i], e)})
      [] step = "certificate" -> First({i \in DOMAIN sites : pair_lost(sites, i, e)})

(***************************************************************************)
(* Setting files aside.                                                    *)
(***************************************************************************)

Served(running, f) == \E i \in DOMAIN running.sites : running.sites[i].file = f
TextServed(running, f) == OfFile(running.sites, f)[1].text

\* Mutant: an edited file and a newcomer rank alike.
file_rank_even(c, f, e) ==
    IF e.reload
    THEN IF ~Served(e.running, f) \/ (HeldOf(c, f) = {} /\ e.disk[f] # TextServed(e.running, f)) THEN 0 ELSE 2
    ELSE IF f \notin DOMAIN e.before THEN 0 ELSE 2

\* How firmly a file holds its names: served and unchanged, or carried, 2;
\* served but edited 1; new 0.  Served by the running configuration on a
\* reload, by the record at a start.
file_rank(c, f, e) ==
    IF e.reload
    THEN IF ~Served(e.running, f) THEN 0
         ELSE IF \E i \in HeldOf(c, f) : c.held[i].carried THEN 2
         ELSE IF e.disk[f] = TextServed(e.running, f) THEN 2 ELSE 1
    ELSE IF f \notin DOMAIN e.before THEN 0 ELSE IF e.disk[f] = e.before[f] THEN 2 ELSE 1

Loser(c, fa, fb, e) ==
    IF fa = fb \/ fb = Main THEN fa
    ELSE IF fa = Main \/ file_rank(c, fa, e) >= file_rank(c, fb, e) THEN fb ELSE fa

\* Mutant: what load order decided is not told.
Ties_silent(c, fa, fb, e) == FALSE

Ties(c, fa, fb, e) ==
    /\ fa # fb /\ fa # Main /\ fb # Main
    /\ file_rank(c, fa, e) = file_rank(c, fb, e) /\ ~e.reload /\ ~e.recorded

Held(f, carried, step) == [file |-> f, carried |-> carried, site |-> "", by |-> step]

\* Mutant: what yields is not carried.
PutAside_dropped(a, f, told, step, e) ==
    [a EXCEPT !.round = @ + 1, !.c.sites = Without(@, f),
              !.c.held = IF HeldOf(a.c, f) = {} THEN Append(@, Held(f, FALSE, step)) ELSE @, !.c.tells = @ \/ told]

\* The loser's sites go; the running version comes back, once.
PutAside(a, f, told, step, e) ==
    LET carry == e.reload /\ Served(e.running, f) /\ f \notin a.once
        c == a.c
    IN  [a EXCEPT !.round = @ + 1,
                  !.once = IF e.reload /\ Served(e.running, f) THEN @ \cup {f} ELSE @,
                  !.c.sites = Without(@, f) \o (IF carry THEN CarriedOf(e.running.sites, f) ELSE <<>>),
                  !.c.held = IF HeldOf(c, f) = {} THEN Append(@, Held(f, carry, step))
                             ELSE [i \in DOMAIN @ |-> IF @[i].file = f
                                                      THEN [@[i] EXCEPT !.carried = carry, !.by = step]
                                                      ELSE @[i]],
                  !.c.tells = @ \/ told]

Aside(a, p, step, e) ==
    LET fa == a.c.sites[p[1]].file
        fb == IF p[2] = 0 THEN fa ELSE a.c.sites[p[2]].file
    IN  IF (fa = Main /\ fb = Main) \/ a.round > 4 * (Len(a.c.sites) + Len(a.c.held) + 1)
        THEN [a EXCEPT !.ok = FALSE]
        ELSE PutAside(a, Loser(a.c, fa, fb, e), Ties(a.c, fa, fb, e), step, e)

RECURSIVE UntilClean(_, _, _, _)
UntilClean(a, p, step, e) ==
    IF p = <<>> \/ ~a.ok THEN a
    ELSE LET next == Aside(a, p, step, e) IN UntilClean(next, find(step, next.c.sites, e), step, e)

set_aside_until_clean(a, step, e) ==
    IF ~a.ok THEN a
    ELSE LET from == [a EXCEPT !.round = 0,
                               !.once = {a.c.held[i].file : i \in {j \in DOMAIN a.c.held : a.c.held[j].carried}}]
         IN  UntilClean(from, find(step, a.c.sites, e), step, e)

(***************************************************************************)
(* The loader.                                                             *)
(***************************************************************************)

Text(d) == setting.texts[d]
Fold(op(_, _), a, q) ==
    LET F[i \in 0..Len(q)] == IF i = 0 THEN a ELSE op(F[i - 1], q[i]) IN F[Len(q)]

Sites(f, c, e) ==
    LET t == Text(e.disk[f]) IN
    [i \in DOMAIN t.sites |-> parse_site(t.sites[i], f, e.disk[f], c, e.adds)]

\* The root additions file of one of its sites did not load.
AdditionsFail(f, e) == \E i \in DOMAIN Text(e.disk[f]).sites : e.adds[Text(e.disk[f]).sites[i].name] = "bad"

\* Mutant: a site is served without the additions that did not load.
read_file_bare(c, f, e) ==
    IF e.disk[f] = Gone THEN c
    ELSE IF Text(e.disk[f]).kind # "good" THEN [c EXCEPT !.held = Append(@, Held(f, FALSE, "own"))]
    ELSE [c EXCEPT !.sites = @ \o Sites(f, c, e)]

\* One included file: all its sites, or none and the file set aside.
read_file(c, f, e) ==
    IF e.disk[f] = Gone THEN c
    ELSE IF Text(e.disk[f]).kind # "good" \/ AdditionsFail(f, e)
    THEN [c EXCEPT !.held = Append(@, Held(f, FALSE, "own"))]
    ELSE [c EXCEPT !.sites = @ \o Sites(f, c, e)]

\* An additions file that did not load and whose site is nowhere is set aside
\* itself.
hold_additions(c, e) ==
    LET lost == {n \in DOMAIN e.adds : /\ e.adds[n] = "bad"
                                       /\ \A f \in DOMAIN e.disk : \/ e.disk[f] = Gone
                                                                   \/ Text(e.disk[f]).kind # "good"
                                                                   \/ \A i \in DOMAIN Text(e.disk[f]).sites : Text(e.disk[f]).sites[i].name # n}
        seq == SelectSeq(setting.domains, LAMBDA n: n \in lost)
    IN  [c EXCEPT !.held = @ \o [i \in DOMAIN seq |-> Held(seq[i], FALSE, "own")]]

\* A reload: what is set aside keeps the version that is running.
carry_held(c, e) ==
    LET One(b, h) == IF ~Served(e.running, h.file) THEN [b EXCEPT !.held = Append(@, h)]
                     ELSE [b EXCEPT !.sites = @ \o CarriedOf(e.running.sites, h.file),
                                    !.held = Append(@, [h EXCEPT !.carried = TRUE])]
    IN  IF e.reload THEN Fold(One, [c EXCEPT !.held = <<>>], c.held) ELSE c

\* What a file set aside for its own error still claims: the names and the
\* addresses its text gives (a site that names no address claims none).
claim_of(x) == [names |-> x.names, catch |-> x.catch, listen |-> x.listen \cup (IF x.tls THEN x.http ELSE {})]
claims_of(f, e) ==
    IF Text(e.disk[f]).kind = "garbled" THEN {}
    ELSE {claim_of(Text(e.disk[f]).sites[i]) : i \in DOMAIN Text(e.disk[f]).sites}

Claimed(k, x) == k.listen \cap x.listen # {} /\ (k.names \cap x.names # {} \/ (k.catch /\ x.catch))

Order(f, e) == CHOOSE i \in DOMAIN e.files : e.files[i] = f

\* The included files that claim what the held file does.
Claimants(c, h, e) ==
    {x.file : x \in {c.sites[i] : i \in {j \in DOMAIN c.sites :
        /\ c.sites[j].file # Main /\ ~c.sites[j].carried
        /\ file_rank(c, c.sites[j].file, e) <= file_rank(c, h, e)
        /\ \E k \in claims_of(h, e) : Claimed(k, c.sites[j])}}}

Keeps(c, g, h, e) == file_rank(c, g, e) = file_rank(c, h, e) /\ Order(g, e) < Order(h, e)
ByOrder(c, g, h, e) == file_rank(c, g, e) = file_rank(c, h, e) /\ ~e.reload /\ ~e.recorded

\* Mutant: a file that does not load claims nothing.
yield_to_claims_none(c, e) == c

\* A file that would have yielded to the one that did not load yields with it.
yield_to_claims(c, e) ==
    LET H == {c.held[i].file : i \in {j \in DOMAIN c.held : c.held[j].by = "own" /\ ~c.held[j].carried /\ c.held[j].file \in DOMAIN e.disk}}
        yields == {g \in FilesOf(c.sites) : \E h \in H : g \in Claimants(c, h, e) /\ ~Keeps(c, g, h, e)}
        told == \E h \in H : \E g \in Claimants(c, h, e) : ByOrder(c, g, h, e)
        seq == SelectSeq(e.files, LAMBDA f: f \in yields)
    IN  [c EXCEPT !.sites = SelectSeq(@, LAMBDA x: x.file \notin yields),
                  !.held = @ \o [i \in DOMAIN seq |-> Held(seq[i], FALSE, "claim")],
                  !.tells = @ \/ told]

Result(c) == [c |-> c, ok |-> TRUE, round |-> 0, once |-> {}]

\* The server's own addresses are the main file's at a start, and what they
\* were on a reload.
main_addresses(e) ==
    [NoSites EXCEPT !.tls = IF e.reload THEN e.running.tls ELSE Text(e.disk[Main]).tls,
                    !.plain = IF e.reload THEN e.running.plain ELSE Text(e.disk[Main]).plain,
                    !.main = e.disk[Main]]

read_files(e) ==
    LET main == main_addresses(e)
        One(c, f) == read_file(c, f, e)
    IN  hold_additions(Fold(One, [main EXCEPT !.sites = Sites(Main, main, e)], e.files), e)

NotEmpty(a) == [a EXCEPT !.ok = @ /\ a.c.sites # <<>>]

load_config(e) ==
    IF Text(e.disk[Main]).kind # "good" \/ AdditionsFail(Main, e) THEN [Result(NoSites) EXCEPT !.ok = FALSE]
    ELSE NotEmpty(set_aside_until_clean(Result(yield_to_claims(carry_held(read_files(e), e), e)), "load", e))

(***************************************************************************)
(* After the loader: the hosting rules, the logs, the certificates.        *)
(***************************************************************************)

\* What only the main file's sites break refuses everything.
isolate_hosting(a, e) ==
    LET b == set_aside_until_clean(a, "hosting", e)
        all == hosting_errors(b.c.sites, e.broken)
    IN  [b EXCEPT !.ok = @ /\ b.c.sites # <<>> /\ \A p \in all.own \cup all.two : ~HostWide(b.c.sites, p)]

\* A main file's site whose log cannot be opened goes alone.
MainLog(c, x, e) ==
    LET run == SelectSeq(e.running.sites, LAMBDA y: y.file = Main /\ y.name = x.name)
        carry == e.reload /\ run # <<>>
    IN  [c EXCEPT !.sites = SelectSeq(@, LAMBDA y: y # x)
                            \o (IF carry THEN <<[run[1] EXCEPT !.carried = TRUE]>> ELSE <<>>),
                  !.held = Append(@, [Held(Main, carry, "log") EXCEPT !.site = x.name])]

set_aside_for_logs(a, e) ==
    LET One(c, x) == IF x.file = Main /\ ~x.carried /\ log_problem(x, e) THEN MainLog(c, x, e) ELSE c
    IN  IF a.ok THEN set_aside_until_clean([a EXCEPT !.c = Fold(One, a.c, a.c.sites)], "log", e) ELSE a

\* The server's own log refuses the reload, or the start.
isolate_logs(a, e) ==
    IF Text(e.disk[Main]).log \in e.broken \ e.open THEN [a EXCEPT !.ok = FALSE] ELSE set_aside_for_logs(a, e)

isolate_certificates(a, e) == NotEmpty(set_aside_until_clean(a, "certificate", e))

\* The logs a configuration that reached them has opened.
Opened(a, e) == IF a.ok THEN {a.c.sites[i].log : i \in DOMAIN a.c.sites} \ (e.broken \cup {""}) ELSE {}

(***************************************************************************)
(* The ids of the locations, which the file cache keys its entries by.  A  *)
(* number no running location has stands for one never used before.        *)
(***************************************************************************)

Fresh(used) == CHOOSE k \in 1..(Cardinality(used) + 1) : k \notin used
IdsOf(c) == {c.sites[i].id : i \in DOMAIN c.sites}

\* The running site whose ids a loaded one may take: the same names, and the
\* same addresses when several have them; 0 for none.
Lender(x, taken, running) ==
    LET C == {j \in DOMAIN running.sites : j \notin taken /\ running.sites[j].names = x.names}
        here == {j \in C : running.sites[j].listen = x.listen}
    IN  IF here # {} THEN CHOOSE j \in here : \A k \in here : k <= j
        ELSE IF Cardinality(C) = 1 THEN CHOOSE j \in C : TRUE ELSE 0

\* Mutant: the same names are enough.
serving_same_named(x, y) == TRUE

serving_same(x, y) == x.root = y.root

carry_cache_scopes(c, running) ==
    LET One(b, x) ==
            LET r == IF x.carried THEN 0 ELSE Lender(x, b.taken, running)
                id == IF x.carried THEN x.id
                      ELSE IF r # 0 /\ serving_same(x, running.sites[r]) THEN running.sites[r].id
                      ELSE Fresh(b.used)
            IN  [sites |-> Append(b.sites, [x EXCEPT !.id = id]), used |-> b.used \cup {id},
                 taken |-> b.taken \cup {r}]
    IN  [c EXCEPT !.sites = Fold(One, [sites |-> <<>>, used |-> IdsOf(running), taken |-> {}], c.sites).sites]

(***************************************************************************)
(* The server.                                                             *)
(***************************************************************************)

Certs(c) == {c.sites[i].cert : i \in {j \in DOMAIN c.sites : c.sites[j].tls}}
Addresses(c) == UNION {c.sites[i].listen \cup c.sites[i].http : i \in DOMAIN c.sites}

AtReload == [reload |-> TRUE, running |-> s.cfg, disk |-> s.disk, adds |-> s.adds, broken |-> s.broken, open |-> s.open,
             loaded |-> Certs(s.cfg), before |-> <<>>, recorded |-> FALSE, files |-> setting.files]
AtStart(files) ==
    [AtReload EXCEPT !.reload = FALSE, !.running = NoSites, !.open = {}, !.loaded = {}, !.files = files,
                     !.before = IF s.record.there THEN s.record.of ELSE <<>>, !.recorded = s.record.there]

Loaded(e) == isolate_hosting(load_config(e), e)
Prepared(a, e) ==
    LET b == isolate_logs(a, e)
    IN  isolate_certificates([b EXCEPT !.c = carry_cache_scopes(@, e.running)], e)

RecordOf(c) == [f \in FilesOf(c.sites) \ {Main} |-> OfFile(c.sites, f)[1].text]

\* What was served is recorded, unless the record cannot be written.
write_served_record(c) ==
    IF "record" \in s.broken THEN s.record
    ELSE [there |-> TRUE, of |-> RecordOf(c)]

Refused(a, must) ==
    \/ ~a.ok
    \/ \E i \in DOMAIN a.c.held : a.c.held[i].file = must
    \/ (Addresses(a.c) \ Addresses(s.cfg)) \cap s.broken # {}

\* prepare_reload and commit_reload; `must` is the file a control change wrote.
Commit(a, b, must) ==
    s' = [s EXCEPT !.open = @ \cup Opened(a, AtReload),
                   !.did = IF Refused(b, must) THEN "refused" ELSE "reload",
                   !.cfg = IF Refused(b, must) THEN @ ELSE b.c,
                   !.record = IF Refused(b, must) THEN @ ELSE write_served_record(b.c)]

Reload(must) ==
    /\ s.up
    /\ LET a == Loaded(AtReload) IN Commit(a, Prepared(a, AtReload), must)

Begin(a, b) ==
    LET ok == b.ok /\ Addresses(b.c) \cap s.broken = {}
    IN  s' = [s EXCEPT !.did = IF ok THEN "start" ELSE "failed", !.up = ok,
                       !.open = IF ok THEN Opened(a, AtStart(setting.files)) ELSE {},
                       !.cfg = IF ok THEN b.c ELSE @, !.record = IF ok THEN write_served_record(b.c) ELSE @]

Start ==
    /\ ~s.up
    /\ LET a == Loaded(AtStart(setting.files)) IN Begin(a, Prepared(a, AtStart(setting.files)))

\* The process ends; what it served last is kept to compare the next start with.
Stop == s.up /\ s' = [s EXCEPT !.up = FALSE, !.open = {}, !.did = "edit"]

Edit(f) ==
    \E d \in setting.may[f] : d # s.disk[f] /\ s' = [s EXCEPT !.disk[f] = d, !.did = "edit"]
EditAdditions(n) ==
    \E v \in setting.adds : v # s.adds[n] /\ s' = [s EXCEPT !.adds[n] = v, !.did = "edit"]
Break(b) == b \notin s.broken /\ s' = [s EXCEPT !.broken = @ \cup {b}, !.did = "edit"]
Mend(b) == b \in s.broken /\ s' = [s EXCEPT !.broken = @ \ {b}, !.did = "edit"]
LoseRecord == setting.lose /\ s.record.there /\ s' = [s EXCEPT !.record = [there |-> FALSE, of |-> <<>>], !.did = "edit"]

Init ==
    /\ setting \in Settings
    /\ s \in [disk : {setting.disk}, adds : {[n \in {setting.domains[i] : i \in DOMAIN setting.domains} |-> "none"]},
              broken : {{}}, record : {[there |-> FALSE, of |-> <<>>]}, up : {FALSE}, open : {{}}, cfg : {NoSites},
              did : {"edit"}]

Next ==
    /\ UNCHANGED setting
    /\ \/ Start \/ Stop \/ LoseRecord
       \/ \E must \in Present \cup {Gone} : Reload(must)
       \/ \E f \in DOMAIN setting.may : Edit(f)
       \/ \E n \in setting.extended : EditAdditions(n)
       \/ \E b \in setting.breaks : Break(b) \/ Mend(b)

(***************************************************************************)
(* What holds.                                                             *)
(***************************************************************************)

Reloaded == s'.did = "reload"
Loads == s'.did \in {"reload", "start"}
SameMain == s.disk[Main] = s.cfg.main
SameAddresses == s.cfg.tls = Text(s.disk[Main]).tls /\ s.cfg.plain = Text(s.disk[Main]).plain
SitesOf(c, f) == {c.sites[i] : i \in {j \in DOMAIN c.sites : c.sites[j].file = f}}
Claims(x, n, a) == n \in x.names /\ a \in x.listen \cup x.http
Serves(c, f, n, a) == \E x \in SitesOf(c, f) : Claims(x, n, a)
NamesOf(c) == UNION {x.names : x \in {c.sites[i] : i \in DOMAIN c.sites}}

\* On a reload that leaves the main file alone, every file that was served and
\* is still there goes on being served, in its new text or in the running one,
\* whatever it and the other files hold now (set_aside_until_clean carries the
\* loser's running version, and a carried version outranks what displaced it);
\* only a running version that breaks a hosting rule now is let go.
ServedStays ==
    Reloaded /\ SameMain =>
        \A f \in FilesOf(s.cfg.sites) \cap Present :
            (\A x \in SitesOf(s.cfg, f) : x.root \notin s.broken) => Served(s'.cfg, f)

\* On a reload a name moves to another included file only when its own file is
\* gone or loads without it: neither an error in that file, nor a newcomer's
\* claim, nor the order of the files takes a name away (file_rank).
NamesStay ==
    Reloaded =>
        \A n \in NamesOf(s.cfg), a \in Addresses(s.cfg) :
            \A f \in FilesOf(s.cfg.sites) \cap Present, g \in FilesOf(s'.cfg.sites) \ {Main} :
                (g # f /\ Serves(s.cfg, f, n, a) /\ ~Serves(s.cfg, g, n, a) /\ Serves(s'.cfg, g, n, a)) =>
                    /\ Text(s.disk[f]).kind = "good"
                    /\ \A i \in DOMAIN Text(s.disk[f]).sites :
                           ~Claims(parse_site(Text(s.disk[f]).sites[i], f, s.disk[f], s.cfg, s.adds), n, a)

RecordCurrent == s.record.there /\ s.record.of = RecordOf(s.cfg)

\* A start with the record serves every file whose text is the one recorded
\* (the alpha.63 finding: load order alone could give its name to another), as
\* long as the main file and its addresses are the same and the host is in order.
RestartKeeps ==
    (s'.did = "start" /\ RecordCurrent /\ SameMain /\ SameAddresses /\ s.broken = {}) =>
        \A f \in DOMAIN s.record.of :
            (s.disk[f] = s.record.of[f] /\ ~AdditionsFail(f, AtReload)) =>
                Served(s'.cfg, f) /\ HeldOf(s'.cfg, f) = {}

\* And a newcomer does not take what a recorded file still claims with its own
\* addresses, though that file does not load (yield_to_claims).
ClaimsHold ==
    (s'.did = "start" /\ s.record.there) =>
        \A f \in DOMAIN s.record.of \cap Present :
            \A k \in claims_of(f, AtReload) :
                \A g \in FilesOf(s'.cfg.sites) \ (DOMAIN s.record.of \cup {Main}) :
                    \A x \in SitesOf(s'.cfg, g) : ~Claimed(k, x)

\* Every file on disk is either served, whole and in the text it has now, or
\* named among those set aside; a file said to keep its running version does,
\* and no site is served in a text without root's additions to it.
Accounted ==
    Loads =>
        \A f \in Present :
            LET h == HeldOf(s'.cfg, f)
                now == SitesOf(s'.cfg, f)
            IN  /\ Cardinality(h) <= 1
                /\ h = {} => /\ Cardinality(now) = Len(Text(s.disk[f]).sites)
                             /\ \A x \in now : x.text = s.disk[f] /\ ~x.carried /\ (x.added <=> s.adds[x.name] = "good")
                             /\ ~AdditionsFail(f, AtReload)
                /\ \A i \in h : IF s'.cfg.held[i].carried THEN now # {} /\ \A x \in now : x.carried ELSE now = {}

\* Two sites served together never conflict, as long as no running version was
\* brought back by a check that follows the loader's.
LateCarry(c) == \E i \in DOMAIN c.held : c.held[i].carried /\ c.held[i].by \in {"hosting", "log", "certificate"}
ServedApart == (Loads /\ ~LateCarry(s'.cfg)) => first_site_conflict(s'.cfg.sites) = <<>>

\* Files that are all good and fit together load whole, whatever happened
\* before: nothing stays set aside or carried, and no load is refused.
AllGood ==
    /\ s.broken = {} /\ \A n \in DOMAIN s.adds : s.adds[n] # "bad"
    /\ \A f \in Present \cup {Main} : Text(s.disk[f]).kind = "good"
    /\ LET e == IF s.up THEN AtReload ELSE AtStart(setting.files)
           sites == read_files(e).sites
       IN  sites # <<>> /\ first_site_conflict(sites) = <<>> /\ hosting_errors(sites, {}).two = {}
CleanLoads ==
    s'.did \in {"reload", "start", "refused", "failed"} /\ AllGood =>
        Loads /\ s'.cfg.held = <<>> /\ \A i \in DOMAIN s'.cfg.sites : ~s'.cfg.sites[i].carried

\* A start without the record that would have served other files in another
\* load order says so (order_decided).
Turned == [i \in DOMAIN setting.files |-> setting.files[Len(setting.files) + 1 - i]]
OrderTold ==
    (s'.did = "start" /\ ~s.record.there) =>
        \/ s'.cfg.tells
        \/ FilesOf(Loaded(AtStart(Turned)).c.sites) = FilesOf(Loaded(AtStart(setting.files)).c.sites)

\* A location's id, by which the cache finds its entries, never passes to a
\* location that serves otherwise, and a site alone with its names that serves
\* as before keeps it (carry_cache_scopes).
IdsMean ==
    Reloaded =>
        \A i \in DOMAIN s'.cfg.sites :
            LET x == s'.cfg.sites[i] IN
            /\ \A j \in DOMAIN s.cfg.sites : s.cfg.sites[j].id = x.id => s.cfg.sites[j].root = x.root
            /\ \A j \in DOMAIN s'.cfg.sites : s'.cfg.sites[j].id = x.id => s'.cfg.sites[j].root = x.root
            /\ (\A j \in DOMAIN s'.cfg.sites \ {i} : s'.cfg.sites[j].names # x.names) =>
                   \A j \in DOMAIN s.cfg.sites :
                       ((\A k \in DOMAIN s.cfg.sites \ {j} : s.cfg.sites[k].names # x.names)
                        /\ s.cfg.sites[j].names = x.names /\ s.cfg.sites[j].root = x.root) => s.cfg.sites[j].id = x.id

Step ==
    /\ ServedStays /\ NamesStay /\ RestartKeeps /\ ClaimsHold /\ Accounted /\ ServedApart /\ CleanLoads /\ OrderTold
    /\ IdsMean
=============================================================================
