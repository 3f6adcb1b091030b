---- MODULE AnswerFields ----
(* The head of every answer: what leaves of the fields an application sent (apply_upstream_result,       *)
(* handlers/upstream_common.cpp) and of agensio's own (the writers' build_head), under the site's        *)
(* [[site.response_headers]] rules, the password guard, its HSTS and its response_compression.           *)
(*                                                                                                       *)
(* A field is [n, v]: its name and the set of its members (directives, list members, or the one value).  *)
(* A path is a sequence of segments, <<>> is "/"; a file's ending a sequence of its dotted parts. The    *)
(* environment is one shared cache (RFC 9111, RFC 9213) between the clients and the server: it keeps     *)
(* what a head allows and answers the next client with it where Vary lets it.                            *)
EXTENDS Integers, SequencesExt

CONSTANT
    \* A setting is a site, its rules and what is asked of it.
    \* @type: Set([rules: Seq(rule), loc: location, site: site, requests: Set(request), answers: Set(answer), own: Set(own answer), most: Nat])
    \* most bounds the answers the server makes in one behaviour; only the cache's entry and the notes outlive one.
    Settings

VARIABLES
    s,       \* the generation's two notes, the shared cache's entry and the last answer a client got
    setting  \* which of Settings this behaviour is about

----
(* core/private_cache.hpp: what a Cache-Control value says.                                              *)

Restrictive == {"no-store", "private", "no-cache"}

shared_only_field(n) == n \in {"cdn-cache-control", "surrogate-control"}

keep_directives(v) == v \ {"public", "s-maxage", "s-maxage=0", "proxy-revalidate", "private", "private=f"}

restrictions(v, qualified) ==
    {r \in Restrictive : r \in v \/ (qualified /\ ((r = "private" /\ "private=f" \in v) \/ (r = "no-cache" /\ "no-cache=f" \in v)))}

covers(rule, application) == "no-store" \in rule \/ application \subseteq rule

shared_lifetime(v) ==
    /\ restrictions(v, FALSE) = {}
    /\ \/ v \cap {"public", "stale-if-error"} # {}
       \/ IF v \cap {"s-maxage", "s-maxage=0"} # {} THEN "s-maxage" \in v ELSE "max-age" \in v

----
(* build_response_headers (config.cpp) and ResponseRules::lookup: per field, the rule that decides.      *)

RuleCovers(rule, path) == IF rule.exact THEN path = rule.path ELSE IsPrefix(rule.path, path)

Keys(rules) == {[path |-> rules[i].path, exact |-> rules[i].exact] : i \in 1 .. Len(rules)}

Shorter(a, b) == Len(a.path) < Len(b.path)

chain(rules, key) ==
    Append(SetToSortSeq({a \in Keys(rules) : ~a.exact /\ (key.exact \/ a.path # key.path) /\ RuleCovers(a, key.path)}, Shorter), key)

Applicable(rules, c, written, pass, ok, ending) ==
    SelectSeq(rules, LAMBDA r : /\ r.baseline # written
                                /\ r.exact = c.exact
                                /\ r.path = c.path
                                /\ ok \/ ~r.success_only
                                /\ IF pass = 0 THEN r.endings = {} ELSE \E e \in r.endings : IsSuffix(e, ending))

find(hs, n) == IF \E i \in 1 .. Len(hs) : hs[i].n = n THEN CHOOSE i \in 1 .. Len(hs) : hs[i].n = n ELSE 0

Lifetime(say) ==
    /\ say.verb # "remove"
    /\ IF say.n = "cache-control" THEN shared_lifetime(say.v)
       ELSE IF shared_only_field(say.n) THEN restrictions(say.v, FALSE) = {}
       ELSE say.n = "expires" /\ say.v # {"0"}

FieldDecision(r, say) ==
    [n |-> say.n, v |-> say.v, verb |-> say.verb, own_only |-> r.own_only,
     cache_field |-> say.n = "cache-control" \/ shared_only_field(say.n),
     restricts |-> IF say.verb = "remove" THEN {} ELSE restrictions(say.v, FALSE),
     lifetime |-> Lifetime(say), private_value |-> {"private"} \cup keep_directives(say.v)]

\* Mutant: the baseline decides over a written rule of its path.
Decide_over(hs, r, say) ==
    IF find(hs, say.n) = 0 THEN Append(hs, FieldDecision(r, say)) ELSE [hs EXCEPT ![find(hs, say.n)] = FieldDecision(r, say)]

Decide(hs, r, say) ==
    IF find(hs, say.n) # 0 /\ r.baseline THEN hs
    ELSE IF find(hs, say.n) # 0 THEN [hs EXCEPT ![find(hs, say.n)] = FieldDecision(r, say)]
    ELSE Append(hs, FieldDecision(r, say))

fill_at(rules, c, ok, ending) ==
    Applicable(rules, c, TRUE, 0, ok, ending) \o Applicable(rules, c, TRUE, 1, ok, ending)
        \o Applicable(rules, c, FALSE, 0, ok, ending) \o Applicable(rules, c, FALSE, 1, ok, ending)

RuleSays(hs, r) == FoldLeft(LAMBDA acc, say : Decide(acc, r, say), hs, r.says)

fill(rules, keys, ok, ending) ==
    FoldLeft(RuleSays, <<>>, FlattenSeq([i \in 1 .. Len(keys) |-> fill_at(rules, keys[i], ok, ending)]))

Longer(a, b) == Len(a) > Len(b)

EndingsOf(rules, keys) ==
    UNION {rules[i].endings : i \in {i \in 1 .. Len(rules) : [path |-> rules[i].path, exact |-> rules[i].exact] \in {keys[j] : j \in 1 .. Len(keys)}}}

BothSets(rules, keys, ending) == [ending |-> ending, ok |-> fill(rules, keys, TRUE, ending), other |-> fill(rules, keys, FALSE, ending)]

BySets(rules, keys, endings) == [i \in 1 .. Len(endings) |-> BothSets(rules, keys, endings[i])]

HeaderNode(rules, key, keys) ==
    [path |-> key.path, exact |-> key.exact, plain |-> BothSets(rules, keys, <<>>),
     by_ending |-> BySets(rules, keys, SetToSortSeq(EndingsOf(rules, keys), Longer))]

NodeBefore(a, b) == Len(a.path) > Len(b.path) \/ (Len(a.path) = Len(b.path) /\ a.exact /\ ~b.exact)

build_response_headers(rules) ==
    SetToSortSeq({HeaderNode(rules, key, chain(rules, key)) : key \in Keys(rules)}, NodeBefore)

FirstSegment(path) == IF path = <<>> THEN "" ELSE Head(path)

first_marks(nodes) == {FirstSegment(nodes[i].path) : i \in {i \in 1 .. Len(nodes) : nodes[i].path # <<>> \/ nodes[i].exact}}

\* Mutant: an exact rule's node is never found.
lookup_unmarked(nodes, path) == SelectInSeq(nodes, LAMBDA n : RuleCovers(n, path) /\ ~n.exact)

\* The position of the node deciding a path, 0 where no rule covers it.
lookup(nodes, path) ==
    IF nodes = <<>> THEN 0
    ELSE IF FirstSegment(path) \in first_marks(nodes) /\ SelectInSeq(nodes, LAMBDA n : RuleCovers(n, path)) # 0
    THEN SelectInSeq(nodes, LAMBDA n : RuleCovers(n, path))
    ELSE IF Last(nodes).path = <<>> /\ ~Last(nodes).exact THEN Len(nodes)
    ELSE 0

success(status) == status \in 200 .. 299 \/ status = 304

ending_sets(node, file) ==
    LET at == SelectInSeq(node.by_ending, LAMBDA e : IsSuffix(e.ending, file) /\ Len(e.ending) < Len(file))
    IN  IF at = 0 THEN node.plain ELSE node.by_ending[at]

SetFor(sets, status) == IF success(status) THEN sets.ok ELSE sets.other

\* pending, and the upstream loop's `rules`: the set deciding this answer's fields. An application's answer has no file.
pending(nodes, at, status, file) ==
    IF at = 0 THEN <<>>
    ELSE IF file = <<>> THEN SetFor(nodes[at].plain, status)
    ELSE SetFor(ending_sets(nodes[at], file), status)

----
(* core/response_fields.hpp over an application's answer.                                                *)

Upstream0 == [present |-> {}, carried |-> {}, cache_control |-> {}, cdn |-> {}, has_cache_control |-> FALSE, personal |-> FALSE,
              stands |-> {}, cache_control_kept |-> FALSE]

Carries(hs, u, n) == IF find(hs, n) = 0 THEN u ELSE [u EXCEPT !.carried = @ \cup {find(hs, n)}]

note_cache(hs, u, h) ==
    IF h.n = "set-cookie" THEN [u EXCEPT !.personal = TRUE]
    ELSE IF h.n = "vary" THEN [u EXCEPT !.personal = @ \/ h.v \cap {"*", "cookie", "authorization"} # {}]
    ELSE IF h.n = "cache-control"
    THEN Carries(hs, [u EXCEPT !.has_cache_control = TRUE, !.cache_control = @ \cup restrictions(h.v, TRUE)], h.n)
    ELSE IF shared_only_field(h.n) THEN Carries(hs, [u EXCEPT !.cdn = @ \cup restrictions(h.v, TRUE)], h.n)
    ELSE IF h.n = "expires" THEN Carries(hs, u, h.n)
    ELSE u

\* Mutant: the application's Cache-Control does not bind a rule's field for shared caches.
Binding_own(d, u, carried) == IF d.n = "cache-control" THEN u.cache_control ELSE IF d.n = "expires" THEN u.cache_control \cup u.cdn ELSE u.cdn

\* The restrictions of the application's that a rule's decision must hold.
Binding(d, u, carried) ==
    IF d.n = "cache-control" THEN u.cache_control
    ELSE IF d.n = "expires" THEN u.cache_control \cup u.cdn
    ELSE u.cdn \cup (IF carried THEN {} ELSE u.cache_control)

Considered(d, carried) ==
    /\ d.cache_field \/ d.n = "expires"
    /\ ~d.own_only
    /\ d.verb = "fallback" => ~carried
    /\ d.verb = "remove" => carried

GivesWay(d, u, carried) ==
    Considered(d, carried) /\ Binding(d, u, carried) # {} /\ ~covers(d.restricts, Binding(d, u, carried))

DecidesCacheControl(d, u, carried) ==
    d.n = "cache-control" /\ Considered(d, carried) /\ d.verb # "fallback" /\ ~GivesWay(d, u, carried)

settle(hs, u) ==
    [u EXCEPT !.stands = {i \in 1 .. Len(hs) : GivesWay(hs[i], u, i \in u.carried)},
              !.cache_control_kept = u.has_cache_control /\ ~\E i \in 1 .. Len(hs) : DecidesCacheControl(hs[i], u, i \in u.carried)]

cache_watch(hs) == \E i \in 1 .. Len(hs) : hs[i].cache_field \/ hs[i].n = "expires"

\* keep_upstream: "as is" (no decision on it), "copy" (kept, it answers a default) or "gone".
keep_upstream(hs, i, guarded, u) ==
    IF i = 0 THEN "as is"
    ELSE IF (guarded /\ hs[i].cache_field) \/ hs[i].own_only \/ i \in u.stands THEN "as is"
    ELSE IF hs[i].verb = "fallback" THEN "copy"
    ELSE "gone"

Sent(hs, i, guarded, u) ==
    /\ hs[i].verb # "remove"
    /\ ~(guarded /\ hs[i].cache_field)
    /\ ~hs[i].own_only
    /\ i \notin u.stands
    /\ hs[i].verb = "fallback" => i \notin u.present

LeftOut(d, u) == u.personal /\ d.lifetime /\ d.n # "cache-control"

\* Mutant: a rule's lifetime goes out on one user's answer too.
RuleLine_open(d, u) == [n |-> d.n, v |-> d.v]

RuleLine(d, u) == [n |-> d.n, v |-> IF u.personal /\ d.lifetime THEN d.private_value ELSE d.v]

NeedsPrivate(hs, guarded, u) ==
    \E i \in 1 .. Len(hs) :
        \/ hs[i].verb = "remove" /\ hs[i].n = "cache-control" /\ ~guarded /\ i \notin u.stands
        \/ Sent(hs, i, guarded, u) /\ LeftOut(hs[i], u)

SendsCacheControl(hs, guarded, u) == \E i \in 1 .. Len(hs) : hs[i].n = "cache-control" /\ Sent(hs, i, guarded, u)

append_upstream(hs, guarded, u) ==
    FoldLeft(LAMBDA out, i : IF Sent(hs, i, guarded, u) /\ ~LeftOut(hs[i], u) THEN Append(out, RuleLine(hs[i], u)) ELSE out,
             <<>>, [i \in 1 .. Len(hs) |-> i])
    \o (IF u.personal /\ NeedsPrivate(hs, guarded, u) /\ ~SendsCacheControl(hs, guarded, u) /\ ~u.cache_control_kept
        THEN <<[n |-> "cache-control", v |-> {"private"}]>> ELSE <<>>)

----
(* compress_answer::decide, and the coding the client gets.                                              *)

\* choose_encoding: the accepted weight of each coding, -1 where it is not named, q_star for those.
Weight(accept, e) == IF accept[e] >= 0 THEN accept[e] ELSE accept.star

Better(accept, offered, best, e) ==
    IF e \in offered /\ Weight(accept, e) > (IF best = "identity" THEN 0 ELSE Weight(accept, best)) THEN e ELSE best

choose_encoding(accept, offered) ==
    FoldLeft(LAMBDA best, e : Better(accept, offered, best, e), "identity", <<"zstd", "br", "gzip">>)

TypeOf(a) == FoldLeft(LAMBDA acc, h : IF h.n = "content-type" THEN h.v ELSE acc, {}, a.fields)

Named(a, n) == \E i \in 1 .. Len(a.fields) : a.fields[i].n = n

\* The last Cache-Control of the answer decides no-transform.
LastCacheControl(a) == FoldLeft(LAMBDA acc, h : IF h.n = "cache-control" THEN h.v ELSE acc, {}, a.fields)

browser_credential(q) == q.authorization = "basic"

signed_in_visitor(q) == q.guarded \/ q.access_admitted \/ browser_credential(q)

streams_unknown_length(q) == q.protocol \in {"1.1", "2"}

SizeKnown(a) == ~a.streamed \/ Named(a, "content-length")

under_off_path(q, off) == \E p \in off : IsPrefix(p, q.path)

decide(q, a, site) ==
    IF ~site.enabled THEN "mode_off"
    ELSE IF choose_encoding(q.accept, site.codings) = "identity" THEN "no_accept"
    ELSE IF a.status \in {101, 204, 206, 304} \/ Named(a, "content-range") THEN "status"
    ELSE IF Named(a, "content-encoding") THEN "already_encoded"
    ELSE IF TypeOf(a) = {"event-stream"} /\ ~site.events THEN "event_stream"
    ELSE IF TypeOf(a) \notin {{"event-stream"}, {"html"}} THEN "type"
    ELSE IF "no-transform" \in LastCacheControl(a) \cup q.cache_control THEN "no_transform"
    ELSE IF under_off_path(q, site.exclude_paths) THEN "path_off"
    ELSE IF ~site.signed_in /\ signed_in_visitor(q) THEN "signed_in"
    ELSE IF q.method = "HEAD" THEN "head"
    ELSE IF SizeKnown(a) /\ a.size < site.min_size THEN "size"
    ELSE IF ~a.streamed /\ a.size <= site.whole_max THEN "compress"
    ELSE IF streams_unknown_length(q) THEN "pieces"
    ELSE "no_streaming"

Compressing(why) == why \in {"compress", "pieces", "head"}

\* Mutant: only the coded answer says that it varies.
VariesWhy_coded(why, a) == Compressing(why)

\* The answers another client could have got compressed.
VariesWhy(why, a) ==
    \/ Compressing(why)
    \/ why \in {"no_accept", "already_encoded", "no_streaming", "budget"}
    \/ why = "size" /\ a.size > 0

----
(* apply_upstream_result: the application's fields one by one, then the location's, then the rules'.     *)
(* c holds what was settled before the loop: [q, a, hs, u, why, coding, loc, site].                      *)

WriterOwned == {"transfer-encoding", "connection", "keep-alive", "server", "date"}

AddStatus == {200, 201, 204, 206, 301, 302, 303, 304, 307, 308}

Hidden(loc, n) == loc.proxied /\ n \in loc.hide

parse_hsts(v) == [valid |-> v \cap {"age1", "age2"} # {} /\ "repeated" \notin v, max_age |-> IF "age2" \in v THEN 2 ELSE 1]

hsts_stronger(app, own) ==
    /\ parse_hsts(app).valid
    /\ parse_hsts(app).max_age > parse_hsts(own).max_age \/ (app \ own) \cap {"subdomains", "preload"} # {}

site_hsts(c) == c.q.tls /\ (c.site.hsts # {} \/ c.site.strip_hsts)

note_hsts(c, noted, v) ==
    [application |-> TRUE,
     narrowed |-> noted.narrowed \/ (c.site.hsts # {} /\ v # c.site.hsts /\ hsts_stronger(v, c.site.hsts))]

\* A Location's members: its scheme, its host, and "under" where its path lies under the prefix the origin is asked with.
Rewritable(c, v) == v \cap c.loc.origin # {} /\ (c.loc.prefixed => "under" \in v)

rewrite_location(c) == {IF c.q.tls THEN "https" ELSE "http", "site", "under"}

upgrade_location(v) == IF {"http", "site"} \subseteq v THEN (v \ {"http"}) \cup {"https"} ELSE v

https_site(c) == c.q.tls /\ c.site.http_redirect

LocationOut(c, v) ==
    IF c.loc.proxied /\ c.loc.rewrite_redirects /\ Rewritable(c, v) THEN rewrite_location(c)
    ELSE IF https_site(c) THEN upgrade_location(v)
    ELSE v

Put(acc, n, v) == [acc EXCEPT !.out = Append(@, [n |-> n, v |-> v])]

\* What response_compression makes of a field it concerns, else the field as it came.
CodedField(c, acc, h) ==
    IF VariesWhy(c.why, c.a) /\ h.n = "vary"
    THEN [Put(acc, "vary", IF "*" \in h.v THEN h.v ELSE h.v \cup {"accept-encoding"}) EXCEPT !.vary_seen = TRUE]
    ELSE IF h.n = "content-encoding" /\ h.v = {"identity"} THEN acc
    ELSE IF Compressing(c.why) /\ h.n = "etag" THEN Put(acc, "etag", {"weak"})
    ELSE IF Compressing(c.why) /\ h.n \in {"accept-ranges", "content-md5"} THEN acc
    ELSE IF h.n = "location" THEN Put(acc, "location", LocationOut(c, h.v))
    ELSE Put(acc, h.n, h.v)

PlainField(c, acc, h) ==
    IF h.n = "location" THEN Put(acc, "location", LocationOut(c, h.v)) ELSE Put(acc, h.n, h.v)

Answered(acc, i, keep) == IF keep = "copy" THEN [acc EXCEPT !.present = @ \cup {i}] ELSE acc

Unguarded(c, acc, h) ==
    IF c.q.guarded /\ h.n = "cache-control" THEN [acc EXCEPT !.kept = @ \cup keep_directives(h.v)]
    ELSE IF c.q.guarded /\ shared_only_field(h.n) THEN acc
    ELSE IF c.site.enabled THEN CodedField(c, acc, h)
    ELSE PlainField(c, acc, h)

Ruled(c, acc, h, i, keep) == IF keep = "gone" THEN acc ELSE Unguarded(c, Answered(acc, i, keep), h)

OneField(c, acc, h, i) ==
    IF h.n = "content-length" THEN (IF c.q.method = "HEAD" THEN [acc EXCEPT !.length = h.v] ELSE acc)
    ELSE IF h.n \in WriterOwned \/ Hidden(c.loc, h.n) THEN acc
    ELSE IF site_hsts(c) /\ h.n = "hsts" THEN [acc EXCEPT !.noted = note_hsts(c, @, h.v)]
    ELSE Ruled(c, acc, h, i, keep_upstream(c.hs, i, c.q.guarded, c.u))

AddedField(c, acc, h, i, keep) ==
    IF keep = "gone" THEN acc
    ELSE IF c.q.guarded /\ h.n = "cache-control" THEN [Answered(acc, i, keep) EXCEPT !.kept = @ \cup keep_directives(h.v)]
    ELSE IF c.q.guarded /\ shared_only_field(h.n) THEN Answered(acc, i, keep)
    ELSE Put(Answered(acc, i, keep), h.n, h.v)

FieldLoop(c, noted) ==
    FoldLeft(LAMBDA acc, h : OneField(c, acc, h, find(c.hs, h.n)),
             [out |-> <<>>, present |-> {}, kept |-> {}, vary_seen |-> FALSE, length |-> {}, noted |-> noted], c.a.fields)

AddLoop(c, acc) ==
    IF c.a.status = 101 THEN Put(acc, "connection", {"upgrade"})
    ELSE IF c.a.status \notin AddStatus THEN acc
    ELSE FoldLeft(LAMBDA x, h : AddedField(c, x, h, find(c.hs, h.n), keep_upstream(c.hs, find(c.hs, h.n), c.q.guarded, c.u)), acc, c.loc.add_headers)

\* The rules' own lines, the password guard's Cache-Control and Vary, in that order.
After(c, acc) ==
    [acc EXCEPT !.out = @ \o append_upstream(c.hs, c.q.guarded, [c.u EXCEPT !.present = acc.present])
                          \o (IF c.q.guarded THEN <<[n |-> "cache-control", v |-> {"private"} \cup acc.kept]>> ELSE <<>>)
                          \o (IF c.site.enabled /\ VariesWhy(c.why, c.a) /\ ~acc.vary_seen
                              THEN <<[n |-> "vary", v |-> {"accept-encoding"}]>> ELSE <<>>)]

No_body_status(status) == status \in {101, 204, 304}

Coded(c, acc, length) ==
    [fields |-> acc.out \o <<[n |-> "content-encoding", v |-> {c.coding}]>> \o length, coding |-> c.coding, noted |-> acc.noted]

AsItCame(c, acc) ==
    [fields |-> acc.out \o (IF c.a.streamed \/ No_body_status(c.a.status) THEN <<>>
                            ELSE IF c.q.method # "HEAD" THEN <<[n |-> "content-length", v |-> {"body"}]>>
                            ELSE IF acc.length # {} THEN <<[n |-> "content-length", v |-> acc.length]>>
                            ELSE <<>>),
     coding |-> "identity", noted |-> acc.noted]

\* gains: compress_buffered succeeded and its output is smaller than the body.
Ending(c, acc, gains) ==
    IF c.why \in {"head", "pieces"} THEN Coded(c, acc, <<>>)
    ELSE IF c.why = "compress" /\ gains THEN Coded(c, acc, <<[n |-> "content-length", v |-> {"coded"}]>>)
    ELSE AsItCame(c, acc)

\* What the answer will say to caches, the location's own fields among it.
Upcoming(loc, a) == SelectSeq(a.fields, LAMBDA h : ~Hidden(loc, h.n)) \o (IF a.status \in AddStatus THEN loc.add_headers ELSE <<>>)

Noted(q, a, hs, loc) == FoldLeft(LAMBDA u, h : note_cache(hs, u, h), Upstream0, Upcoming(loc, a))

Seen(q, a, hs, loc) ==
    IF hs = <<>> \/ ~cache_watch(hs) \/ q.guarded THEN Upstream0
    ELSE settle(hs, [Noted(q, a, hs, loc) EXCEPT !.personal = @ \/ q.authorization # "none"])

Context(q, a, hs, why, loc, site) ==
    [q |-> q, a |-> a, hs |-> hs, u |-> Seen(q, a, hs, loc), why |-> why, coding |-> choose_encoding(q.accept, site.codings),
     loc |-> loc, site |-> site]

Filled(c, noted, gains) == Ending(c, After(c, AddLoop(c, FieldLoop(c, noted))), gains)

\* begun: StreamEncoder::begin found the worker's budget free.
apply_upstream_result(q, a, hs, loc, site, noted, begun, gains) ==
    Filled(Context(q, a, hs, IF decide(q, a, site) = "pieces" /\ ~begun THEN "budget" ELSE decide(q, a, site), loc, site), noted, gains)

----
(* agensio's own answers: a file's fields (StaticHandler::add_headers) and what the writers send of them. *)

add_headers(loc, guarded, unsettled) ==
    SelectSeq(loc.add_headers,
              LAMBDA h : \/ ~guarded /\ ~unsettled
                         \/ h.n # "cache-control" /\ ~shared_only_field(h.n) /\ ~(unsettled /\ h.n = "expires"))
    \o (IF unsettled THEN <<[n |-> "cache-control", v |-> {"no-store"}]>>
        ELSE IF guarded THEN <<[n |-> "cache-control", v |-> {"private"}]>>
        ELSE <<>>)

\* The decisions a field agensio wrote into its own block stands over.
Standing(hs, o) == IF o.own_fields THEN {i \in 1 .. Len(hs) : \E j \in 1 .. Len(o.block) : o.block[j].n = hs[i].n} ELSE {}

Free(hs, i, guarded, standing) == i # 0 /\ ~(guarded /\ hs[i].cache_field) /\ i \notin standing

Dropped(hs, i, guarded, standing) == Free(hs, i, guarded, standing) /\ hs[i].verb # "fallback"

Kept(hs, headers, guarded, standing) == SelectSeq(headers, LAMBDA h : ~Dropped(hs, find(hs, h.n), guarded, standing))

Copied(hs, headers, guarded, standing) ==
    standing \cup {i \in 1 .. Len(hs) : Free(hs, i, guarded, standing) /\ \E j \in 1 .. Len(headers) : headers[j].n = hs[i].n}

OwnLine(hs, i, guarded, standing, present) ==
    /\ hs[i].verb # "remove"
    /\ Free(hs, i, guarded, standing)
    /\ hs[i].verb = "fallback" => i \notin present

OwnLines(hs, guarded, standing, present) ==
    FoldLeft(LAMBDA out, i : IF OwnLine(hs, i, guarded, standing, present) THEN Append(out, [n |-> hs[i].n, v |-> hs[i].v]) ELSE out,
             <<>>, [i \in 1 .. Len(hs) |-> i])

\* Mutant: the rules' lines are added over agensio's own.
apply_over(hs, headers, o, guarded) == headers \o OwnLines(hs, guarded, {}, {})

apply(hs, headers, o, guarded) ==
    Kept(hs, headers, guarded, Standing(hs, o))
        \o OwnLines(hs, guarded, Standing(hs, o), Copied(hs, headers, guarded, Standing(hs, o)))

PrebuiltLines(hs) == FoldLeft(LAMBDA out, d : IF d.verb = "remove" THEN out ELSE Append(out, [n |-> d.n, v |-> d.v]), <<>>, hs)

plain(q, o, headers) == headers = <<>> /\ ~o.own_fields /\ ~q.guarded

\* The HTTP/1 writer sends the node's prebuilt lines where the answer has nothing to look at; the others always apply.
ExtraFields(q, o, hs, headers) ==
    IF hs = <<>> THEN headers
    ELSE IF q.protocol \in {"1.0", "1.1"} /\ plain(q, o, headers) THEN PrebuiltLines(hs)
    ELSE apply(hs, headers, o, q.guarded \/ o.unsettled)

\* A 304 and a 200 of a file carry the location's fields; a page its own extra ones.
OwnHeaders(q, o, loc) == IF o.file # <<>> THEN add_headers(loc, q.guarded, o.unsettled) ELSE o.headers

SiteLines(q, site) == IF q.tls /\ site.hsts # {} THEN <<[n |-> "hsts", v |-> site.hsts]>> ELSE <<>>

build_head(q, site, block, extra) == SiteLines(q, site) \o block \o extra

----
(* What is asked, and the shared cache in between.                                                       *)

\* by: the request the answer was made for; alone: the fields its maker alone would have sent.
Nothing == [from |-> "nobody", q |-> <<>>, by |-> <<>>, a |-> <<>>, file |-> <<>>, status |-> 0, fields |-> <<>>, alone |-> <<>>, coding |-> "identity"]

Init ==
    /\ setting \in Settings
    /\ s = [nodes |-> build_response_headers(setting.rules), noted |-> [application |-> FALSE, narrowed |-> FALSE],
            stored |-> Nothing, last |-> Nothing, made |-> 0]

Values(fields, n) == UNION {fields[i].v : i \in {i \in 1 .. Len(fields) : fields[i].n = n}}

Has(fields, n) == \E i \in 1 .. Len(fields) : fields[i].n = n

\* The fields a cache reads: the first of its own list that the answer has (RFC 9213 2.2), else Cache-Control.
Lists == {<<>>, <<"cdn-cache-control">>, <<"surrogate-control">>, <<"surrogate-control", "cdn-cache-control">>}

Followed(fields, list) ==
    LET at == SelectInSeq(list, LAMBDA n : Has(fields, n)) IN IF at = 0 THEN "cache-control" ELSE list[at]

Granted(fields, n) ==
    /\ restrictions(Values(fields, n), FALSE) = {}
    /\ \/ shared_lifetime(Values(fields, n))
       \/ n = "cache-control" /\ Values(fields, n) \cap {"s-maxage", "s-maxage=0", "max-age"} = {} /\ Has(fields, "expires")

\* The answer gives a shared cache with this list a lifetime of its own.
Explicit(fields, list) == Granted(fields, Followed(fields, list))

\* A shared cache with this list may keep the answer: RFC 9111 3, 3.5 and the heuristic of 4.2.2.
Keeps(q, status, fields, list) ==
    /\ q.method = "GET"
    /\ status = 200
    /\ restrictions(Values(fields, Followed(fields, list)), FALSE) = {}
    /\ q.authorization # "none" => Values(fields, Followed(fields, list)) \cap {"public", "s-maxage"} # {}

Shareable(q, status, fields) == \E list \in Lists : Keeps(q, status, fields, list)

Delivered(k, answer) ==
    [k EXCEPT !.last = answer, !.made = @ + 1,
              !.stored = IF Shareable(answer.q, answer.status, answer.fields) THEN [answer EXCEPT !.from = "cache"] ELSE @]

AnswerOf(q, a, file, status, head, alone, coding) ==
    [from |-> IF file = <<"page">> THEN "page" ELSE IF file # <<>> THEN "file" ELSE "application",
     q |-> q, by |-> q, a |-> a, file |-> file, status |-> status, fields |-> head, alone |-> alone, coding |-> coding]

FromUpstream(k, q, a, r) ==
    Delivered([k EXCEPT !.noted = r.noted],
              AnswerOf(q, a, <<>>, a.status, build_head(q, setting.site, r.fields, <<>>), Upcoming(setting.loc, a), r.coding))

Rules(k, q, status, file) == IF status < 200 THEN <<>> ELSE pending(k.nodes, lookup(k.nodes, q.path), status, file)

\* The application's answer to a request, whatever the encoder's budget and the coding make of it.
Application ==
    /\ s.made < setting.most
    /\ \E q \in setting.requests, a \in setting.answers, begun \in BOOLEAN, gains \in BOOLEAN :
           s' = FromUpstream(s, q, a, apply_upstream_result(q, a, Rules(s, q, a.status, <<>>), setting.loc, setting.site, s.noted, begun, gains))

FromOwn(k, q, o, headers) ==
    Delivered(k, AnswerOf(q, o, IF o.file = <<>> THEN <<"page">> ELSE o.file, o.status,
                          build_head(q, setting.site, o.block, ExtraFields(q, o, Rules(k, q, o.status, o.file), headers)),
                          o.block \o headers, "identity"))

\* A file, an error page or a redirect of agensio's.
Own == s.made < setting.most /\ \E q \in setting.requests, o \in setting.own : s' = FromOwn(s, q, o, OwnHeaders(q, o, setting.loc))

\* The cache's key: the path, and what Vary names (RFC 9111 4.1).
Reusable(q, e) ==
    /\ q.path = e.by.path
    /\ "*" \notin Values(e.fields, "vary")
    /\ "accept-encoding" \in Values(e.fields, "vary") => q.accept = e.by.accept
    /\ Values(e.fields, "vary") \cap {"cookie", "authorization"} # {} => q.user = e.by.user

FromCache ==
    /\ s.stored.from = "cache"
    /\ \E q \in setting.requests : q.method = "GET" /\ Reusable(q, s.stored) /\ s' = [s EXCEPT !.last = [s.stored EXCEPT !.q = q]]

Next == UNCHANGED setting /\ (Application \/ Own \/ FromCache)

Spec == Init /\ [][Next]_<<s, setting>>

----
(* Properties.                                                                                           *)

Names == {"cache-control", "cdn-cache-control", "surrogate-control", "expires", "set-cookie", "vary", "etag", "content-encoding",
          "content-type", "content-length", "accept-ranges", "location", "hsts", "x-frame", "x-type", "connection"}

\* Every answer is made of known fields, and its coding is one of the codings.
TypeOK ==
    /\ \A i \in 1 .. Len(s.last.fields) : s.last.fields[i].n \in Names
    /\ s.last.coding \in {"identity", "zstd", "br", "gzip"}
    /\ s.stored.from \in {"nobody", "cache"}

\* What one rule names, against what another does: the more specific decides (docs/headers.md 2.2).
Specific(r) == <<Len(r.path), IF r.exact THEN 1 ELSE 0, IF r.baseline THEN 0 ELSE 1, IF r.endings # {} THEN 1 ELSE 0>>

Above(x, y) ==
    \E i \in 1 .. 4 : x[i] > y[i] /\ \A j \in 1 .. i - 1 : x[j] = y[j]

Naming(q, status, file, n) ==
    {<<i, j>> \in (1 .. Len(setting.rules)) \X (1 .. 4) :
        /\ j <= Len(setting.rules[i].says)
        /\ setting.rules[i].says[j].n = n
        /\ RuleCovers(setting.rules[i], q.path)
        /\ setting.rules[i].success_only => success(status)
        /\ setting.rules[i].endings # {} => \E e \in setting.rules[i].endings : IsSuffix(e, file) /\ Len(e) < Len(file)}

Deciding(q, status, file, n) ==
    CHOOSE x \in Naming(q, status, file, n) :
        \A y \in Naming(q, status, file, n) : y = x \/ Above(Specific(setting.rules[x[1]]), Specific(setting.rules[y[1]]))

Copies(fields, n) == SelectSeq(fields, LAMBDA h : h.n = n)

\* The copies of a field an answer should have: the rule's where the deciding rule sets it, none where it removes it, the
\* maker's where it has any and the rule only gives a default.
Expected(l, n, r, say) ==
    IF say.verb = "remove" THEN <<>>
    ELSE IF say.verb = "set" \/ Copies(l.alone, n) = <<>> THEN <<[n |-> n, v |-> say.v]>>
    ELSE Copies(l.alone, n)

Ruling(l, n, x) ==
    IF setting.rules[x[1]].own_only /\ l.from = "application" THEN Copies(l.alone, n)
    ELSE Expected(l, n, setting.rules[x[1]], setting.rules[x[1]].says[x[2]])

\* For each field the most specific rule naming it decides, whatever order the rules are written in: set sends its one copy, remove
\* none, default only where the answer has none. Checked on the fields no guard reads, for applications and for agensio's own
\* answers, over each protocol (build_response_headers, lookup, keep_upstream, append_upstream, apply, plain).
RulesDecide ==
    \A n \in {"x-frame", "x-type"} :
        s.last.from \in {"application", "file", "page"} =>
            Copies(s.last.fields, n) =
                IF s.last.status < 200 \/ Naming(s.last.q, s.last.status, s.last.file, n) = {} THEN Copies(s.last.alone, n)
                ELSE Ruling(s.last, n, Deciding(s.last.q, s.last.status, s.last.file, n))

Personal(l) ==
    \/ Has(l.alone, "set-cookie")
    \/ Values(l.alone, "vary") \cap {"*", "cookie", "authorization"} # {}
    \/ l.by.authorization # "none"

Restricted(l) == \E list \in Lists : restrictions(Values(l.alone, Followed(l.alone, list)), TRUE) # {}

\* A rule never makes an application's answer one that a shared cache may hand to another visitor: where the answer is one user's
\* or carries a restriction, no cache that would not have kept it without the rules keeps it with them, and none is given a
\* lifetime that the application did not give (settle, append_upstream; docs/headers.md 2.4).
RulesOpenNothing ==
    s.last.from = "application" /\ (Personal(s.last) \/ Restricted(s.last)) =>
        \A list \in Lists :
            /\ Keeps(s.last.by, s.last.status, s.last.fields, list) => Keeps(s.last.by, s.last.status, s.last.alone, list)
            /\ Explicit(s.last.fields, list) => Explicit(s.last.alone, list)

\* What a password protects, and a file still being written, no visitor ever gets from a shared cache, whatever the application,
\* the location's fields and the rules say (upstream_common.cpp's guard, StaticHandler::add_headers, apply's guarded).
GuardedNeverShared ==
    s.last.from = "cache" => ~s.last.by.guarded /\ (s.last.file # <<>> => ~s.last.a.unsettled)

Accepts(q, coding) == coding = "identity" \/ Weight(q.accept, coding) > 0

\* No client gets a coding it does not accept, from the server or from a cache in between (choose_encoding, Vary), and a coded
\* answer never carries the validator, the ranges or the length of the uncoded bytes.
CodedForWhoAsked ==
    /\ Accepts(s.last.q, s.last.coding)
    /\ s.last.coding # "identity" =>
        /\ "strong" \notin Values(s.last.fields, "etag")
        /\ ~Has(s.last.fields, "accept-ranges")
        /\ Values(s.last.fields, "content-length") \subseteq {"coded"}
        /\ Values(s.last.fields, "content-encoding") = {s.last.coding}
    /\ s.last.coding = "identity" => "coded" \notin Values(s.last.fields, "content-length")

\* Two clients that differ only in what they accept: where one may get the answer coded, the other's says that it varies
\* (RFC 9110 12.5.5; apply_upstream_result's `vary`).
VaryAgrees ==
    s.last.from = "application" =>
        \A q \in setting.requests :
            [q EXCEPT !.accept = s.last.q.accept] = s.last.q /\ decide(q, s.last.a, setting.site) \in {"compress", "pieces"}
                => Values(s.last.fields, "vary") \cap {"accept-encoding", "*"} # {}

\* A HEAD's Content-Length is never one the GET of the same answer would not have had (RFC 9110 8.6).
HeadHonest ==
    s.last.from = "application" /\ s.last.q.method = "HEAD" /\ Has(s.last.fields, "content-length") =>
        decide([s.last.q EXCEPT !.method = "GET"], s.last.a, setting.site) \notin {"compress", "pieces"}

\* Over TLS the site's hsts is the only one, and a site that strips it sends none; a redirect of the application names neither the
\* origin it was asked at nor the site over plain HTTP where that redirects (rewrite_location, upgrade_location).
SiteSpeaks ==
    s.last.from = "application" =>
        /\ s.last.q.tls /\ setting.site.hsts # {} => Copies(s.last.fields, "hsts") = <<[n |-> "hsts", v |-> setting.site.hsts]>>
        /\ s.last.q.tls /\ setting.site.strip_hsts => ~Has(s.last.fields, "hsts")
        /\ s.last.q.tls /\ setting.site.http_redirect => ~({"http", "site"} \subseteq Values(s.last.fields, "location"))
        /\ setting.loc.proxied /\ setting.loc.rewrite_redirects /\ "under" \in Values(s.last.fields, "location")
            => Values(s.last.fields, "location") \cap setting.loc.origin = {}

FieldsStep ==
    (TypeOK /\ RulesDecide /\ RulesOpenNothing /\ GuardedNeverShared /\ CodedForWhoAsked /\ VaryAgrees /\ HeadHonest /\ SiteSpeaks)'

====
