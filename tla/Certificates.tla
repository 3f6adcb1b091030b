----------------------------- MODULE Certificates -----------------------------
(* Automatic certificates and how a new one comes to be served                 *)
(* (services/acme.cpp, services/certificates.cpp; of server.cpp the loading,   *)
(* the refresh and the hourly watch).                                          *)
(*                                                                             *)
(* The manager runs on worker 0 and orders on a thread, which writes the key   *)
(* and then the certificate while worker 0 goes on: what worker 0 loads, a     *)
(* stat, the certificate, the key, it reads one file at a time.  Another tool  *)
(* renews a site's own pair the same way.  An hour is one unit of time.        *)
EXTENDS Naturals, Sequences, FiniteSets, SequencesExt

CONSTANTS Settings      \* the situations looked at

VARIABLES
    s,        \* the files, worker 0 and the order's thread
    setting   \* the situation, which no step changes

vars == <<s, setting>>

Sites == setting.sites               \* pairs, named by the site that has them
Automatic == setting.automatic       \* those with tls = "auto"
MaxKeys == setting.keys              \* bound: keys made
End == setting.end                   \* bound: hours
Life == 4                            \* a certificate's lifetime
Never == 99                          \* a timer that is not armed
Fails(what) == IF what \in setting.faults THEN BOOLEAN ELSE {FALSE}

NoCert == [key |-> 0, names |-> 0, made |-> 0, placeholder |-> TRUE]
NoJob == [op |-> "none"]
NoOrder == [pc |-> "none"]

Stamp(k, c) == <<k.disk[c].key, k.disk[c].cert.key>>      \* pair_stamp: every write makes a new file
Matches(k, c) == k.disk[c].key = k.disk[c].cert.key /\ k.disk[c].key # 0

Fresh(key, names, made, placeholder) == [key |-> key, names |-> names, made |-> made, placeholder |-> placeholder]

Managed(k) == {c \in Automatic : k.conf[c] > 0}           \* sites_of
-----------------------------------------------------------------------------
(* The manager                                                                *)
renewal_due(cert, now) == now >= cert.made + Life \/ (cert.made + Life - now) * 3 < Life

\* Of the certificate's file alone: no certificate, a placeholder, a name it does not
\* cover, less than a third of its lifetime left.
needs_renewal(k, c) ==
    LET cert == k.disk[c].cert
    IN cert = NoCert \/ cert.placeholder \/ cert.names < k.conf[c] \/ renewal_due(cert, k.now)

Waits(k, c) == k.failed[c] # Never /\ k.now - k.failed[c] < 1

arm(k) == [k EXCEPT !.timer = k.now + 1]

\* Mutant: a failed order is tried again at the next check.
check_at_once(k) ==
    LET due == {c \in Managed(k) : c \in k.forced \/ needs_renewal(k, c)}
    IN IF k.busy THEN k
       ELSE IF due = {} THEN arm(k)
       ELSE [k EXCEPT !.forced = {}, !.busy = TRUE, !.asked = k.forced,
                      !.order = [pc |-> "open", todo |-> SetToSeq(due), results |-> <<>>, names |-> k.conf,
                                 nonce |-> "none", tries |-> 0, polls |-> 0, name |-> 1, key |-> 0]]

\* While an order runs its end checks again; nothing due, the timer does.
check(k) ==
    LET due == {c \in Managed(k) : ~Waits(k, c) /\ (c \in k.forced \/ needs_renewal(k, c))}
    IN IF k.busy THEN k
       ELSE IF due = {} THEN arm(k)
       ELSE [k EXCEPT !.forced = {}, !.busy = TRUE, !.asked = k.forced,
                      !.order = [pc |-> "open", todo |-> SetToSeq(due), results |-> <<>>, names |-> k.conf,
                                 nonce |-> "none", tries |-> 0, polls |-> 0, name |-> 1, key |-> 0]]

update(k) == IF Managed(k) = {} THEN k ELSE check(k)

renew_now(k, c) ==
    IF c \notin Managed(k) THEN k ELSE check([k EXCEPT !.failed[c] = Never, !.forced = @ \cup {c}])
-----------------------------------------------------------------------------
(* The order's thread                                                         *)
Current == Head(s.order.todo)

\* The steps of an order, each a signed request; `open` stands for the account, `auth` to
\* `poll` are done for every name, `poll` and `wait` asked again while the CA is not done.
After(pc, last) ==
    CASE pc = "open" -> "newOrder" [] pc = "newOrder" -> "auth" [] pc = "auth" -> "challenge"
      [] pc = "challenge" -> "poll" [] pc = "poll" -> IF last THEN "finalize" ELSE "auth"
      [] pc = "finalize" -> "wait" [] pc = "wait" -> "download" [] OTHER -> "key"

Requests == {"open", "newOrder", "auth", "challenge", "poll", "finalize", "wait", "download"}

Ended(k, ok) ==
    LET results == Append(k.order.results, [c |-> Head(k.order.todo), ok |-> ok])
    IN IF Len(k.order.todo) = 1 THEN [k EXCEPT !.order = [pc |-> "posted", results |-> results]]
       ELSE [k EXCEPT !.order = [@ EXCEPT !.todo = Tail(@), !.results = results, !.pc = "open", !.nonce = "none",
                                          !.tries = 0, !.polls = 0, !.name = 1]]

\* Mutant: an order that fails leaves its token published.
Failed_token(k) == Ended(k, FALSE)

\* cleanup: the tokens of the order go with it.
Failed(k) == Ended([k EXCEPT !.tokens = {}], FALSE)

\* A name's token is published before the CA is told to fetch it, and taken away with the
\* others once the certificate is ready.
Answered(k) ==
    LET pc == k.order.pc
        tokens == CASE pc = "auth" -> k.tokens \cup {<<Head(k.order.todo), k.order.name>>} [] pc = "wait" -> {} [] OTHER -> k.tokens
        last == k.order.name = k.order.names[Head(k.order.todo)]
    IN [k EXCEPT !.tokens = tokens, !.order.pc = After(pc, last), !.order.tries = 0, !.order.polls = 0,
                 !.order.name = IF pc = "poll" /\ ~last THEN @ + 1 ELSE @]

\* A name the CA validated lately needs no challenge.
Valid(k) == Answered([k EXCEPT !.order.pc = "poll"])


\* A request goes to the CA over a connection of its own (https_request): its nonce is used.
Sent(k) == [k EXCEPT !.order.nonce = "none"]

fetch_nonce ==
    /\ s.order.pc \in Requests /\ s.order.nonce = "none"
    /\ \E fails \in Fails("network") : s' = IF fails THEN Failed(s) ELSE [s EXCEPT !.order.nonce = "fresh"]

\* post: the answer brings the next nonce; a nonce the CA refuses is tried once more.
post ==
    /\ s.order.pc \in Requests /\ s.order.nonce # "none"
    /\ LET k == Sent(s)
           next(x) == IF setting.nonces THEN [x EXCEPT !.order.nonce = "fresh"] ELSE x
       IN \/ s' = next(Answered(k))
          \/ s.order.pc = "auth" /\ s' = next(Valid(k))
          \/ /\ s.order.pc \in {"poll", "wait"} /\ s.order.polls + 1 < setting.polls
             /\ s' = next([k EXCEPT !.order.polls = @ + 1, !.order.tries = 0])
          \/ "nonce" \in setting.faults /\ s' = IF s.order.tries = 1 THEN Failed(k) ELSE next([k EXCEPT !.order.tries = 1])
          \/ "refused" \in setting.faults /\ s' = Failed(k)

\* write_file twice: the key, then the certificate, each renamed into its place.
write_key ==
    /\ s.order.pc = "key" /\ s.keys < MaxKeys
    /\ \E fails \in Fails("disk") :
         s' = IF fails THEN Failed(s)
              ELSE [s EXCEPT !.keys = @ + 1, !.disk[Current].key = s.keys + 1, !.order.pc = "cert", !.order.key = s.keys + 1]

write_cert ==
    /\ s.order.pc = "cert"
    /\ \E fails \in Fails("disk") :
         s' = IF fails THEN Failed(s)
              ELSE Ended([s EXCEPT !.disk[Current].cert = Fresh(s.order.key, s.order.names[Current], s.now, FALSE)], TRUE)

Order == fetch_nonce \/ post \/ write_key \/ write_cert
-----------------------------------------------------------------------------
(* Worker 0: loading pairs.  A job is a handler that runs to its end.          *)
Job(op, todo, conf) ==
    [op |-> op, todo |-> todo, conf |-> conf, got |-> [c \in Sites |-> NoCert], pc |-> "stamp", cert |-> NoCert,
     carried |-> {}]

Served(k) == {c \in Sites : k.conf[c] > 0}

LoadStamp(k, c) == [k EXCEPT !.stamps[c] = Stamp(k, c), !.job.pc = "cert"]

LoadCert(k, c) == [k EXCEPT !.job.cert = k.disk[c].cert, !.job.pc = "key"]

\* Mutant: the files are looked at after they were loaded.
LoadKey_stamps(k, c) ==
    LET ok == k.job.cert.key = k.disk[c].key /\ k.job.cert # NoCert
        again == k.job.op = "reload" /\ ~ok /\ k.conf[c] > 0 /\ c \notin k.job.carried
        left == IF again THEN k.job.todo ELSE Tail(k.job.todo)
    IN [k EXCEPT !.job.got[c] = IF ok THEN k.job.cert ELSE NoCert, !.job.todo = left, !.job.pc = "stamp",
                 !.stamps[c] = Stamp(k, c)]

\* use_private_key_file checks that the key is the certificate's.
LoadKey(k, c) ==
    LET ok == k.job.cert.key = k.disk[c].key /\ k.job.cert # NoCert
        again == k.job.op = "reload" /\ ~ok /\ k.conf[c] > 0 /\ c \notin k.job.carried
        left == IF again THEN k.job.todo ELSE Tail(k.job.todo)
    IN [k EXCEPT !.job.got[c] = IF ok THEN k.job.cert ELSE NoCert, !.job.todo = left, !.job.pc = "stamp",
                 !.job.carried = IF again THEN @ \cup {c} ELSE @]

load_certificate_pair ==
    /\ s.job # NoJob /\ s.job.todo # <<>>
    /\ LET c == Head(s.job.todo) IN
       s' = CASE s.job.pc = "stamp" -> LoadStamp(s, c)
              [] s.job.pc = "cert" -> LoadCert(s, c)
              [] OTHER -> LoadKey(s, c)

\* What does not load keeps serving.
Taken(k) == [c \in Sites |-> IF k.job.got[c] # NoCert THEN k.job.got[c] ELSE k.served[c]]

\* The watch arms itself again; the manager checks after a completion.
refresh_certificates ==
    /\ s.job # NoJob /\ s.job.todo = <<>> /\ s.job.op \in {"refresh", "watch", "completed"}
    /\ \E refused \in Fails("late") :
       LET k == [s EXCEPT !.served = IF refused THEN @ ELSE Taken(s), !.job = NoJob]
       IN s' = CASE s.job.op = "watch" -> [k EXCEPT !.watch = k.now + 1]
                 [] s.job.op = "completed" -> check(k)
                 [] OTHER -> k

\* isolate_certificates: a site whose pair does not load is served in its running version,
\* with the certificate loaded before, or not at all.  A reload refused now (must_load, a
\* listener) drops what it loaded.
reload ==
    /\ s.job # NoJob /\ s.job.todo = <<>> /\ s.job.op = "reload"
    /\ LET conf == [c \in Sites |-> IF s.job.conf[c] > 0 /\ (s.job.got[c] = NoCert \/ c \in s.job.carried) THEN s.conf[c] ELSE s.job.conf[c]]
           certs == [c \in Sites |-> IF conf[c] = 0 THEN NoCert ELSE Taken(s)[c]]
       IN \/ s' = update([s EXCEPT !.conf = conf, !.served = certs, !.job = NoJob])
          \/ "late" \in setting.faults /\ s' = [s EXCEPT !.job = NoJob]
-----------------------------------------------------------------------------
(* Worker 0: what starts its handlers                                         *)
Free == s.job = NoJob

\* A reload: storage and placeholders first, then the pairs of the new configuration.
prepare_reload ==
    /\ Free /\ s.reloads < setting.reloads
    /\ \E c \in Sites, n \in 0 .. 2 :
         LET conf == [s.conf EXCEPT ![c] = n]
             new == {x \in Automatic : conf[x] > 0 /\ (s.disk[x].key = 0 \/ s.disk[x].cert = NoCert)}
         IN /\ n # s.conf[c] /\ conf # [x \in Sites |-> 0] /\ s.keys + Cardinality(new) <= MaxKeys
            /\ s' = [s EXCEPT !.reloads = @ + 1, !.keys = @ + Cardinality(new),
                              !.disk = [x \in Sites |->
                                  IF x \in new THEN [key |-> s.keys + 1, cert |-> Fresh(s.keys + 1, conf[x], s.now, TRUE)] ELSE @[x]],
                              !.job = Job("reload", SetToSeq({x \in Sites : conf[x] > 0}), conf)]

\* The manager's timer.
AcmeTimer == Free /\ s.timer <= s.now /\ s' = check([s EXCEPT !.timer = Never])

\* The thread's result at worker 0: a renewal is loaded, then the next check.
Completed ==
    /\ Free /\ s.order.pc = "posted"
    /\ LET results == Range(s.order.results)
           failed == [c \in Sites |-> IF [c |-> c, ok |-> TRUE] \in results THEN Never
                                      ELSE IF [c |-> c, ok |-> FALSE] \in results THEN s.now ELSE s.failed[c]]
           k == [s EXCEPT !.busy = FALSE, !.order = NoOrder, !.failed = failed, !.asked = {}]
       IN s' = IF \E r \in results : r.ok THEN [k EXCEPT !.job = Job("completed", SetToSeq(Served(k)), k.conf)] ELSE check(k)

\* cert-renew: an order, or the site's own files loaded now.
renew_certificate ==
    /\ Free /\ s.renews < setting.renews
    /\ \E c \in Served(s) :
         LET k == [s EXCEPT !.renews = @ + 1]
         IN s' = IF c \in Automatic THEN renew_now(k, c) ELSE [k EXCEPT !.job = Job("refresh", <<c>>, k.conf)]

\* The hourly watch: the pairs whose files changed since they were last looked at.
arm_certificate_watch ==
    /\ Free /\ s.watch <= s.now
    /\ LET changed == {c \in Served(s) : s.stamps[c] # Stamp(s, c)}
       IN s' = IF changed = {} THEN [s EXCEPT !.watch = s.now + 1]
               ELSE [s EXCEPT !.job = Job("watch", SetToSeq(changed), s.conf), !.watch = Never]
-----------------------------------------------------------------------------
(* Around the server                                                          *)
\* Another tool renews a pair it keeps, key first.
OtherTool ==
    /\ "tool" \in setting.faults
    /\ \E c \in Sites \ Automatic :
         \/ Matches(s, c) /\ s.keys < MaxKeys /\ s' = [s EXCEPT !.keys = @ + 1, !.disk[c].key = s.keys + 1]
         \/ ~Matches(s, c) /\ s.disk[c].key # 0 /\ s' = [s EXCEPT !.disk[c].cert = Fresh(s.disk[c].key, 2, s.now, FALSE)]

\* An hour passes, once what was due in this one has been done.
Tick ==
    /\ s.now < End /\ Free /\ s.timer > s.now /\ s.watch > s.now /\ ~s.busy
    /\ s' = [s EXCEPT !.now = @ + 1]

\* The process ends and starts again: the pairs are loaded from the files, and a site whose
\* pair does not load is not served, nor looked after.
Restart ==
    /\ "crash" \in setting.faults /\ ~s.crashed
    /\ LET conf == [c \in Sites |-> IF s.conf[c] > 0 /\ Matches(s, c) THEN s.conf[c] ELSE 0]
       IN s' = update([s EXCEPT !.crashed = TRUE, !.conf = conf, !.job = NoJob, !.order = NoOrder, !.busy = FALSE, !.tokens = {},
                                !.timer = Never, !.forced = {}, !.asked = {}, !.failed = [c \in Sites |-> Never], !.watch = s.now + 1,
                                !.served = [c \in Sites |-> IF conf[c] > 0 THEN s.disk[c].cert ELSE NoCert],
                                !.stamps = [c \in Sites |-> IF s.conf[c] > 0 THEN Stamp(s, c) ELSE <<0, 0>>]])

Init ==
    /\ setting \in Settings
    /\ LET pair == [c \in Sites |-> IF setting.start[c] = 0 THEN [key |-> 0, cert |-> NoCert]
                                     ELSE [key |-> 1, cert |-> Fresh(1, setting.start[c], 0, FALSE)]]
       IN s = arm([now |-> 0, conf |-> setting.start, disk |-> pair, served |-> [c \in Sites |-> pair[c].cert],
                   stamps |-> [c \in Sites |-> <<pair[c].key, pair[c].key>>], keys |-> 1, job |-> NoJob, order |-> NoOrder,
                   busy |-> FALSE, timer |-> Never, watch |-> 1, failed |-> [c \in Sites |-> Never], forced |-> {}, asked |-> {},
                   tokens |-> {}, reloads |-> 0, renews |-> 0, crashed |-> FALSE])

Next ==
    /\ UNCHANGED setting
    /\ \/ Order \/ load_certificate_pair \/ refresh_certificates \/ reload
       \/ prepare_reload \/ AcmeTimer \/ Completed \/ renew_certificate \/ arm_certificate_watch
       \/ OtherTool \/ Tick \/ Restart
-----------------------------------------------------------------------------
\* A pair on disk that would load and is not the one served is noticed: the next watch finds
\* its files changed (load_certificates, refresh_certificates, arm_certificate_watch).
NewestNoticed ==
    s.job = NoJob =>
      \A c \in Served(s) : Matches(s, c) /\ s.disk[c].cert # s.served[c] => s.stamps[c] # Stamp(s, c)

\* While there are sites to look after, an order runs whose end checks again, or the hour's
\* timer is armed (check, arm).
ManagerComesBack == Managed(s) # {} /\ s.job = NoJob => s.busy \/ s.timer # Never

\* The CA finds the token of the name it validates, and an order's tokens are published for
\* no longer than the order (issue); a nonce is sent once (post).
OrderSound ==
    /\ s.order.pc \in Requests => s.order.nonce # "used"
    /\ s.order.pc \in {"challenge", "poll"} => <<Current, s.order.name>> \in s.tokens
    /\ s.tokens # {} => s.order.pc \in {"auth", "challenge", "poll", "finalize", "wait"} /\ s.tokens \subseteq {Current} \X (1 .. 2)

\* A site is ordered for because somebody asked, or because its certificate needs it and its
\* last order did not fail within the hour (check, renew_now).
OrdersSpaced ==
    s.order.pc # "open" /\ s'.order.pc = "open" /\ s'.order.results = <<>> =>
      \A c \in Range(s'.order.todo) : c \in s'.asked \/ (needs_renewal(s', c) /\ ~Waits(s', c))

\* The four, of a step and the state after it.
CertificateStep == (NewestNoticed /\ ManagerComesBack /\ OrderSound)' /\ OrdersSpaced

\* "A failed order is [...] retried an hour later" (docs/tls.md:77): whoever failed an hour
\* ago is ordered for again by the check that follows.
FailedRetried ==
    s.busy = FALSE /\ s'.timer = s'.now + 1 /\ s.timer # s'.timer /\ ~s'.busy =>
      \A c \in Managed(s) : s.failed[c] = Never \/ s.now - s.failed[c] < 1
-----------------------------------------------------------------------------
Spec == Init /\ [][Next]_vars
=============================================================================
