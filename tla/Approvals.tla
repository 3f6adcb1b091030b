----------------------------- MODULE Approvals -----------------------------
(* The changes that wait for a person's approval: ApprovalStore               *)
(* (control/approvals.cpp) and the handlers of control/handler.cpp that queue *)
(* them, answer them, take the code that approves a batch of them and run the *)
(* batch one after the other.                                                 *)
(*                                                                            *)
(* All of it is worker 0's, so a step is what one callback does; between the  *)
(* callbacks of one approval (the code's answer from the helper, the end of   *)
(* each change) every other request runs.  A change is named by its place in  *)
(* the order of queueing: the ids of the code are random and never reused.    *)
(* What the code check does is in the module Approvers; here it answers.      *)
EXTENDS Integers, Sequences, SequencesExt, FiniteSets

CONSTANTS
    Posts,         \* POST /v1/approvals requests open at a time
    MaxChanges,    \* bound: changes queued
    MaxIds,        \* bound: ids named in one approval
    MaxWaiting,    \* ApprovalStore::kMaxWaiting
    Ttl,           \* ApprovalStore::kTtl
    MaxTime        \* bound: the clock

VARIABLES
    now,       \* std::time
    change,    \* ApprovalStore::changes_
    queued,    \* changes queued so far
    post,      \* the open approvals: ids and the place in run_approved
    runs,      \* history: how often a change's request was run
    handed     \* history: how many answers carried its secret (2: two or more)

vars == <<now, change, queued, post, runs, handed>>

Ids == 1 .. MaxChanges
Final == {"done", "failed", "rejected", "skipped"}
States == {"waiting", "running"} \cup Final

\* since: created while it waits, finished once it is over; result: the answer
\* kept, as far as it is a secret.
Absent == [state |-> "absent", since |-> 0, secret |-> FALSE,
           result |-> "none", taken |-> FALSE]
Idle == [at |-> "idle", ids |-> <<>>, next |-> 0]

Init ==
    /\ now = 0
    /\ change = [i \in Ids |-> Absent]
    /\ queued = 0
    /\ post = [p \in Posts |-> Idle]
    /\ runs = [i \in Ids |-> 0]
    /\ handed = [i \in Ids |-> 0]
-----------------------------------------------------------------------------
(* The store.  Every function of it drops what is over age first.             *)
OverAge(c) == c.state \in {"waiting"} \cup Final /\ now - c.since >= Ttl

expire(store) == [i \in Ids |-> IF OverAge(store[i]) THEN Absent ELSE store[i]]

Found(store, i) == store[i].state # "absent"

Waiting(store) == {i \in Ids : store[i].state = "waiting"}

\* queue_for_approval, once the change's own dry run has answered that it would
\* run: the record is made and stored, or refused with 429.
queue_for_approval(secret) ==
    LET live == expire(change) IN
    /\ IF Cardinality(Waiting(live)) >= MaxWaiting
       THEN change' = live /\ UNCHANGED queued
       ELSE /\ queued < MaxChanges
            /\ queued' = queued + 1
            /\ change' = [live EXCEPT ![queued + 1] =
                            [Absent EXCEPT !.state = "waiting", !.since = now,
                                           !.secret = secret]]
    /\ UNCHANGED <<now, post, runs, handed>>

reject(i) ==
    LET live == expire(change) IN
    /\ live[i].state = "waiting"
    /\ change' = [live EXCEPT ![i].state = "rejected", ![i].since = now]
    /\ UNCHANGED <<now, queued, post, runs, handed>>
-----------------------------------------------------------------------------
(* Running a batch                                                            *)

Runnable(store, i) == store[i].state = "running"


\* run_approved from place k of the batch on: the first change of it that is
\* still running is run, those before it are passed over, and without one the
\* approval is answered.
run_approved(p, store, ids, k) ==
    LET rest == {n \in k .. Len(ids) : Runnable(store, ids[n])} IN
    IF rest = {}
    THEN post' = [post EXCEPT ![p] = Idle] /\ UNCHANGED runs
    ELSE LET n == CHOOSE m \in rest : \A o \in rest : m <= o
         IN  /\ post' = [post EXCEPT ![p] = [at |-> "running", ids |-> ids, next |-> n]]
             /\ runs' = [runs EXCEPT ![ids[n]] = @ + 1]

\* A request naming changes that all wait: their ids, in the order of queueing,
\* go with the code to the check; otherwise it is refused and nothing changes.
approvals_post(p, named) ==
    LET live == expire(change) IN
    /\ post[p] = Idle
    /\ named # <<>>
    /\ \A n \in DOMAIN named : live[named[n]].state = "waiting"
    /\ change' = live
    /\ post' = [post EXCEPT ![p] = [at |-> "checking", ids |-> SortSeq(named, <), next |-> 0]]
    /\ UNCHANGED <<now, queued, runs, handed>>

\* The check's answer is a refusal, or that it was too busy to look.
refused(p) ==
    /\ post[p].at = "checking"
    /\ post' = [post EXCEPT ![p] = Idle]
    /\ UNCHANGED <<now, change, queued, runs, handed>>

\* Mutant: what was over before the code came back is run as well.
Marked_whatever_their_state(store, ids) ==
    [i \in Ids |-> IF i \in Range(ids) /\ Found(store, i)
                   THEN [store[i] EXCEPT !.state = "running"] ELSE store[i]]

Marked(store, ids) ==
    [i \in Ids |-> IF i \in Range(ids) /\ store[i].state = "waiting"
                   THEN [store[i] EXCEPT !.state = "running"] ELSE store[i]]

\* The code was accepted.
proceed(p) ==
    LET marked == Marked(expire(change), post[p].ids) IN
    /\ post[p].at = "checking"
    /\ change' = marked
    /\ run_approved(p, marked, post[p].ids, 1)
    /\ UNCHANGED <<now, queued, handed>>

\* The changes of the batch after its first failure, from place k on.
Skipped(store, ids, k) ==
    [i \in Ids |-> IF (\E n \in k .. Len(ids) : ids[n] = i) /\ store[i].state = "running"
                   THEN [store[i] EXCEPT !.state = "skipped", !.since = now, !.result = "plain"]
                   ELSE store[i]]

Finished(c, ok) ==
    [c EXCEPT !.state = IF ok THEN "done" ELSE "failed", !.since = now,
              !.result = IF ok /\ c.secret THEN "secret" ELSE "plain"]

\* The end of the change the batch runs (the function `after`).
after(p, ok) ==
    LET ids == post[p].ids
        k == post[p].next
        live == expire(change)
        ended == IF Found(live, ids[k])
                 THEN [live EXCEPT ![ids[k]] = Finished(@, ok)] ELSE live
        store == IF Found(live, ids[k]) /\ ~ok THEN Skipped(ended, ids, k + 1) ELSE ended
    IN /\ post[p].at = "running"
       /\ change' = store
       /\ run_approved(p, store, ids, k + 1)
       /\ UNCHANGED <<now, queued, handed>>
-----------------------------------------------------------------------------
(* Reading: the list never carries a secret; the change asked for by its id   *)
(* carries it to the account that queued it.                                  *)
\* Mutant: the secret stays in the record.
take_read_once_keeps_it(c) ==
    IF c.secret /\ ~c.taken /\ c.state = "done" THEN [c EXCEPT !.taken = TRUE] ELSE c

take_read_once(c) ==
    IF c.secret /\ ~c.taken /\ c.state = "done"
    THEN [c EXCEPT !.taken = TRUE, !.result = "plain"] ELSE c

Carries(c) == c.state \in {"done", "failed", "skipped"} /\ c.result = "secret"

approvals_get(i) ==
    LET live == expire(change) IN
    /\ Found(live, i)
    /\ change' = [live EXCEPT ![i] = take_read_once(@)]
    /\ handed' = IF Carries(live[i]) THEN [handed EXCEPT ![i] = IF @ = 0 THEN 1 ELSE 2] ELSE handed
    /\ UNCHANGED <<now, queued, post, runs>>

\* The list, an unknown id, an id another account asked for, and a request that
\* is refused because a change it names does not wait any more.
approvals_list ==
    /\ change' = expire(change)
    /\ UNCHANGED <<now, queued, post, runs, handed>>

Tick ==
    /\ now < MaxTime
    /\ now' = now + 1
    /\ UNCHANGED <<change, queued, post, runs, handed>>

Next ==
    \/ \E secret \in BOOLEAN : queue_for_approval(secret)
    \/ \E i \in Ids : reject(i)
    \/ \E p \in Posts, named \in BoundedSeq(Ids, MaxIds) : approvals_post(p, named)
    \/ \E p \in Posts : refused(p)
    \/ \E p \in Posts : proceed(p)
    \/ \E p \in Posts, ok \in BOOLEAN : after(p, ok)
    \/ \E i \in Ids : approvals_get(i)
    \/ approvals_list
    \/ Tick

Spec == Init /\ [][Next]_vars
-----------------------------------------------------------------------------
(* Properties                                                                 *)
\* The store holds records of the states of PendingChange, and an approval's
\* place lies within its batch.
TypeOK ==
    /\ now \in 0 .. MaxTime /\ queued \in 0 .. MaxChanges
    /\ change \in [Ids -> [state : States \cup {"absent"}, since : 0 .. MaxTime,
                           secret : BOOLEAN, result : {"none", "plain", "secret"},
                           taken : BOOLEAN]]
    /\ DOMAIN post = Posts
    /\ \A p \in Posts :
         /\ post[p].at \in {"idle", "checking", "running"}
         /\ post[p].ids \in Seq(Ids)
         /\ post[p].at = "running" => post[p].next \in DOMAIN post[p].ids
    /\ runs \in [Ids -> Nat] /\ handed \in [Ids -> 0 .. 2]

\* A change is approved once and its request run once (approvals_post: "exactly
\* those named, each still waiting").
RunOnce == \A i \in Ids : runs[i] <= 1

OverStep ==
    \A i \in Ids : i <= queued /\ expire(change)[i].state \in Final \cup {"absent"} => runs'[i] = runs[i]

\* A change that was rejected, skipped, finished or dropped for its age is not
\* run, also when that happened while the code of an approval that names it was
\* being checked.
OverIsOver == [][OverStep]_vars

\* A change marked running belongs to a batch that is at it or has it still
\* ahead: the store never drops a running change (expire), so one left behind
\* would stay for the life of the server.
RunningIsOwned ==
    \A i \in Ids : change[i].state = "running" =>
        \E p \in Posts : /\ post[p].at = "running"
                         /\ \E k \in post[p].next .. Len(post[p].ids) : post[p].ids[k] = i

\* The secret a change's run made is handed out once (take_read_once).
HandedOnce == \A i \in Ids : handed[i] <= runs[i]

=============================================================================
