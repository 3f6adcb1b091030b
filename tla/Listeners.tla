------------------------------ MODULE Listeners ------------------------------
(* The sockets a server listens on (server.cpp): opened at the start, then     *)
(* changed by reloads.  switch_to runs on worker 0 while the other workers     *)
(* accept: it opens the new addresses, one acceptor after the other, and       *)
(* undoes them all when one cannot be opened; then it switches the generation  *)
(* and posts to each worker's loop what that loop has to do.  A slot of the    *)
(* table of acceptors is used again once the posted close has run.             *)
EXTENDS Integers, Sequences, FiniteSets, FiniteSetsExt, SequencesExt

CONSTANTS Settings      \* the situations looked at

VARIABLES
    s,        \* the server
    setting   \* the situation, which no step changes

vars == <<s, setting>>

Workers == 0 .. setting.workers - 1
Addresses == DOMAIN setting.facts         \* facts: each address's port, family, privilege, h3
Fact(a) == setting.facts[a]
Config(g) == setting.configs[g]           \* a generation's addresses, in order
Owners == IF setting.reuse_port THEN Workers ELSE {0}
NoSwitch == [to |-> 0, todo |-> <<>>, opened |-> <<>>]

Slot(a, w, v6only) == [addr |-> a, owner |-> w, open |-> TRUE, closed |-> FALSE, bound |-> TRUE, v6only |-> v6only, chain |-> "none"]

\* An IPv6 wildcard next to an IPv4 listener on its port (build_listeners).
ipv4_on_port(g, a) == Fact(a).v6 /\ \E b \in Range(Config(g)) : ~Fact(b).v6 /\ Fact(b).port = Fact(a).port

\* The kernel's answer to bind(2).
Binds(k, a, v6only) ==
    /\ Fact(a).privileged => k.root
    /\ setting.reuse_port \/ \A i \in DOMAIN k.slots : k.slots[i].bound =>
         LET b == k.slots[i].addr IN
         Fact(b).port = Fact(a).port =>
           \/ Fact(a).v6 /\ ~Fact(b).v6 /\ v6only
           \/ Fact(b).v6 /\ ~Fact(a).v6 /\ k.slots[i].v6only

Wanted(g) == {a \in Range(Config(g)) : Fact(a).h3}
-----------------------------------------------------------------------------
(* Acceptors                                                                  *)
\* Mutant: a slot is taken again as soon as its acceptor is told to close.
Reusable_early(k, w) == {i \in DOMAIN k.slots : ~k.slots[i].open /\ k.slots[i].owner = w}

Reusable(k, w) == {i \in DOMAIN k.slots : ~k.slots[i].open /\ k.slots[i].closed /\ k.slots[i].owner = w}

\* A closed slot of the same worker is used again, else the table grows; v6only next to an
\* IPv4 listener without SO_REUSEPORT.
open_acceptor(k, g, a, w) ==
    LET v6only == ipv4_on_port(g, a) /\ ~setting.reuse_port
        i == IF Reusable(k, w) # {} THEN Min(Reusable(k, w)) ELSE Len(k.slots) + 1
        slot == Slot(a, w, v6only)
    IN [k EXCEPT !.slots = IF i > Len(@) THEN Append(@, slot) ELSE [@ EXCEPT ![i] = slot],
                 !.sw.opened = Append(@, i)]

start_accept(k, i) == IF k.slots[i].open THEN [k EXCEPT !.slots[i].chain = "waiting"] ELSE k

post(k, w, task) == [k EXCEPT !.tasks[w] = Append(@, task)]

\* A client, or accept(2) out of descriptors: the latter pauses, the former is served when
\* the target's generation still has the address and the ceiling allows.
accepted ==
    \E i \in DOMAIN s.slots, out_of_descriptors \in BOOLEAN :
      LET a == s.slots[i]
          quiet == [s EXCEPT !.slots[i].chain = "none"]
      IN /\ a.chain = "waiting" /\ a.bound /\ ~s.stopped[a.owner] /\ (out_of_descriptors => setting.pauses)
         /\ s' = IF s.stopping \/ ~a.open THEN quiet
                 ELSE IF out_of_descriptors THEN [s EXCEPT !.slots[i].chain = "backoff"]
                 ELSE start_accept(quiet, i)

\* The pause is over: the handler knows the slot's number only.
backoff_over ==
    \E i \in DOMAIN s.slots :
      /\ s.slots[i].chain = "backoff"
      /\ s' = post([s EXCEPT !.slots[i].chain = "none"], s.slots[i].owner, [do |-> "start", i |-> i, gen |-> 0])
-----------------------------------------------------------------------------
(* HTTP/3 endpoints                                                           *)
\* Sockets for every owner, or none.
open_h3_listener(k, a, start) ==
    LET made == {[addr |-> a, owner |-> w, started |-> FALSE, shut |-> FALSE, listed |-> TRUE] : w \in Owners}
        with == [k EXCEPT !.h3 = @ \cup made]
    IN IF start THEN FoldSet(LAMBDA e, t : post(t, e.owner, [do |-> "h3start", i |-> e.addr, gen |-> 0]), with, made)
       ELSE with

Endpoints(k, a) == {e \in k.h3 : e.listed /\ e.addr = a}

\* Mutant: a listener whose socket could not be bound still says it has HTTP/3.
open_gained_h3_kept(k, g, fails) ==
    FoldSeq(LAMBDA a, t : IF Endpoints(t, a) # {} \/ a \notin Wanted(g) THEN t
                          ELSE IF a \in fails THEN t ELSE open_h3_listener(t, a, TRUE),
            [k EXCEPT !.h3off = {}], Config(g))

\* The listeners that want HTTP/3 and have no socket: one that cannot be bound goes without.
open_gained_h3(k, g, fails) ==
    FoldSeq(LAMBDA a, t : IF Endpoints(t, a) # {} \/ a \notin Wanted(g) THEN t
                          ELSE IF a \in fails THEN [t EXCEPT !.h3off = @ \cup {a}] ELSE open_h3_listener(t, a, TRUE),
            [k EXCEPT !.h3off = {}], Config(g))

\* The endpoints whose listener left or lost HTTP/3 are told to go on their own loops.
sync_h3(k, g) ==
    LET gone == {e \in k.h3 : e.listed /\ e.addr \notin Wanted(g) \ k.h3off}
        rest == [k EXCEPT !.h3 = {IF e \in gone THEN [e EXCEPT !.listed = FALSE] ELSE e : e \in @}]
    IN FoldSet(LAMBDA e, t : post(t, e.owner, [do |-> "h3stop", i |-> e.addr, gen |-> 0]), rest, gone)

stop_h3(k) == FoldSet(LAMBDA e, t : post(t, e.owner, [do |-> "h3stop", i |-> e.addr, gen |-> 0]), k, {e \in k.h3 : e.listed})
-----------------------------------------------------------------------------
(* The start and the switch                                                   *)
Pairs(g, from) == FoldSeq(LAMBDA a, t : t \o SetToSeq({<<a, w>> : w \in from}), <<>>, Config(g))

\* As root, everything bound or no start at all; then the drop of privileges, the
\* generation, and the accepting.
Init ==
    /\ setting \in Settings
    /\ LET none == [slots |-> <<>>, tasks |-> [w \in Workers |-> <<>>], h3 |-> {}, h3off |-> {}, gen |-> 1,
                    wgen |-> [w \in Workers |-> 1], root |-> TRUE, sw |-> NoSwitch, stopping |-> FALSE,
                    stopped |-> [w \in Workers |-> FALSE], switches |-> 0]
           bound == FoldSeq(LAMBDA p, t : open_acceptor(t, 1, p[1], p[2]), none, Pairs(1, Owners))
           h3 == FoldSet(LAMBDA a, t : open_h3_listener(t, a, FALSE), bound, Wanted(1))
           run == [h3 EXCEPT !.root = FALSE, !.sw = NoSwitch, !.h3 = {[e EXCEPT !.started = TRUE] : e \in @}]
       IN s = FoldSeq(LAMBDA i, t : start_accept(t, i), run, [i \in DOMAIN run.slots |-> i])

Listening(k, a) == \E i \in DOMAIN k.slots : k.slots[i].open /\ k.slots[i].addr = a

\* A reload with another set of addresses begins (none is begun by a server that stops).
switch_to ==
    \E g \in DOMAIN setting.configs \ {s.gen} :
      /\ s.sw = NoSwitch /\ s.switches < setting.switches /\ ~s.stopping
      /\ s' = [s EXCEPT !.switches = @ + 1,
                        !.sw = [to |-> g, opened |-> <<>>,
                                todo |-> SelectSeq(Pairs(g, Owners), LAMBDA p : ~Listening(s, p[1]))]]

\* A wildcard opened alone takes IPv4 too: an IPv4 listener on its port waits for a restart.
TakesIPv4(k, a) ==
    ~setting.reuse_port /\ ~Fact(a).v6 /\
    \E i \in DOMAIN k.slots : k.slots[i].open /\ ~k.slots[i].v6only /\ Fact(k.slots[i].addr).v6
                              /\ Fact(k.slots[i].addr).port = Fact(a).port

\* Mutant: the acceptors opened before the one that failed stay.
refused_kept(k) == [k EXCEPT !.sw = NoSwitch]

\* Never accepted: closed at once, their slots free.
refused(k) ==
    [k EXCEPT !.sw = NoSwitch,
              !.slots = [i \in DOMAIN @ |-> IF i \in Range(k.sw.opened)
                                            THEN [@[i] EXCEPT !.bound = FALSE, !.open = FALSE, !.closed = TRUE] ELSE @[i]]]

\* The next of the new addresses, on the next worker.
bind_next ==
    /\ s.sw.todo # <<>>
    /\ \E busy \in BOOLEAN :
      LET a == Head(s.sw.todo)[1]
          w == Head(s.sw.todo)[2]
          g == s.sw.to
      IN /\ busy => setting.busy
         /\ s' = IF TakesIPv4(s, a) \/ busy \/ ~Binds(s, a, ipv4_on_port(g, a) /\ ~setting.reuse_port) THEN refused(s)
                 ELSE [open_acceptor(s, g, a, w) EXCEPT !.sw.todo = Tail(@)]

\* Everything is bound: the generation switches here, on the workers when their loops come to it.
commit ==
    /\ s.sw # NoSwitch /\ s.sw.todo = <<>>
    /\ \E fails \in SUBSET {a \in Wanted(s.sw.to) : Endpoints(s, a) = {}} :
      LET g == s.sw.to
          h3 == open_gained_h3(s, g, fails)
          leaves == {i \in DOMAIN s.slots : s.slots[i].open /\ s.slots[i].addr \notin Range(Config(g))}
          told == FoldSet(LAMBDA w, t : post(t, w, [do |-> "gen", i |-> 0, gen |-> g]), [h3 EXCEPT !.gen = g], Workers)
          starts == FoldSeq(LAMBDA i, t : post(t, t.slots[i].owner, [do |-> "start", i |-> i, gen |-> 0]), sync_h3(told, g), s.sw.opened)
      IN s' = [FoldSet(LAMBDA i, t : post([t EXCEPT !.slots[i].open = FALSE], t.slots[i].owner, [do |-> "close", i |-> i, gen |-> 0]),
                          starts, leaves) EXCEPT !.sw = NoSwitch]

\* What is posted to a loop, in its order.
task ==
    \E w \in {v \in Workers : s.tasks[v] # <<>>} :
      LET t == Head(s.tasks[w])
          k == [s EXCEPT !.tasks[w] = Tail(@)]
          Ours == {e \in s.h3 : e.addr = t.i /\ e.owner = w /\ ~e.shut}
          Left == {e \in Ours : ~e.listed}
      IN /\ ~s.stopped[w] /\ (w = 0 => s.sw = NoSwitch)
         /\ s' = CASE t.do = "gen" -> [k EXCEPT !.wgen[w] = t.gen]
                   [] t.do = "start" -> start_accept(k, t.i)
                   [] t.do = "close" -> [k EXCEPT !.slots[t.i].bound = FALSE, !.slots[t.i].closed = TRUE,
                                                  !.slots[t.i].chain = IF @ = "waiting" THEN "none" ELSE @]
                   [] t.do = "h3start" -> [k EXCEPT !.h3 = {IF e \in Ours THEN [e EXCEPT !.started = TRUE] ELSE e : e \in @}]
                   [] t.do = "h3stop" -> [k EXCEPT !.h3 = IF Left # {} THEN @ \ Left
                                                           ELSE {IF e \in Ours THEN [e EXCEPT !.shut = TRUE] ELSE e : e \in @}]
                   [] OTHER -> [k EXCEPT !.stopped[w] = TRUE]

\* Signals: the HTTP/3 endpoints are told first, then each loop ends.
stop ==
    /\ ~s.stopping /\ setting.stops /\ s.sw = NoSwitch
    /\ s' = FoldSet(LAMBDA w, t : post(t, w, [do |-> "stop", i |-> 0, gen |-> 0]), stop_h3([s EXCEPT !.stopping = TRUE]), Workers)

Next == UNCHANGED setting /\ (accepted \/ backoff_over \/ switch_to \/ bind_next \/ commit \/ task \/ stop)

Spec == Init /\ [][Next]_vars
-----------------------------------------------------------------------------
(* Properties                                                                 *)
Pending(w, do, i) == \E n \in DOMAIN s.tasks[w] : s.tasks[w][n].do = do /\ s.tasks[w][n].i = i

\* Whatever reloads open, fail to open and close: every address of the configuration has,
\* for each worker that listens, one open acceptor, which accepts or will; an acceptor
\* that is open otherwise belongs to the switch under way; a socket bound otherwise has its
\* close posted, so no refused reload leaves a port taken (open_acceptor, switch_to).
ListensAsConfigured ==
    /\ ~s.stopping => \A a \in Range(Config(s.gen)), w \in Owners :
         Cardinality({i \in DOMAIN s.slots : s.slots[i].open /\ s.slots[i].addr = a /\ s.slots[i].owner = w}) = 1
    /\ \A i \in DOMAIN s.slots : LET a == s.slots[i] IN
         /\ a.open => a.bound /\ (a.addr \in Range(Config(s.gen)) \/ (s.sw # NoSwitch /\ i \in Range(s.sw.opened)))
         /\ a.open /\ i \notin Range(s.sw.opened) /\ ~s.stopping => a.chain # "none" \/ Pending(a.owner, "start", i)
         /\ a.bound /\ ~a.open => Pending(a.owner, "close", i)

\* A listener says it speaks HTTP/3 (and its answers carry Alt-Svc) exactly while sockets of
\* its own are there for every owner; an endpoint whose listener went is shut down or will
\* be; no loop ends with an endpoint that read packets and told its clients nothing
\* (open_gained_h3, sync_h3, stop_h3).
Http3AsAdvertised ==
    /\ s.sw = NoSwitch => \A a \in Addresses :
         {e.owner : e \in Endpoints(s, a)} = IF a \in Wanted(s.gen) \ s.h3off THEN Owners ELSE {}
    /\ \A e \in s.h3 :
         /\ ~e.listed => e.shut \/ Pending(e.owner, "h3stop", e.addr)
         /\ s.stopped[e.owner] => e.shut \/ ~e.started
=============================================================================
