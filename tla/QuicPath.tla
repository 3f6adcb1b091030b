------------------------------ MODULE QuicPath ------------------------------
(* What an established QUIC connection keeps about its client                 *)
(* (quic/connection.hpp): the connection ids it handed out, the address it     *)
(* sends to and what that path carries, and the packet protection keys of each *)
(* direction as they are updated.  A setting says which of the three moves.    *)
(* A packet once sent may arrive at any later time or never; what it carried   *)
(* may be declared lost and goes out again.                                    *)
EXTENDS Integers, FiniteSets, FiniteSetsExt

CONSTANTS Settings      \* the situations looked at

VARIABLES
    q,        \* the connection
    them,     \* the client
    ups,      \* packets the client sent
    downs,    \* packets sent to the client
    setting   \* the situation, which no step changes

vars == <<q, them, ups, downs, setting>>

None == -1
Wanted == setting.active_ids       \* min(active_connection_id_limit, kMaxActiveCids)
MaxIssued == setting.max_issued    \* kMaxCidsIssued
MaxTheirs == setting.max_theirs    \* kMaxActiveCids, of the client's ids
MaxCredit == 6                     \* a bound: what an unvalidated path may be sent, in datagrams

\* An id is its sequence number, an address a number, a datagram size 1, 2 or 4 times
\* the minimum, a key its generation (its phase bit is the generation's parity).
Established ==
    [err |-> "none", our_cids |-> {0}, registered |-> {0}, seq_next |-> 1, new_cid_due |-> {},
     peer_cids |-> {0}, peer_seq |-> 0, retired_below |-> 0, retire_due |-> {},
     peer |-> 0, prev_peer |-> 0, prev_validated |-> TRUE, validated |-> TRUE, gen |-> 0,
     challenge_due |-> FALSE, validating |-> FALSE, tries |-> 0, credit |-> 0,
     max_datagram |-> 1, mtu_target |-> 2, mtu_due |-> setting.paths # {}, mtu_sent |-> FALSE,
     rx |-> 0, tx |-> 0, rx_prev |-> None, update_ack_pending |-> FALSE, phase_first_pn |-> 0,
     tx_phase_first_pn |-> 0, largest_acked |-> None,
     next_pn |-> 0, largest |-> None, received |-> {}, ack_due |-> FALSE, pk |-> {}]

Init ==
    /\ setting \in Settings
    /\ q = Established
    /\ them = [ids |-> {0}, retired |-> {}, own |-> {0}, below |-> 0, dropped |-> {},
               addr |-> 0, token |-> None, answered |-> {0},
               next_pn |-> 0, tx |-> 0, rx |-> 0, tx_first |-> 0, acked |-> None, got |-> {}]
    /\ ups = {} /\ downs = {}

fail(k, why) == [k EXCEPT !.err = why]
-----------------------------------------------------------------------------
(* Connection ids                                                             *)
RECURSIVE issue_cids(_)
issue_cids(k) ==
    IF Cardinality(k.our_cids) >= Wanted \/ k.seq_next >= MaxIssued THEN k
    ELSE issue_cids([k EXCEPT !.our_cids = @ \cup {k.seq_next}, !.registered = @ \cup {k.seq_next},
                              !.new_cid_due = @ \cup {k.seq_next}, !.seq_next = @ + 1])

\* RETIRE_CONNECTION_ID: never the id the packet came to; a replacement is issued.
retire_connection_id(k, seq, dcid) ==
    IF seq >= k.seq_next THEN fail(k, "never issued")
    ELSE IF seq \notin k.our_cids THEN k
    ELSE IF seq = dcid THEN fail(k, "the id in use")
    ELSE issue_cids([k EXCEPT !.our_cids = @ \ {seq}, !.registered = @ \ {seq}])

\* Mutant: the id we address is kept although the client had it retired.
new_connection_id_kept(k, seq, prior) ==
    IF seq \in k.peer_cids THEN k
    ELSE IF seq < k.retired_below THEN [k EXCEPT !.retire_due = @ \cup {seq}]
    ELSE LET below == Max({k.retired_below, prior})
             kept == {c \in k.peer_cids : c >= below}
         IN IF Cardinality(kept) >= MaxTheirs THEN fail(k, "too many ids")
            ELSE [k EXCEPT !.retired_below = below, !.retire_due = @ \cup (k.peer_cids \ kept),
                           !.peer_cids = kept \cup {seq}]

\* NEW_CONNECTION_ID of the client: the ids below its Retire Prior To are retired, one
\* that comes late at once; the id we address moves to the lowest that remains.
new_connection_id(k, seq, prior) ==
    IF seq \in k.peer_cids THEN k
    ELSE IF seq < k.retired_below THEN [k EXCEPT !.retire_due = @ \cup {seq}]
    ELSE LET below == Max({k.retired_below, prior})
             kept == {c \in k.peer_cids : c >= below}
         IN IF Cardinality(kept) >= MaxTheirs THEN fail(k, "too many ids")
            ELSE [k EXCEPT !.retired_below = below, !.retire_due = @ \cup (k.peer_cids \ kept),
                           !.peer_cids = kept \cup {seq},
                           !.peer_seq = IF @ < below THEN Min(kept \cup {seq}) ELSE @]
-----------------------------------------------------------------------------
(* The peer's address                                                         *)
start_mtu_search(k) ==
    [k EXCEPT !.mtu_target = 2, !.mtu_due = 2 > k.max_datagram, !.mtu_sent = FALSE]

migrate(k, from) ==
    start_mtu_search(
      [k EXCEPT !.prev_peer = k.peer, !.prev_validated = k.validated, !.peer = from, !.validated = FALSE,
                !.credit = 3, !.max_datagram = 1, !.gen = @ + 1, !.challenge_due = TRUE,
                !.validating = TRUE, !.tries = 0])

revert_path(k) ==
    [k EXCEPT !.peer = k.prev_peer, !.validated = k.prev_validated, !.validating = FALSE, !.challenge_due = FALSE]

path_response(k, p) ==
    IF k.validating /\ p.from = k.peer /\ p.token = k.gen
    THEN [k EXCEPT !.validating = FALSE, !.validated = TRUE] ELSE k
-----------------------------------------------------------------------------
(* Acknowledgements and losses                                                *)
\* A probe of the path before the address changed counts for nothing; else the probed
\* size is the datagram's, and the next probe doubles it up to what the client takes.
acked_mtu_probe(k, gen) ==
    LET t == [k EXCEPT !.max_datagram = Max({@, k.mtu_target})]
    IN IF gen # k.gen THEN k
       ELSE IF k.mtu_target < setting.mtu_cap
       THEN [t EXCEPT !.mtu_target = Min({setting.mtu_cap, @ * 2}), !.mtu_due = TRUE, !.mtu_sent = FALSE]
       ELSE [t EXCEPT !.mtu_due = FALSE]

\* Mutant: the path a probe was sent on is not looked at.
apply_acked_path(k, P) ==
    LET t == [k EXCEPT !.pk = @ \ P, !.largest_acked = Max({@} \cup {p.pn : p \in P})]
    IN IF \E p \in P : p.mtu THEN acked_mtu_probe(t, k.gen) ELSE t

apply_acked(k, P) ==
    LET t == [k EXCEPT !.pk = @ \ P, !.largest_acked = Max({@} \cup {p.pn : p \in P})]
        probes == {p.gen : p \in {x \in P : x.mtu}}
    IN IF probes = {} THEN t ELSE acked_mtu_probe(t, Max(probes))

apply_lost(k, p) ==
    LET t == [k EXCEPT !.pk = @ \ {p}, !.new_cid_due = @ \cup p.cids, !.retire_due = @ \cup p.retires,
                       !.mtu_due = IF p.mtu /\ p.gen = k.gen THEN FALSE ELSE @]
    IN IF ~p.challenge \/ ~t.validating THEN t
       ELSE IF t.tries + 1 < 3 THEN [t EXCEPT !.tries = @ + 1, !.challenge_due = TRUE]
       ELSE revert_path([t EXCEPT !.tries = @ + 1])
-----------------------------------------------------------------------------
(* Keys                                                                       *)
next_tx(k) == [k EXCEPT !.tx = @ + 1, !.tx_phase_first_pn = k.next_pn]

\* Our own update, at the key's confidentiality limit (a choice of the environment):
\* once a packet of the current phase was acknowledged.
maybe_update_keys(k) ==
    IF k.update_ack_pending \/ k.largest_acked < k.tx_phase_first_pn \/ k.largest_acked = None
       \/ k.tx >= setting.updates
    THEN k ELSE next_tx(k)

\* The key a packet is opened with, by its phase bit: the current, the previous for one
\* reordered from before an update, or the next.
KeyFor(k, p) ==
    IF p.gen % 2 = k.rx % 2 THEN k.rx
    ELSE IF k.rx_prev # None /\ p.pn < k.phase_first_pn THEN k.rx_prev
    ELSE k.rx + 1

\* Mutant: our keys do not follow the client's.
updated_alone(k, pn) ==
    [k EXCEPT !.rx_prev = k.rx, !.rx = @ + 1, !.phase_first_pn = pn]

\* The client's update, or the client following ours: our sending keys follow before
\* any acknowledgement.
updated(k, pn) ==
    LET t == [k EXCEPT !.rx_prev = k.rx, !.rx = @ + 1, !.phase_first_pn = pn]
    IN IF t.tx % 2 # t.rx % 2 THEN [next_tx(t) EXCEPT !.update_ack_pending = TRUE] ELSE t

\* The previous keys are cleared three probe timeouts after the update.
clear_prev_keys ==
    /\ q.rx_prev # None /\ setting.updates > 0
    /\ q' = [q EXCEPT !.rx_prev = None]
    /\ UNCHANGED <<them, ups, downs>>
-----------------------------------------------------------------------------
(* A packet of the client                                                     *)
receive(p) ==
    LET key == KeyFor(q, p)
        updating == key > q.rx
        opened == IF updating THEN updated(q, p.pn) ELSE q
        named == {x \in opened.pk : x.pn \in p.acks}
        acks == apply_acked(opened, named)
        framed == CASE p.kind = "retire" -> retire_connection_id(acks, p.seq, p.dcid)
                    [] p.kind = "new id" -> new_connection_id(acks, p.seq, p.token)
                    [] p.kind = "response" -> path_response(acks, p)
                    [] OTHER -> acks
        counted == [framed EXCEPT !.received = @ \cup {p.pn}, !.largest = Max({@, p.pn}), !.ack_due = TRUE,
                                  !.credit = IF p.from = framed.peer THEN Min({@ + 3, MaxCredit}) ELSE @]
    IN /\ q.err = "none" /\ p.dcid \in q.registered /\ p.pn \notin q.received
       /\ key = p.gen
       /\ q' = IF updating /\ q.update_ack_pending THEN fail(q, "key update")
               ELSE IF framed.err # "none" THEN framed
               ELSE IF p.from # framed.peer /\ (p.kind # "response" \/ p.acks # {}) /\ p.pn > q.largest
               THEN migrate(counted, p.from)
               ELSE counted
       /\ UNCHANGED <<them, ups, downs>>

\* What one packet sent now carries: ids, retirements, a challenge, the acknowledgement;
\* in a larger datagram of its own, also the probe of the path's size.
Packet(k, mtu) ==
    [pn |-> k.next_pn, to |-> k.peer, gen |-> k.gen, key |-> k.tx, mtu |-> mtu,
     size |-> IF mtu THEN k.mtu_target ELSE 1,
     cids |-> k.new_cid_due \cap k.our_cids, retires |-> k.retire_due,
     challenge |-> k.challenge_due, acks |-> IF k.ack_due THEN k.received ELSE {}]

build_packet(mtu) ==
    LET p == Packet(q, mtu)
        t == [q EXCEPT !.next_pn = @ + 1, !.pk = @ \cup {p},
                       !.new_cid_due = {}, !.retire_due = {}, !.challenge_due = FALSE,
                       !.mtu_sent = @ \/ mtu, !.credit = IF q.validated THEN @ ELSE @ - 1,
                       !.ack_due = FALSE, !.update_ack_pending = IF q.ack_due THEN FALSE ELSE @]
    IN /\ q.err = "none" /\ q.next_pn < setting.pns
       /\ q.validated \/ q.credit > 0
       /\ IF mtu THEN q.mtu_due /\ ~q.mtu_sent /\ q.validated
          ELSE q.new_cid_due \cup q.retire_due # {} \/ q.challenge_due \/ q.ack_due
       /\ \E u \in BOOLEAN : q' = IF u THEN maybe_update_keys(t) ELSE t
       /\ downs' = downs \cup {p}
       /\ UNCHANGED <<them, ups>>

\* A packet is declared lost, whether or not it arrived.
Lost ==
    \E p \in q.pk :
      /\ q.err = "none"
      /\ q' = apply_lost(q, p)
      /\ UNCHANGED <<them, ups, downs>>
-----------------------------------------------------------------------------
(* The client                                                                 *)
Held == them.ids \ them.retired

Sends(kind, seq, dcid, token) ==
    /\ them.next_pn < setting.client_pns
    /\ ups' = ups \cup {[kind |-> kind, seq |-> seq, dcid |-> dcid, token |-> token, from |-> them.addr,
                         pn |-> them.next_pn, gen |-> them.tx, acks |-> them.got]}
    /\ UNCHANGED <<q, downs>>

\* A packet with data, after the client may have updated its keys: it does so once a
\* packet of its present phase was acknowledged.
ClientSends ==
    \/ /\ Sends("ping", 0, Max(Held), 0)
       /\ them' = [them EXCEPT !.next_pn = @ + 1]
    \/ /\ setting.updates > 0 /\ them.tx < setting.updates /\ them.acked >= them.tx_first /\ them.rx = them.tx
       /\ them' = [them EXCEPT !.tx = @ + 1, !.tx_first = them.next_pn]
       /\ UNCHANGED <<q, ups, downs>>

\* It retires an id, in a packet to another one.
ClientRetires ==
    \E seq, dcid \in Held :
      /\ setting.max_issued > 1 /\ seq # dcid
      /\ Sends("retire", seq, dcid, 0)
      /\ them' = [them EXCEPT !.next_pn = @ + 1, !.retired = @ \cup {seq}]

\* It issues an id of its own, perhaps asking for the earlier ones to be retired; what it
\* has asked for and not been told retired it still accepts.
ClientIssues ==
    LET seq == Max(them.own) + 1 IN
    \E prior \in {them.below, seq} :
      /\ seq < setting.client_ids
      /\ Cardinality({s \in them.own : s >= prior}) < MaxTheirs
      /\ Sends("new id", seq, Max(Held), prior)
      /\ them' = [them EXCEPT !.next_pn = @ + 1, !.own = @ \cup {seq}, !.below = prior]

ClientAnswers ==
    /\ them.token # None
    /\ Sends("response", 0, Max(Held), them.token)
    /\ them' = [them EXCEPT !.next_pn = @ + 1, !.token = None, !.answered = @ \cup {them.addr}]

\* Its address changes (a NAT binding, another network).
ClientMoves ==
    \E a \in setting.paths \ {them.addr} :
      /\ them' = [them EXCEPT !.addr = a]
      /\ UNCHANGED <<q, ups, downs>>

\* A packet of ours reaches it at the address it has, if the path carries its size and
\* the client has or can make its keys.
ClientReceives(p) ==
    /\ p.to = them.addr /\ p.size <= setting.carries[p.to + 1] /\ p.pn \notin them.got
    /\ p.key \in {them.rx, them.rx + 1}
    /\ them' = [them EXCEPT !.ids = @ \cup p.cids, !.dropped = @ \cup p.retires, !.token = IF p.challenge THEN p.gen ELSE @,
                            !.got = @ \cup {p.pn}, !.acked = Max({@} \cup p.acks), !.rx = Max({@, p.key}),
                            !.tx = Max({@, p.key}), !.tx_first = IF p.key > them.tx THEN them.next_pn ELSE @]
    /\ UNCHANGED <<q, ups, downs>>

\* The handshake's end: the client gets as many ids as it holds.
on_handshake_complete ==
    /\ q.err = "none" /\ issue_cids(q) # q
    /\ q' = issue_cids(q)
    /\ UNCHANGED <<them, ups, downs>>

Next ==
    /\ UNCHANGED setting
    /\ \/ on_handshake_complete \/ Lost \/ clear_prev_keys
       \/ \E mtu \in BOOLEAN : build_packet(mtu)
       \/ \E p \in ups : receive(p)
       \/ ClientSends \/ ClientRetires \/ ClientIssues \/ ClientAnswers \/ ClientMoves
       \/ \E p \in downs : ClientReceives(p)

Spec == Init /\ [][Next]_vars
-----------------------------------------------------------------------------
(* Properties                                                                 *)
\* Every id the client holds routes here, and every active id it does not hold yet is
\* due or in a packet on record; the client's id we address is one it issued and was not
\* told retired: a client that keeps to the protocol is never failed for an id, and
\* neither side sends where nobody answers.
IdsReach ==
    /\ q.err \notin {"never issued", "the id in use", "too many ids"}
    /\ q.peer_seq \in them.own \ them.dropped
    /\ Held \subseteq q.registered
    /\ q.our_cids \ them.ids \subseteq q.new_cid_due \cup UNION {p.cids : p \in q.pk}

\* An address is taken for the client's only after the client answered the challenge
\* sent to it, and datagrams are never larger than its path carries: neither a late
\* answer nor the acknowledgement of a probe of an earlier path counts for this one.
PathIsProven ==
    /\ q.validated => q.peer \in them.answered
    /\ q.max_datagram <= setting.carries[q.peer + 1]

\* Key updates by either side, at the same time or one after the other and with packets
\* reordered across them, never fail a client that keeps to the protocol; the two sides
\* are never more than one generation apart; and a packet is acknowledged only under keys
\* at least as new as its own (updated, before any acknowledgement goes out).
UpdatesSurvive ==
    /\ q.err # "key update"
    /\ \A p \in downs : \A u \in ups : u.pn \in p.acks => p.key >= u.gen
    /\ q.tx - them.rx \in {0, 1} /\ them.tx - q.rx \in {0, 1}
=============================================================================
