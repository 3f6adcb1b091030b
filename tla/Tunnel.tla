------------------------------- MODULE Tunnel -------------------------------
(* A tunnel after a 101 (http1/connection.hpp): two byte pumps, each with one  *)
(* buffer and one read or write in flight, and one timer for two limits, how   *)
(* long the tunnel may be idle and how long a write may take.  The units each  *)
(* side sends are numbered; some of the client's may have come behind its      *)
(* request, while the read of the abort watch is still out.                    *)
EXTENDS Integers, Sequences, FiniteSets, FiniteSetsExt

CONSTANTS Settings      \* the situations looked at

VARIABLES
    s,        \* the connection
    setting   \* the situation, which no step changes

vars == <<s, setting>>

Sides == {"client", "origin"}
Other(side) == IF side = "client" THEN "origin" ELSE "client"
Never == -1                               \* no time point, no timer
Units(from, to) == [i \in 1..(to - from) |-> from + i]

close(k, why) == [k EXCEPT !.open = FALSE, !.why = why, !.reads = [x \in Sides |-> 0], !.writes = [x \in Sides |-> <<>>],
                           !.armed = FALSE, !.timer = Never]

arm_tunnel_timer(k, d) == [k EXCEPT !.armed = TRUE, !.timer = k.now + d]

\* Mutant: a write is limited only where an idle limit runs the timer.
arm_write_unlimited(k) == k

\* A write begins: its timer, unless the timer already waits for a limit.
arm_write(k) == IF ~k.armed /\ setting.send_limit > 0 THEN arm_tunnel_timer(k, setting.send_limit) ELSE k

\* The first n units in the buffer of one side go to the other: tunnel_write_peer for the
\* client's, tunnel_write_client for the origin's.
tunnel_write(k, from, n) ==
    arm_write([k EXCEPT !.since[Other(from)] = k.last_activity,
                        !.writes[Other(from)] = Append(@, SubSeq(k.buf[from], 1, n))])

\* tunnel_read_client and tunnel_read_peer.
tunnel_read(k, from) == [k EXCEPT !.buf[from] = <<>>, !.reads[from] = @ + 1]

\* Mutant: what the origin sent together with its 101 is overwritten by the first read.
start_tunnel_deaf(k) ==
    LET armed == IF setting.idle > 0 THEN arm_tunnel_timer(k, setting.idle) ELSE k
        up == IF k.buf["client"] # <<>> THEN tunnel_write(armed, "client", Len(k.buf["client"]))
              ELSE IF k.reads["client"] = 0 THEN tunnel_read(armed, "client") ELSE armed
    IN tunnel_read(up, "origin")

\* Whatever either side had already sent goes first; an abort watch delivers into the tunnel.
start_tunnel(k) ==
    LET armed == IF setting.idle > 0 THEN arm_tunnel_timer(k, setting.idle) ELSE k
        up == IF k.buf["client"] # <<>> THEN tunnel_write(armed, "client", Len(k.buf["client"]))
              ELSE IF k.reads["client"] = 0 THEN tunnel_read(armed, "client") ELSE armed
    IN IF k.buf["origin"] # <<>> THEN tunnel_write(up, "origin", Len(k.buf["origin"])) ELSE tunnel_read(up, "origin")

\* late: a tick of the connection's own timer fired as the tunnel started.
Init ==
    /\ setting \in Settings
    /\ \E early, origin_early \in 0..1, watched, late \in BOOLEAN :
         /\ watched /\ early > 0 => setting.overlap
         /\ s = start_tunnel([open |-> TRUE, why |-> "none", now |-> 0, last_activity |-> 0, armed |-> FALSE, timer |-> Never,
                              late |-> late, buf |-> [client |-> Units(0, early), origin |-> Units(0, origin_early)],
                              reads |-> [client |-> IF watched THEN 1 ELSE 0, origin |-> 0],
                              writes |-> [x \in Sides |-> <<>>], since |-> [x \in Sides |-> Never],
                              sent |-> [client |-> early, origin |-> origin_early],
                              got |-> [x \in Sides |-> <<>>], eof |-> [x \in Sides |-> FALSE]])
-----------------------------------------------------------------------------
\* A read delivers what a side sends: on_read for the client's side.
received ==
    \E x \in Sides, n \in 1..2 :
      /\ s.open /\ s.reads[x] > 0 /\ s.sent[x] + n <= setting.units
      /\ LET new == Units(s.sent[x], s.sent[x] + n)
             k == [s EXCEPT !.reads[x] = @ - 1, !.last_activity = s.now, !.sent[x] = @ + n,
                            !.buf[x] = IF x = "client" THEN @ \o new ELSE new]
         IN s' = tunnel_write(k, x, Len(k.buf[x]))

\* Mutant: the first end of either side ends both.
tunnel_client_eof_both(k) == close([k EXCEPT !.eof["client"] = TRUE], "ended")

\* The other direction goes on: only the sending half of the other socket is shut.
tunnel_client_eof(k) ==
    LET e == [k EXCEPT !.eof["client"] = TRUE] IN IF e.eof["origin"] THEN close(e, "ended") ELSE e

tunnel_peer_eof(k) ==
    LET e == [k EXCEPT !.eof["origin"] = TRUE]
    IN IF e.eof["client"] THEN close(e, "ended") ELSE IF setting.tls THEN close(e, "tls") ELSE e

\* A side ends what it sends.
ended ==
    \E x \in Sides :
      /\ s.open /\ s.reads[x] > 0 /\ ~s.eof[x]
      /\ LET k == [s EXCEPT !.reads[x] = @ - 1]
         IN s' = IF x = "client" THEN tunnel_client_eof(k) ELSE tunnel_peer_eof(k)

\* A write completes, or fails.
written ==
    \E x \in Sides, fails \in BOOLEAN :
      /\ s.open /\ s.writes[x] # <<>>
      /\ s' = IF fails THEN close(s, "failed")
              ELSE tunnel_read([s EXCEPT !.got[x] = @ \o Head(s.writes[x]), !.writes[x] = Tail(@), !.since[x] = Never], Other(x))

\* The tick: a write past its limit or an idle tunnel ends both sides; else the timer waits
\* for the earliest limit ahead.
tunnel_tick(k) ==
    LET limited == {x \in Sides : setting.send_limit > 0 /\ k.since[x] # Never}
        next == {k.since[x] + setting.send_limit - k.now : x \in limited}
                \cup (IF setting.idle > 0 THEN {k.last_activity + setting.idle - k.now} ELSE {})
    IN IF \E x \in limited : k.now - k.since[x] >= setting.send_limit THEN close(k, "slow")
       ELSE IF setting.idle > 0 /\ k.now - k.last_activity >= setting.idle THEN close(k, "idle")
       ELSE IF next # {} THEN arm_tunnel_timer(k, Min(next)) ELSE [k EXCEPT !.armed = FALSE]

fired ==
    /\ s.open /\ (s.late \/ (s.timer # Never /\ s.now >= s.timer))
    /\ s' = tunnel_tick([s EXCEPT !.late = FALSE, !.armed = FALSE, !.timer = IF s.late THEN @ ELSE Never])

Passes == s.open /\ s.now < setting.end /\ s' = [s EXCEPT !.now = @ + 1]

Next == UNCHANGED setting /\ (received \/ ended \/ written \/ fired \/ Passes)

Spec == Init /\ [][Next]_vars
-----------------------------------------------------------------------------
Prefix(a, n) == Len(a) <= n /\ \A i \in DOMAIN a : a[i] = i

\* Each side gets what the other sent, in order, each unit once, whatever came before the
\* tunnel began; while it is open each direction has one read or one write under way until
\* its end, and an end is passed on only behind everything sent before it (start_tunnel,
\* tunnel_read_client, tunnel_write_client, tunnel_peer_eof).  Where bytes of the client's came
\* early and the abort watch was out, the code does otherwise.
InOrder ==
    ~setting.overlap =>
    /\ \A x \in Sides : Prefix(s.got[x], s.sent[Other(x)])
    /\ s.open => \A x \in Sides :
         IF s.eof[x] THEN s.reads[x] = 0 /\ s.writes[Other(x)] = <<>> /\ Len(s.got[Other(x)]) = s.sent[x]
         ELSE s.reads[x] + Len(s.writes[Other(x)]) = 1
    /\ s.why = "ended" => \A x \in Sides : s.eof[x] /\ Len(s.got[x]) = s.sent[Other(x)]
    /\ s.why = "tls" => Len(s.got["client"]) = s.sent["origin"]

\* Neither a side that stops reading nor two silent ones hold a tunnel with limits: the timer
\* runs, and fires at most one limit after the write began or the last byte came
\* (arm_tunnel_timer, tunnel_tick).
Bounded ==
    s.open =>
    /\ \A x \in Sides : s.writes[x] # <<>> /\ setting.send_limit > 0 =>
         s.armed /\ s.timer <= s.since[x] + Max({setting.send_limit, setting.idle})
    /\ setting.idle > 0 => s.armed /\ s.timer <= s.last_activity + setting.idle
=============================================================================
