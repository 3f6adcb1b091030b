------------------------ MODULE UpstreamOnceProofs ------------------------
(* Every handler of the exchanges keeps the invariant of                      *)
(* UpstreamExchangeProofs, and with it one answer and one copy each.          *)
EXTENDS UpstreamExchangeProofs

-----------------------------------------------------------------------------
(* The handlers.                                                              *)

\* What a handler leaves: the exchanges, operations and pools as they should be.
Kept == StateInv(ex', ops', pools') /\ turn' \in Nat

\* The operation an exchange starts.
LEMMA Starts ==
    ASSUME NEW x \in Exchanges, NEW a \in Addresses,
           NEW kind \in {"connect", "handshake", "head", "pull", "body", "read"}
    PROVE  Op(x, a, kind) \in OpType /\ Op(x, a, kind).x = x /\ Op(x, a, kind).kind = kind
           /\ Op(x, a, kind).at = a
    BY DEF Op, OpType

\* What is on time for one record is so for another with the same phase, head and member.
LEMMA OnTimeAs ==
    ASSUME NEW o, NEW e, NEW f, OnTime(o, e), f.phase = e.phase, f.sent = e.sent, f.member = e.member
    PROVE  OnTime(o, f)
    BY DEF OnTime

\* A handler that leaves the pools alone.
LEMMA GoesStep ==
    ASSUME Inv, NEW x \in Exchanges, NEW e, Once(x, e),
           (e.phase = "queued") = (ex[x].phase = "queued"), ex[x].phase = "queued" => e.member = ex[x].member,
           NEW os2, \A o \in os2 : o \in ops \/ (o \in OpType /\ o.x = x),
           \A o \in os2 : o.x = x => OnTime(o, e), Goes(x, e, os2)
    PROVE  Kept
<1>1. StateInv(ex, ops, pools) /\ ops \subseteq OpType /\ \A o \in ops : OnTime(o, ex[o.x])
    BY DEF Inv, StateInv
<1>2. os2 \subseteq OpType /\ \A o \in os2 : OnTime(o, IF o.x = x THEN e ELSE ex[o.x])
    BY <1>1
<1>3. StateInv([ex EXCEPT ![x] = e], os2, pools)
    BY <1>1, <1>2, GoesKeeps
<1>. QED  BY <1>3 DEF Goes, Kept, Inv

\* A late handler: its exchange has gone on without it.
LEMMA GoneOn ==
    ASSUME Inv, NEW o \in ops, Goes(o.x, ex[o.x], ops \ {o})
    PROVE  Kept
<1>1. o.x \in Exchanges /\ Once(o.x, ex[o.x]) /\ \A c \in ops : OnTime(c, ex[c.x])
    BY DEF Inv, StateInv, OpType
<1>. QED  BY <1>1, GoesStep

\* read_more.
LEMMA ReadsMore ==
    ASSUME Inv, NEW x \in Exchanges, NEW e, Once(x, e), ex[x].phase # "queued", e.phase = "receiving",
           NEW os, os \subseteq ops, \A o \in os : o.x = x => OnTime(o, e), read_more(x, e, os)
    PROVE  Kept
<1>1. CASE Goes(x, e, os)
    BY <1>1, GoesStep
<1>2. CASE Goes(x, [arm(e) EXCEPT !.reading = TRUE], os \cup {Op(x, e.member, "read")})
  <2> DEFINE f == [arm(e) EXCEPT !.reading = TRUE]
             c == Op(x, e.member, "read")
  <2>1. f \in ExchangeType /\ f.phase = e.phase /\ f.sent = e.sent /\ f.delivered = e.delivered
        /\ f.answers = e.answers /\ f.sends = e.sends /\ f.member = e.member
      BY Zenon DEF Once, ExchangeType, arm
  <2> HIDE DEF f
  <2>2. Once(x, f) /\ f.phase = "receiving"
      BY <2>1, KeepsOnce
  <2>3. e.member \in Addresses
      BY DEF Once, ExchangeType
  <2>4. c \in OpType /\ c.x = x /\ OnTime(c, f)
      BY <2>3, Starts DEF OnTime
  <2>5. \A o \in os : o.x = x => OnTime(o, f)
      BY <2>1, OnTimeAs
  <2> HIDE DEF c
  <2>6. Goes(x, f, os \cup {c})
      BY <1>2 DEF f, c
  <2>7. \A o \in os \cup {c} : (o \in ops \/ (o \in OpType /\ o.x = x)) /\ (o.x = x => OnTime(o, f))
      BY <2>4, <2>5
  <2>. QED  BY SMTT(30), <2>2, <2>6, <2>7, GoesStep
<1>. QED  BY <1>1, <1>2 DEF read_more

\* A handler that fails its exchange.
LEMMA FailedByKeeps ==
    ASSUME ExchangeAssumption, Inv, NEW o \in ops, NEW e, Once(o.x, e), ex[o.x].phase # "queued",
           e.phase \notin {"queued", "cancelled"}, FailedBy(o, e, ops \ {o})
    PROVE  Kept
<1>1. o.x \in Exchanges
    BY DEF Inv, StateInv, OpType
<1>2. fail(o.x, e, TRUE, ops \ {o})
    BY Zenon DEF FailedBy
<1>. QED  BY Zenon, <1>1, <1>2, FailKeeps DEF Kept

\* finish and finish_upgraded.
LEMMA FinishKeeps ==
    ASSUME ExchangeAssumption, Inv, NEW x \in Exchanges, NEW e, Once(x, e), ex[x].phase # "queued",
           NEW open \in BOOLEAN, NEW os, os \subseteq ops,
           \A o \in os : o.x = x => OnTime(o, e), e.phase = "receiving",
           release_connection(x, deliver_head([e EXCEPT !.phase = "finished"]), open, os),
           UNCHANGED turn
    PROVE  Kept
<1> DEFINE f == deliver_head([e EXCEPT !.phase = "finished"])
<1>1. Once(x, f) /\ f.phase = "finished" /\ f.sent = e.sent
    BY Zenon, EndsOnce
<1> HIDE DEF f
<1>2. \A o \in os : o.x = x => OnTime(o, f)
    BY <1>1 DEF OnTime
<1>3. CASE open = TRUE
  <2>1. release_connection(x, f, TRUE, os)
      BY Zenon, <1>3 DEF f
  <2>. QED  BY Zenon, <1>1, <1>2, <2>1, ReleaseKeeps DEF Kept, Inv
<1>4. CASE open = FALSE
  <2>1. release_connection(x, f, FALSE, os)
      BY Zenon, <1>4 DEF f
  <2>. QED  BY Zenon, <1>1, <1>2, <2>1, ReleaseKeeps DEF Kept, Inv
<1>. QED  BY Zenon, <1>3, <1>4

\* x goes on as f with one more operation.
LEMMA GoesWith ==
    ASSUME Inv, NEW o \in ops, NEW f, Once(o.x, f), ex[o.x].phase # "queued", f.phase # "queued",
           NEW c \in OpType, c.x = o.x, OnTime(c, f),
           \A b \in ops \ {o} : b.x = o.x => OnTime(b, f), Goes(o.x, f, (ops \ {o}) \cup {c})
    PROVE  Kept
<1> DEFINE os2 == (ops \ {o}) \cup {c}
<1>1. o.x \in Exchanges
    BY Found
<1>2. \A b \in os2 : (b \in ops \/ (b \in OpType /\ b.x = o.x)) /\ (b.x = o.x => OnTime(b, f))
    OBVIOUS
<1> HIDE DEF os2
<1>3. Goes(o.x, f, os2)
    BY DEF os2
<1>. QED  BY <1>1, <1>2, <1>3, GoesStep

\* on_connect's handler.
LEMMA ConnectKeeps ==
    ASSUME ExchangeAssumption, Inv, NEW o \in ops, on_connect(o)
    PROVE  Kept
<1> DEFINE x == o.x
           e == ex[x]
<1>1. x \in Exchanges /\ Once(x, e) /\ e \in ExchangeType /\ e.member \in Addresses
      /\ \A c \in ops : c \in OpType /\ OnTime(c, ex[c.x])
    BY Found
<1>2. CASE e.phase # "connecting"
    BY SMTT(30), <1>2, GoneOn DEF on_connect
<1>3. CASE e.phase = "connecting" /\ FailedBy(o, e, ops \ {o})
    BY SMTT(30), <1>1, <1>3, FailedByKeeps
<1>4. CASE e.phase = "connecting" /\ Goes(x, send_head(e), (ops \ {o}) \cup {Op(x, e.member, "head")})
  <2> DEFINE f == send_head(e)
             c == Op(x, e.member, "head")
  <2>1. Once(x, f) /\ f.phase = "sending" /\ f.sent = TRUE
      BY Zenon, <1>1, <1>4, SendsHead DEF Once
  <2>2. c \in OpType /\ c.x = x /\ c.kind = "head"
      BY <1>1, Starts
  <2> HIDE DEF f, c
  <2>3. \A b \in ops \ {o} : b.x = x => OnTime(b, f)
      BY <1>1, <1>4, <2>1 DEF OnTime
  <2>4. OnTime(c, f)
      BY SMTT(30), <2>1, <2>2 DEF OnTime
  <2>5. Goes(x, f, (ops \ {o}) \cup {c})
      BY SMTT(30), <1>4 DEF f, c
  <2>. QED  BY SMTT(30), <1>4, <2>1, <2>2, <2>3, <2>4, <2>5, GoesWith
<1>5. CASE e.phase = "connecting"
           /\ Goes(x, [arm(e) EXCEPT !.phase = "sending"], (ops \ {o}) \cup {Op(x, e.member, "handshake")})
  <2> DEFINE f == [arm(e) EXCEPT !.phase = "sending"]
             c == Op(x, e.member, "handshake")
  <2>1. f \in ExchangeType /\ f.phase = "sending" /\ f.sent = e.sent /\ f.member = e.member
        /\ f.delivered = e.delivered /\ f.answers = e.answers /\ f.sends = e.sends
      BY Zenon, <1>1 DEF arm, ExchangeType, Phases
  <2>2. c \in OpType /\ c.x = x /\ c.kind = "handshake" /\ c.at = e.member
      BY <1>1, Starts
  <2> HIDE DEF f, c
  <2>3. Once(x, f) /\ (x \notin Resendable => ~f.sent)
      BY SMTT(30), <1>1, <1>5, <2>1 DEF Once
  <2>4. \A b \in ops \ {o} : b.x = x => OnTime(b, f)
      BY SMTT(30), <1>1, <1>5, <2>1 DEF OnTime
  <2>5. OnTime(c, f)
      BY SMTT(30), <2>1, <2>2, <2>3 DEF OnTime
  <2>6. Goes(x, f, (ops \ {o}) \cup {c})
      BY SMTT(30), <1>5 DEF f, c
  <2>. QED  BY SMTT(30), <1>5, <2>1, <2>2, <2>3, <2>4, <2>5, <2>6, GoesWith
<1>. QED  BY SMTT(30), <1>2, <1>3, <1>4, <1>5 DEF on_connect

\* on_handshake's handler: no other handshake of the exchange runs.
LEMMA HandshakeKeeps ==
    ASSUME ExchangeAssumption, Inv, NEW o \in ops, on_handshake(o)
    PROVE  Kept
<1> DEFINE x == o.x
           e == ex[x]
<1>1. x \in Exchanges /\ Once(x, e) /\ e \in ExchangeType /\ e.member \in Addresses
      /\ \A c \in ops : c \in OpType /\ OnTime(c, ex[c.x])
    BY Found
<1>2. CASE e.phase # "sending"
    BY SMTT(30), <1>2, GoneOn DEF on_handshake
<1>3. CASE e.phase = "sending" /\ FailedBy(o, e, ops \ {o})
    BY SMTT(30), <1>1, <1>3, FailedByKeeps
<1>4. CASE e.phase = "sending" /\ o.kind = "handshake" /\ ~o.aborted
           /\ Goes(x, send_head(e), (ops \ {o}) \cup {Op(x, e.member, "head")})
  <2> DEFINE f == send_head(e)
             c == Op(x, e.member, "head")
  <2>1. x \notin Resendable => ~e.sent /\ o.at = e.member
      BY SMTT(30), <1>1, <1>4 DEF OnTime
  <2>2. Once(x, f) /\ f.phase = "sending" /\ f.sent = TRUE
      BY Zenon, <1>1, <2>1, SendsHead
  <2>3. c \in OpType /\ c.x = x /\ c.kind = "head"
      BY <1>1, Starts
  <2> HIDE DEF f, c
  <2>4. ASSUME NEW b \in ops \ {o}, b.x = x PROVE OnTime(b, f)
    <3>1. CASE x \notin Resendable /\ ~b.aborted /\ b.kind = "handshake"
      <4>1. b.at = e.member /\ b \in OpType /\ o \in OpType
          BY SMTT(30), <1>1, <2>4, <3>1 DEF OnTime
      <4>2. b.x = o.x /\ b.at = o.at /\ b.aborted = o.aborted /\ b.kind = o.kind
          BY SMTT(30), <1>4, <2>1, <2>4, <3>1, <4>1 DEF OpType
      <4>3. b = o
          BY SMTT(30), <4>1, <4>2 DEF OpType
      <4>. QED  BY SMTT(30), <4>3
    <3>2. CASE ~(x \notin Resendable /\ ~b.aborted /\ b.kind = "handshake")
        BY SMTT(30), <2>2, <2>4, <3>2 DEF OnTime
    <3>. QED  BY <3>1, <3>2
  <2>5. OnTime(c, f)
      BY <2>2, <2>3 DEF OnTime
  <2>6. Goes(x, f, (ops \ {o}) \cup {c})
      BY SMTT(30), <1>4 DEF f, c
  <2>. QED  BY SMTT(30), <1>4, <2>2, <2>3, <2>4, <2>5, <2>6, GoesWith
<1>. QED  BY SMTT(30), <1>2, <1>3, <1>4 DEF on_handshake

\* A dead kept connection: the request that may go out again does, on a fresh one.
LEMMA RetryKeeps ==
    ASSUME Inv, NEW o \in ops, NEW e, Once(o.x, e), ex[o.x].phase # "queued",
           try_retry(o.x, e, ops \ {o})
    PROVE  Kept
<1> DEFINE f == connect(e)
           c == Op(o.x, e.member, "connect")
<1>1. o.x \in Resendable /\ Goes(o.x, f, (ops \ {o}) \cup {c})
    BY SMTT(30) DEF try_retry, CanRetry
<1>2. o.x \in Exchanges /\ e.member \in Addresses
    BY Found DEF Once, ExchangeType
<1>3. Once(o.x, f) /\ f.phase = "connecting"
    BY SMTT(30), <1>1, Connects
<1>4. c \in OpType /\ c.x = o.x
    BY SMTT(30), <1>2, Starts
<1> HIDE DEF f, c
<1>5. OnTime(c, f) /\ \A b \in ops \ {o} : b.x = o.x => OnTime(b, f)
    BY SMTT(30), <1>1, <1>4 DEF OnTime
<1>. QED  BY SMTT(30), <1>1, <1>3, <1>4, <1>5, GoesWith

\* The body is out, or there is none (body_sent).
LEMMA BodySentKeeps ==
    ASSUME ExchangeAssumption, Inv, NEW o \in ops, ~o.aborted,
           \/ o.kind = "head" /\ ex[o.x].phase = "sending"
           \/ ex[o.x].phase = "sending_body",
           body_sent(o.x, ex[o.x], ops \ {o})
    PROVE  Kept
<1> DEFINE x == o.x
           e == ex[x]
           f == [e EXCEPT !.phase = "receiving", !.left = MaxChunks]
<1>1. x \in Exchanges /\ Once(x, e) /\ e \in ExchangeType /\ \A c \in ops : c \in OpType /\ OnTime(c, ex[c.x])
    BY Found
<1>2. MaxChunks \in Nat
    BY SMTT(30), GroupType DEF Inv
<1>3. f \in ExchangeType /\ f.phase = "receiving" /\ f.sent = e.sent /\ f.member = e.member
      /\ f.delivered = e.delivered /\ f.answers = e.answers /\ f.sends = e.sends
    BY Zenon, <1>1, <1>2 DEF ExchangeType, Phases
<1>4. read_more(x, f, ops \ {o})
    BY DEF body_sent
<1> HIDE DEF f
<1>5. Once(x, f)
    BY <1>1, <1>3 DEF Once
<1>6. \A b \in ops \ {o} : b.x = x => OnTime(b, f)
    BY SMTT(30), <1>1, <1>3 DEF OnTime
<1>. QED  BY SMTT(30), <1>1, <1>3, <1>4, <1>5, <1>6, ReadsMore

\* The next chunk of the body is read or written.
LEMMA ChunkKeeps ==
    ASSUME Inv, NEW o \in ops, NEW f, Once(o.x, f), f.phase = "sending_body", f.sent = ex[o.x].sent,
           f.member = ex[o.x].member,
           \/ ~o.aborted /\ o.kind = "head" /\ ex[o.x].phase = "sending"
           \/ ex[o.x].phase = "sending_body",
           NEW kind \in {"pull", "body"}, Goes(o.x, f, (ops \ {o}) \cup {Op(o.x, ex[o.x].member, kind)})
    PROVE  Kept
<1> DEFINE c == Op(o.x, ex[o.x].member, kind)
<1>1. o.x \in Exchanges /\ ex[o.x].member \in Addresses /\ \A b \in ops : b \in OpType /\ OnTime(b, ex[b.x])
    BY SMTT(30), Found
<1>2. c \in OpType /\ c.x = o.x /\ c.kind = kind
    BY SMTT(30), <1>1, Starts
<1> HIDE DEF c
<1>3. OnTime(c, f)
    BY SMTT(30), <1>2 DEF OnTime
<1>4. \A b \in ops \ {o} : b.x = o.x => OnTime(b, f)
    BY SMTT(30), <1>1 DEF OnTime
<1>5. Goes(o.x, f, (ops \ {o}) \cup {c})
    BY DEF c
<1>. QED  BY SMTT(30), <1>2, <1>3, <1>4, <1>5, GoesWith

\* send_head's handler.
LEMMA HeadKeeps ==
    ASSUME ExchangeAssumption, Inv, NEW o \in ops, on_head_written(o)
    PROVE  Kept
<1> DEFINE x == o.x
           e == ex[x]
           os == ops \ {o}
<1>1. x \in Exchanges /\ Once(x, e) /\ e \in ExchangeType /\ e.member \in Addresses
    BY Found
<1>2. CASE e.phase # "sending"
    BY SMTT(30), <1>2, GoneOn DEF on_head_written
<1>3. CASE e.phase = "sending" /\ try_retry(x, e, os)
    BY SMTT(30), <1>1, <1>3, RetryKeeps
<1>4. CASE e.phase = "sending" /\ FailedBy(o, e, os)
    BY SMTT(30), <1>1, <1>4, FailedByKeeps
<1>5. CASE /\ e.phase = "sending" /\ o.kind = "head" /\ ~o.aborted
           /\ Goes(x, [arm(e) EXCEPT !.phase = "sending_body"], os \cup {BodyOp(x, e)})
  <2> DEFINE f == [arm(e) EXCEPT !.phase = "sending_body"]
  <2>1. f \in ExchangeType /\ f.phase = "sending_body" /\ f.sent = e.sent /\ f.member = e.member
        /\ f.delivered = e.delivered /\ f.answers = e.answers /\ f.sends = e.sends
      BY Zenon, <1>1 DEF arm, ExchangeType, Phases
  <2> HIDE DEF f
  <2>2. Once(x, f)
      BY <1>1, <1>5, <2>1 DEF Once
  <2>3. PICK kind \in {"pull", "body"} : BodyOp(x, e) = Op(x, e.member, kind)
      BY DEF BodyOp
  <2>4. Goes(x, f, os \cup {Op(x, e.member, kind)})
      BY SMTT(30), <1>5, <2>3 DEF f
  <2>. QED  BY Zenon, <1>5, <2>1, <2>2, <2>4, ChunkKeeps
<1>6. CASE e.phase = "sending" /\ fail(x, e, FALSE, os)
    BY Zenon, <1>1, <1>6, FailKeeps DEF Kept
<1>7. CASE e.phase = "sending" /\ o.kind = "head" /\ ~o.aborted /\ body_sent(x, e, os)
    BY <1>7, BodySentKeeps
<1>. QED  BY Zenon, <1>2, <1>3, <1>4, <1>5, <1>6, <1>7 DEF on_head_written

\* The client's next chunk, or its error.
LEMMA PulledKeeps ==
    ASSUME ExchangeAssumption, Inv, NEW o \in ops, on_pulled(o)
    PROVE  Kept
<1> DEFINE x == o.x
           e == ex[x]
           os == ops \ {o}
<1>1. x \in Exchanges /\ Once(x, e) /\ e \in ExchangeType
    BY SMTT(30), Found
<1>2. CASE e.phase # "sending_body"
    BY SMTT(30), <1>2, GoneOn DEF on_pulled
<1>3. CASE e.phase = "sending_body" /\ FailedBy(o, e, os)
    BY SMTT(30), <1>1, <1>3, FailedByKeeps
<1>4. CASE e.phase = "sending_body" /\ Goes(x, arm(e), os \cup {Op(x, e.member, "body")})
  <2>1. Once(x, arm(e)) /\ arm(e).phase = e.phase /\ arm(e).sent = e.sent /\ arm(e).member = e.member
      BY SMTT(30), <1>1, Armed DEF ExchangeType
  <2>. QED  BY Zenon, <1>4, <2>1, ChunkKeeps
<1>. QED  BY SMTT(30), <1>2, <1>3, <1>4 DEF on_pulled

\* A chunk of the body is written.
LEMMA BodyKeeps ==
    ASSUME ExchangeAssumption, Inv, NEW o \in ops, on_body_written(o)
    PROVE  Kept
<1> DEFINE x == o.x
           e == ex[x]
           os == ops \ {o}
<1>1. x \in Exchanges /\ Once(x, e) /\ e \in ExchangeType
    BY Found
<1>2. CASE e.phase # "sending_body"
    BY SMTT(30), <1>2, GoneOn DEF on_body_written
<1>3. CASE e.phase = "sending_body" /\ FailedBy(o, e, os)
    BY <1>1, <1>3, FailedByKeeps
<1>4. CASE e.phase = "sending_body" /\ e.left > 0
           /\ Goes(x, [arm(e) EXCEPT !.left = @ - 1], os \cup {BodyOp(x, e)})
  <2> DEFINE n == e.left - 1
             f == [e EXCEPT !.late = FALSE, !.left = n]
  <2>1. n \in Nat
      BY <1>1, <1>4 DEF ExchangeType
  <2>2. f = [arm(e) EXCEPT !.left = @ - 1]
      BY SMTT(30), <1>1 DEF arm, ExchangeType
  <2> HIDE DEF n
  <2>3. f \in ExchangeType /\ f.phase = e.phase /\ f.sent = e.sent /\ f.member = e.member
        /\ f.delivered = e.delivered /\ f.answers = e.answers /\ f.sends = e.sends
      BY Zenon, <1>1, <2>1 DEF ExchangeType
  <2> HIDE DEF f
  <2>4. Once(x, f)
      BY <1>1, <2>3, KeepsOnce
  <2>5. PICK kind \in {"pull", "body"} : BodyOp(x, e) = Op(x, e.member, kind)
      BY DEF BodyOp
  <2>6. Goes(x, f, os \cup {Op(x, e.member, kind)})
      BY SMTT(30), <1>4, <2>2, <2>5
  <2>. QED  BY Zenon, <1>4, <2>3, <2>4, <2>6, ChunkKeeps
<1>5. CASE e.phase = "sending_body" /\ fail(x, e, FALSE, os)
    BY Zenon, <1>1, <1>5, FailKeeps DEF Kept
<1>6. CASE e.phase = "sending_body" /\ ~o.aborted /\ body_sent(x, e, os)
    BY <1>6, BodySentKeeps
<1>. QED  BY Zenon, <1>2, <1>3, <1>4, <1>5, <1>6 DEF on_body_written

\* A read is over.
LEMMA ReadAs ==
    ASSUME NEW x, NEW e, Once(x, e)
    PROVE  LET f == [e EXCEPT !.reading = FALSE]
           IN Once(x, f) /\ f.phase = e.phase /\ f.sent = e.sent /\ f.member = e.member
<1> DEFINE f == [e EXCEPT !.reading = FALSE]
<1>1. f \in ExchangeType /\ f.phase = e.phase /\ f.sent = e.sent /\ f.delivered = e.delivered
      /\ f.answers = e.answers /\ f.sends = e.sends /\ f.member = e.member
    BY Zenon DEF Once, ExchangeType
<1> HIDE DEF f
<1>2. Once(x, f)
    BY <1>1, KeepsOnce
<1>. QED  BY SMTT(30), <1>1, <1>2 DEF f

\* Some of the answer is seen.
LEMMA SeenAs ==
    ASSUME NEW x, NEW e, Once(x, e), NEW s \in {"nothing", "bytes", "head"}
    PROVE  LET f == [e EXCEPT !.seen = s]
           IN Once(x, f) /\ f.phase = e.phase /\ f.sent = e.sent /\ f.member = e.member
<1> DEFINE f == [e EXCEPT !.seen = s]
<1>1. f \in ExchangeType /\ f.phase = e.phase /\ f.sent = e.sent /\ f.delivered = e.delivered
      /\ f.answers = e.answers /\ f.sends = e.sends /\ f.member = e.member
    BY DEF Once, ExchangeType
<1> HIDE DEF f
<1>2. Once(x, f)
    BY SMTT(30), <1>1, KeepsOnce
<1>. QED  BY <1>1, <1>2 DEF f

\* A chunk fewer is left.
LEMMA LeftAs ==
    ASSUME NEW x, NEW e, Once(x, e), NEW n \in Nat
    PROVE  LET f == [e EXCEPT !.left = n]
           IN Once(x, f) /\ f.phase = e.phase /\ f.sent = e.sent /\ f.member = e.member
<1> DEFINE f == [e EXCEPT !.left = n]
<1>1. f \in ExchangeType /\ f.phase = e.phase /\ f.sent = e.sent /\ f.delivered = e.delivered
      /\ f.answers = e.answers /\ f.sends = e.sends /\ f.member = e.member
    BY DEF Once, ExchangeType
<1> HIDE DEF f
<1>2. Once(x, f)
    BY SMTT(30), <1>1, KeepsOnce
<1>. QED  BY SMTT(30), <1>1, <1>2 DEF f

\* The head of a streamed answer goes to the client.
LEMMA DeliveredAs ==
    ASSUME NEW x, NEW e, Once(x, e), e.phase # "cancelled"
    PROVE  LET f == Delivered(x, e)
           IN Once(x, f) /\ f.phase = e.phase /\ f.sent = e.sent /\ f.member = e.member
<1>1. CASE e.seen = "head" /\ x \in Streamed
    BY Zenon, <1>1, DeliversHead DEF Delivered
<1>2. CASE ~(e.seen = "head" /\ x \in Streamed)
    BY <1>2 DEF Delivered
<1>. QED  BY SMTT(30), <1>1, <1>2

\* read_more's handler.
LEMMA ReadKeeps ==
    ASSUME ExchangeAssumption, Inv, NEW o \in ops, on_read(o)
    PROVE  Kept
<1> DEFINE x == o.x
           e == [ex[x] EXCEPT !.reading = FALSE]
           os == ops \ {o}
<1>1. x \in Exchanges /\ Once(x, ex[x]) /\ \A c \in ops : c \in OpType /\ OnTime(c, ex[c.x])
    BY Found
<1>2. Once(x, e) /\ e.phase = ex[x].phase /\ e.sent = ex[x].sent /\ e.member = ex[x].member
    BY SMTT(30), <1>1, ReadAs
<1>3. \/ e.phase # "receiving" /\ Goes(x, e, os)
      \/ e.phase = "receiving" /\ (try_retry(x, e, os) \/ FailedBy(o, e, os))
      \/ e.phase = "receiving" /\ \E d \in Progress(x, e) :
            \/ /\ e.left > 0
               /\ read_more(x, Delivered(x, [d EXCEPT !.left = @ - 1]), os)
            \/ FailedBy(o, Delivered(x, d), os)
            \/ d.seen = "head" /\ \E open \in BOOLEAN : finish(x, d, open, os)
            \/ d.seen = "head" /\ x \notin WithBody /\ finish_upgraded(x, d, os)
    BY Zenon DEF on_read
<1> HIDE DEF e
<1>4. \A b \in os : b.x = x => OnTime(b, e)
    BY <1>1, <1>2, OnTimeAs
<1>5. CASE e.phase # "receiving" /\ Goes(x, e, os)
    BY <1>1, <1>2, <1>4, <1>5, GoesStep
<1>6. CASE e.phase = "receiving" /\ try_retry(x, e, os)
    BY Zenon, <1>2, <1>6, RetryKeeps
<1>7. CASE e.phase = "receiving" /\ FailedBy(o, e, os)
    BY Zenon, <1>2, <1>7, FailedByKeeps
<1>8. ASSUME e.phase = "receiving", NEW d \in Progress(x, e)
      PROVE  Once(x, d) /\ d.phase = "receiving" /\ d.sent = e.sent /\ d.member = e.member /\ d.left = e.left
  <2>1. PICK s \in {"nothing", "bytes", "head"} : d = [e EXCEPT !.seen = s]
      BY DEF Progress
  <2>2. d.left = e.left
      BY <1>2, <2>1 DEF Once, ExchangeType
  <2>. QED  BY Zenon, <1>2, <1>8, <2>1, <2>2, SeenAs
<1>9. ASSUME e.phase = "receiving", e.left > 0, NEW d \in Progress(x, e),
             read_more(x, Delivered(x, [d EXCEPT !.left = @ - 1]), os)
      PROVE  Kept
  <2> DEFINE n == d.left - 1
             f == [d EXCEPT !.left = n]
             g == Delivered(x, f)
  <2>1. Once(x, d) /\ d.phase = "receiving" /\ d.sent = e.sent /\ d.member = e.member /\ n \in Nat
    <3>1. Once(x, d) /\ d.phase = "receiving" /\ d.sent = e.sent /\ d.member = e.member /\ d.left = e.left
        BY SMTT(30), <1>8, <1>9
    <3>2. e.left \in Nat
        BY <1>2 DEF Once, ExchangeType
    <3>. QED  BY SMTT(30), <1>9, <3>1, <3>2
  <2>2. read_more(x, g, os)
      BY SMTT(30), <1>9
  <2> HIDE DEF n
  <2>3. Once(x, f) /\ f.phase = d.phase /\ f.sent = d.sent /\ f.member = d.member
      BY SMTT(30), <2>1, LeftAs
  <2> HIDE DEF f
  <2>4. Once(x, g) /\ g.phase = f.phase /\ g.sent = f.sent /\ g.member = f.member
      BY SMTT(30), <2>1, <2>3, DeliveredAs
  <2> HIDE DEF g
  <2>5. \A b \in os : b.x = x => OnTime(b, g)
      BY SMTT(30), <1>4, <1>9, <2>1, <2>3, <2>4, OnTimeAs
  <2>. QED  BY Zenon, <1>1, <1>2, <1>9, <2>1, <2>2, <2>3, <2>4, <2>5, ReadsMore
<1>10. ASSUME e.phase = "receiving", NEW d \in Progress(x, e), FailedBy(o, Delivered(x, d), os)
       PROVE  Kept
  <2>1. Once(x, d) /\ d.phase = "receiving"
      BY <1>8, <1>10
  <2>2. Once(x, Delivered(x, d)) /\ Delivered(x, d).phase = "receiving"
      BY SMTT(30), <2>1, DeliveredAs
  <2>. QED  BY Zenon, <1>2, <1>10, <2>2, FailedByKeeps
<1>11. ASSUME e.phase = "receiving", NEW d \in Progress(x, e), NEW open \in BOOLEAN,
              release_connection(x, deliver_head([d EXCEPT !.phase = "finished"]), open, os), UNCHANGED turn
       PROVE  Kept
  <2>1. Once(x, d) /\ d.phase = "receiving" /\ d.sent = e.sent /\ d.member = e.member
      BY <1>8, <1>11
  <2>2. \A b \in os : b.x = x => OnTime(b, d)
      BY SMTT(30), <1>4, <1>11, <2>1, OnTimeAs
  <2>3. CASE open = TRUE
      BY Zenon, <1>1, <1>2, <1>11, <2>1, <2>2, <2>3, FinishKeeps
  <2>4. CASE open = FALSE
      BY Zenon, <1>1, <1>2, <1>11, <2>1, <2>2, <2>4, FinishKeeps
  <2>. QED  BY Zenon, <1>11, <2>3, <2>4
<1>12. ASSUME e.phase = "receiving", NEW d \in Progress(x, e), NEW open \in BOOLEAN, finish(x, d, open, os)
       PROVE  Kept
    BY SMTT(30), <1>11, <1>12 DEF finish
<1>13. ASSUME e.phase = "receiving", NEW d \in Progress(x, e), finish_upgraded(x, d, os)
       PROVE  Kept
    BY Zenon, <1>11, <1>13 DEF finish_upgraded
<1>. QED  BY Zenon, <1>3, <1>5, <1>6, <1>7, <1>9, <1>10, <1>12, <1>13

\* The client's writer asks for more.
LEMMA PullKeeps ==
    ASSUME Inv, NEW x \in Exchanges, pull(x)
    PROVE  Kept
<1>1. Once(x, ex[x]) /\ ex[x].phase = "receiving" /\ read_more(x, ex[x], ops)
      /\ \A o \in ops : o.x = x => OnTime(o, ex[x])
    BY DEF Inv, StateInv, pull
<1>. QED  BY <1>1, ReadsMore

\* x leaves the queue it waits in (dequeue).
LEMMA DequeueKeeps ==
    ASSUME Inv, NEW x \in Exchanges, NEW e, Once(x, e), ex[x].phase = "queued", e.phase # "queued",
           ex' = [ex EXCEPT ![x] = e], NEW p \in dequeue(pools[ex[x].member], x),
           pools' = [pools EXCEPT ![ex[x].member] = p], ops' = ops, turn' = turn
    PROVE  Kept
<1> DEFINE a == ex[x].member
           q == pools[a].queue
<1>1. /\ \A y \in Exchanges : ex[y] \in ExchangeType /\ Once(y, ex[y])
      /\ ex \in [Exchanges -> ExchangeType] /\ pools \in [Addresses -> PoolType]
      /\ ops \subseteq OpType /\ \A o \in ops : OnTime(o, ex[o.x])
      /\ \A b \in Addresses : Queued(b, pools[b].queue, ex)
    BY SMTT(30), Parts DEF Inv, StateInv
<1>2. a \in Addresses /\ pools[a] \in PoolType /\ q \in Seq(Exchanges) /\ Queued(a, q, ex) /\ e \in ExchangeType
    BY SMTT(30), <1>1 DEF ExchangeType, PoolType, Once
<1>3. PICK i \in 1 .. Len(q) : q[i] = x /\ p = [pools[a] EXCEPT !.queue = erase(@, i)]
  <2>1. DOMAIN q = 1 .. Len(q) /\ \E i \in DOMAIN q : q[i] = x
      BY SMTT(30), <1>2, LenProperties DEF Queued
  <2>. QED  BY SMTT(30), <2>1 DEF dequeue
<1>4. erase(q, i) \in Seq(Exchanges)
    BY SMTT(30), <1>2, Erases
<1>5. p \in PoolType /\ p.queue = erase(q, i)
    BY SMTT(30), <1>2, <1>3, <1>4 DEF PoolType
<1>6. pools' \in [Addresses -> PoolType] /\ pools'[a] = p /\ \A b \in Addresses : b # a => pools'[b] = pools[b]
    BY SMTT(30), <1>1, <1>2, <1>5
<1>7. ex' \in [Exchanges -> ExchangeType] /\ ex'[x] = e /\ \A y \in Exchanges : y # x => ex'[y] = ex[y]
    BY SMTT(30), <1>1, <1>2
<1>8. \A y \in Exchanges : Once(y, ex'[y])
    BY SMTT(30), <1>1, <1>7
<1>9. ASSUME NEW o \in ops PROVE OnTime(o, ex'[o.x])
  <2>1. o.x \in Exchanges /\ OnTime(o, ex[o.x])
      BY SMTT(30), <1>1 DEF OpType
  <2>2. CASE o.x # x
      BY SMTT(30), <1>7, <2>1, <2>2
  <2>3. CASE o.x = x
    <3>1. Once(x, ex[x])
        BY SMTT(30), <1>1
    <3>. QED  BY SMTT(30), <2>1, <2>3, <3>1 DEF OnTime, Once
  <2>. QED  BY SMTT(30), <2>2, <2>3
<1> HIDE DEF a, q
<1>10. ASSUME NEW b \in Addresses PROVE Queued(b, pools'[b].queue, ex')
  <2>1. Queued(b, pools[b].queue, ex)
      BY SMTT(30), <1>1
  <2>2. CASE b = a
    <3>1. Queued(a, erase(q, i), ex')
        BY Zenon, <1>2, <1>3, <1>7, Unqueues
    <3>. QED  BY SMTT(30), <1>5, <1>6, <2>2, <3>1
  <2>3. CASE b # a
    <3>1. \A y \in Exchanges : (ex'[y].phase = "queued" /\ ex'[y].member = b)
                                <=> (ex[y].phase = "queued" /\ ex[y].member = b)
        BY SMTT(30), <1>7, <2>3 DEF a
    <3>2. Queued(b, pools[b].queue, ex')
        BY Zenon, <2>1, <3>1, StaysQueued
    <3>. QED  BY <1>6, <2>3, <3>2
  <2>. QED  BY SMTT(30), <2>2, <2>3
<1>11. StateInv(ex', ops', pools')
    BY Zenon, <1>1, <1>6, <1>7, <1>8, <1>9, <1>10 DEF StateInv
<1>. QED  BY SMTT(30), <1>11 DEF Kept, Inv

\* The client went away.
LEMMA CancelKeeps ==
    ASSUME ExchangeAssumption, Inv, NEW x \in Exchanges, cancel(x)
    PROVE  Kept
<1> DEFINE e == [ex[x] EXCEPT !.phase = "cancelled"]
<1>1. Once(x, ex[x]) /\ ex[x] \in ExchangeType /\ ~ex[x].delivered /\ turn' = turn /\ turn \in Nat
    BY DEF Inv, StateInv, cancel, Once
<1>2. e \in ExchangeType /\ e.phase = "cancelled" /\ e.sent = ex[x].sent /\ e.member = ex[x].member
      /\ e.delivered = ex[x].delivered /\ e.answers = ex[x].answers /\ e.sends = ex[x].sends
    BY <1>1 DEF ExchangeType, Phases
<1>3. \/ ex[x].phase \in Active /\ release_connection(x, e, FALSE, ops)
      \/ /\ ex[x].phase \notin Active \cup {"new", "cancelled"} /\ ex' = [ex EXCEPT ![x] = e] /\ ops' = ops
         /\ \E p \in dequeue(pools[e.member], x) : pools' = [pools EXCEPT ![e.member] = p]
    BY Zenon DEF cancel
<1> HIDE DEF e
<1>4. Once(x, e)
    BY <1>1, <1>2 DEF Once
<1>5. CASE ex[x].phase \in Active /\ release_connection(x, e, FALSE, ops)
  <2>1. ex[x].phase # "queued"
      BY <1>5 DEF Active
  <2>. QED  BY Zenon, <1>1, <1>2, <1>4, <1>5, <2>1, ReleaseKeeps DEF Kept
<1>6. CASE /\ ex[x].phase \notin Active \cup {"new", "cancelled"} /\ ex' = [ex EXCEPT ![x] = e] /\ ops' = ops
           /\ \E p \in dequeue(pools[e.member], x) : pools' = [pools EXCEPT ![e.member] = p]
  <2>1. ex[x].phase = "queued"
      BY <1>1, <1>6 DEF Once, ExchangeType, Phases, Active
  <2>. QED  BY Zenon, <1>1, <1>2, <1>4, <1>6, <2>1, DequeueKeeps
<1>. QED  BY Zenon, <1>3, <1>5, <1>6

\* The tick finds an exchange past its deadline.
LEMMA OverdueKeeps ==
    ASSUME ExchangeAssumption, Inv, NEW x \in Exchanges, on_tick(x)
    PROVE  Kept
<1>1. Once(x, ex[x])
    BY DEF Inv, StateInv
<1>2. CASE /\ ex[x].phase = "queued"
           /\ ex' = [ex EXCEPT ![x] = Failed(@)]
           /\ \E p \in dequeue(pools[ex[x].member], x) : pools' = [pools EXCEPT ![ex[x].member] = p]
           /\ UNCHANGED <<ops, health, marks, turn, ticking, wronged>>
  <2> DEFINE e == Failed(ex[x])
  <2>1. Once(x, e) /\ e.phase = "failed"
      BY Zenon, <1>1, EndsOnce DEF Failed
  <2>2. ex' = [ex EXCEPT ![x] = e]
      BY <1>2
  <2> HIDE DEF e
  <2>. QED  BY Zenon, <1>2, <2>1, <2>2, DequeueKeeps
<1>3. CASE ex[x].phase \in Active /\ fail(x, ex[x], TRUE, ops)
  <2>1. ex[x].phase # "queued" /\ ex[x].phase # "cancelled"
      BY <1>3 DEF Active
  <2>. QED  BY Zenon, <1>1, <1>3, <2>1, FailKeeps DEF Kept
<1>. QED  BY Zenon, <1>2, <1>3 DEF on_tick

\* What is left of a list of ages is one.
LEMMA SweptType ==
    ASSUME ExchangeAssumption, NEW idle \in Seq(Nat)
    PROVE  sweep_idle(idle) \in Seq(Nat)
<1>1. Len(idle) \in Nat /\ Expired(idle) \in 0 .. Len(idle)
    BY SMTT(30), ExpiredFirst, LenProperties
<1>2. \A i \in Expired(idle) + 1 .. Len(idle) : idle[i] \in Nat
    BY SMTT(30), <1>1, ElementOfSeq
<1>3. Expired(idle) + 1 \in Int /\ Len(idle) \in Int
    BY SMTT(30), <1>1
<1>4. SubSeq(idle, Expired(idle) + 1, Len(idle)) \in Seq(Nat)
    BY SMTT(30), <1>2, <1>3, SubSeqProperties
<1>. QED  BY SMTT(30), <1>4 DEF sweep_idle

\* A tick's time passes.
LEMMA TickKeeps ==
    ASSUME ExchangeAssumption, Inv, tick
    PROVE  Kept
<1> DEFINE aged(a) == [n \in DOMAIN pools[a].idle |-> Older(pools[a].idle[n])]
           kept(a) == IF ticking THEN sweep_idle(aged(a)) ELSE aged(a)
<1>1. /\ \A y \in Exchanges : ex[y] \in ExchangeType /\ Once(y, ex[y])
      /\ \A a \in Addresses : pools[a] \in PoolType /\ Queued(a, pools[a].queue, ex)
      /\ ops \subseteq OpType /\ \A o \in ops : OnTime(o, ex[o.x]) /\ o.x \in Exchanges
    BY SMTT(30), Parts DEF Inv, StateInv
<1>2. /\ pools' = [a \in Addresses |-> [pools[a] EXCEPT !.idle = kept(a)]]
      /\ ex' = [x \in Exchanges |-> [ex[x] EXCEPT !.late = ex[x].phase \in Watched]]
      /\ ops' = ops /\ turn' = turn
    BY DEF tick
<1>3. ASSUME NEW a \in Addresses PROVE aged(a) \in Seq(Nat)
  <2>1. pools[a].idle \in Seq(Nat)
      BY SMTT(30), <1>1 DEF PoolType
  <2>2. DOMAIN pools[a].idle = 1 .. Len(pools[a].idle) /\ Len(pools[a].idle) \in Nat
      BY SMTT(30), <2>1, LenProperties
  <2>4. \A n \in 1 .. Len(pools[a].idle) : pools[a].idle[n] \in Nat
      BY SMTT(30), <2>1, <2>2, ElementOfSeq
  <2>3. \A n \in 1 .. Len(pools[a].idle) : Older(pools[a].idle[n]) \in Nat
      BY <2>4 DEF Older
  <2>. QED  BY SMTT(30), <2>2, <2>3
<1> HIDE DEF aged
<1>4. \A a \in Addresses : kept(a) \in Seq(Nat)
    BY SMTT(30), <1>3, SweptType
<1> HIDE DEF kept
<1>5. ASSUME NEW a \in Addresses
      PROVE  LET p == [pools[a] EXCEPT !.idle = kept(a)] IN p \in PoolType /\ p.queue = pools[a].queue
    BY SMTT(30), <1>1, <1>4 DEF PoolType
<1>6. pools' \in [Addresses -> PoolType] /\ \A a \in Addresses : pools'[a].queue = pools[a].queue
    BY Zenon, <1>2, <1>5
<1>7. ASSUME NEW y \in Exchanges
      PROVE  LET f == [ex[y] EXCEPT !.late = ex[y].phase \in Watched] IN
             Once(y, f) /\ f \in ExchangeType /\ f.phase = ex[y].phase /\ f.sent = ex[y].sent /\ f.member = ex[y].member
  <2> DEFINE late == ex[y].phase \in Watched
             f == [ex[y] EXCEPT !.late = late]
  <2>1. ex[y] \in ExchangeType /\ Once(y, ex[y]) /\ late \in BOOLEAN
      BY <1>1
  <2> HIDE DEF late
  <2>2. f \in ExchangeType /\ f.phase = ex[y].phase /\ f.sent = ex[y].sent /\ f.member = ex[y].member
        /\ f.delivered = ex[y].delivered /\ f.answers = ex[y].answers /\ f.sends = ex[y].sends
      BY SMTT(30), <2>1 DEF ExchangeType
  <2> HIDE DEF f
  <2>3. Once(y, f)
      BY SMTT(30), <2>1, <2>2, KeepsOnce
  <2>. QED  BY <2>2, <2>3 DEF f, late
<1>8. /\ ex' \in [Exchanges -> ExchangeType]
      /\ \A y \in Exchanges : /\ Once(y, ex'[y]) /\ ex'[y].phase = ex[y].phase
                               /\ ex'[y].sent = ex[y].sent /\ ex'[y].member = ex[y].member
    BY Zenon, <1>2, <1>7
<1>9. \A o \in ops : OnTime(o, ex'[o.x])
    BY <1>1, <1>8, OnTimeAs
<1>10. ASSUME NEW a \in Addresses PROVE Queued(a, pools'[a].queue, ex')
  <2>1. Queued(a, pools[a].queue, ex')
      BY SMTT(30), <1>1, <1>8, StaysQueued
  <2>. QED  BY SMTT(30), <1>6, <2>1
<1>11. StateInv(ex', ops', pools')
    BY Zenon, <1>1, <1>2, <1>6, <1>8, <1>9, <1>10 DEF StateInv
<1>. QED  BY SMTT(30), <1>2, <1>11 DEF Kept, Inv

\* The constructor picks a member, and begin() asks its pool for a slot.
LEMMA BeginKeeps ==
    ASSUME ExchangeAssumption, Inv, NEW x \in Exchanges, begin(x)
    PROVE  Kept
<1>1. ex[x].phase = "new" /\ setting \in Settings /\ StateInv(ex, ops, pools) /\ turn \in Nat
    BY SMTT(30) DEF begin, Inv
<1>2. PICK b \in pick(health, marks, turn, {}) : Begun(x, ex[x], b, pools, ex, ops)
    BY SMTT(30) DEF begin
<1>3. b \in Addresses
    BY SMTT(30), <1>1, Picks
<1>4. Once(x, ex[x]) /\ \A o \in ops : OnTime(o, ex[o.x])
    BY SMTT(30), <1>1 DEF StateInv
<1>5. Asking(x, ex[x])
    BY SMTT(30), <1>1, <1>4 DEF Once, Asking
<1>6. \A o \in ops : o.x = x /\ x \notin Resendable => o.aborted \/ o.kind \notin {"handshake", "head"}
    BY SMTT(30), <1>1, <1>4, <1>5 DEF OnTime, Asking
<1>7. StateInv(ex', ops', pools')
    BY SMTT(30), <1>1, <1>2, <1>3, <1>5, <1>6, BegunKeeps
<1>8. turn' \in Nat
  <2>1. GroupSize \in Nat \ {0}
      BY SMTT(30), <1>1, GroupType
  <2>. QED  BY SMTT(30), <1>1, <2>1 DEF begin
<1>. QED  BY SMTT(30), <1>7, <1>8 DEF Kept

-----------------------------------------------------------------------------

\* A worker's first state.
LEMMA InvInit == ASSUME ExchangeAssumption, Init PROVE Inv
<1>1. GroupSize \in Nat \ {0} /\ MaxChunks \in Nat
    BY SMTT(30), GroupType DEF Init
<1>2. 1 \in Addresses
    BY SMTT(30), <1>1 DEF Addresses
<1>3. NewExchange \in ExchangeType /\ NewExchange.phase = "new" /\ NewExchange.sent = FALSE
      /\ NewExchange.delivered = FALSE /\ NewExchange.answers = 0 /\ NewExchange.sends = 0
    BY SMTT(30), <1>1, <1>2 DEF NewExchange, ExchangeType, Phases
<1>4. \A x \in Exchanges : Once(x, NewExchange)
    BY SMTT(30), <1>3 DEF Once
<1>5. [active |-> 0, queue |-> <<>>, idle |-> <<>>] \in PoolType
    BY SMTT(30) DEF PoolType
<1>6. ex \in [Exchanges -> ExchangeType] /\ \A x \in Exchanges : Once(x, ex[x]) /\ ex[x].phase = "new"
    BY SMTT(30), <1>3, <1>4 DEF Init
<1>7. pools \in [Addresses -> PoolType] /\ \A a \in Addresses : pools[a].queue = <<>>
    BY SMTT(30), <1>5 DEF Init
<1>8. \A a \in Addresses : Queued(a, pools[a].queue, ex)
    BY SMTT(30), <1>6, <1>7 DEF Queued
<1>. QED  BY SMTT(30), <1>6, <1>7, <1>8 DEF Inv, StateInv, Init

\* Every step keeps the invariant.
LEMMA InvStep == ASSUME ExchangeAssumption, Inv, [Next]_vars PROVE Inv'
<1>1. CASE UNCHANGED vars
    BY <1>1 DEF vars, Inv, StateInv, OpType, PoolType, ExchangeType, Queued, Once, OnTime, Addresses, GroupSize
<1>2. CASE Next
  <2>1. setting' = setting
      BY <1>2 DEF Next
  <2>2. Kept
    <3>1. ASSUME NEW x \in Exchanges, begin(x) \/ cancel(x) \/ on_tick(x) \/ pull(x) PROVE Kept
        BY SMTT(30), <3>1, BeginKeeps, CancelKeeps, OverdueKeeps, PullKeeps
    <3>2. ASSUME NEW o \in ops, \/ on_connect(o) \/ on_handshake(o) \/ on_head_written(o)
                                \/ on_pulled(o) \/ on_body_written(o) \/ on_read(o)
          PROVE  Kept
        BY SMTT(30), <3>2, ConnectKeeps, HandshakeKeeps, HeadKeeps, PulledKeeps, BodyKeeps, ReadKeeps
    <3>3. ASSUME NEW a \in Addresses, Recover(a) PROVE Kept
        BY SMTT(30), <3>3 DEF Recover, Kept, Inv
    <3>. QED  BY SMTT(30), <1>2, <3>1, <3>2, <3>3, TickKeeps DEF Next
  <2>. QED  BY Zenon, <2>1, <2>2 DEF Kept, Inv, StateInv, OpType, PoolType, ExchangeType, Queued, Once, OnTime, Addresses, GroupSize
<1>. QED  BY SMTT(30), <1>1, <1>2

\* What the invariant says of the answers and of the copies.
LEMMA InvOnce == ASSUME Inv PROVE OnceEach
<1>1. \A x \in Exchanges : Once(x, ex[x]) /\ ex[x] \in ExchangeType
    BY SMTT(30) DEF Inv, StateInv
<1>2. AnsweredOnce
    BY SMTT(30), <1>1 DEF AnsweredOnce, Once
<1>3. NotDeliveredTwice
    BY <1>1 DEF NotDeliveredTwice, Once
<1>. QED  BY SMTT(30), <1>2, <1>3 DEF OnceEach

\* Whatever the origins, the clock and the clients do, a request has one answer, none after
\* it is cancelled, and an origin one copy of a request that may not be repeated: for every
\* number of requests, group, pool and schedule of handlers (finish, fail, retry, cancel).
THEOREM ExchangeOnceEach == ASSUME ExchangeAssumption PROVE Spec => []OnceEach
<1>1. Init => Inv
    BY SMTT(30), InvInit
<1>2. Inv /\ [Next]_vars => Inv'
    BY InvStep
<1>3. Inv => OnceEach
    BY InvOnce
<1>. QED  BY <1>1, <1>2, <1>3, PTL DEF Spec
=============================================================================
