----------------------------- MODULE MCUpstream -----------------------------
(* Instances for TLC of the parts of a worker between a client and an origin: *)
(* the exchanges with a group of origins and the pool of one of its addresses *)
(* (UpstreamExchange, UpstreamMember), an HTTP/1.1 connection                 *)
(* (Http1Connection) and an origin's answer (UpstreamResponse).  A behaviour  *)
(* is of one of them: setting.part says of which.                             *)
EXTENDS UpstreamMember

CONSTANTS get, hook, post, put

VARIABLES k, plan, answer, got

-----------------------------------------------------------------------------
(* A GET (`get`), a priority request that may not be sent twice (`hook`), a   *)
(* POST whose body comes from the client (`post`), and an upload from a spill *)
(* file answered with buffering off (`put`).                                  *)

Exchange(come, size, tls, chunks, at) ==
    [part |-> "exchange", come |-> come, size |-> size, tls |-> tls, chunks |-> chunks, here |-> at]

\* Two requests that share the one slot of each of two origins; and of one
\* origin, whose answers come in parts.
Sharing(at) == Exchange({get, hook}, 2, {}, 0, at)
OneOrigin == Exchange({get, hook}, 1, {}, 1, 1)

\* One request at a time, over a group with an https:// member.
Alone(r, n, at) == Exchange({r}, n, {2}, 4 - n, at)

AllExchanges ==
    {Sharing(1), Sharing(2), OneOrigin, Alone(get, 2, 2), Alone(post, 2, 1), Alone(put, 3, 3)}

ASSUME ExchangeAssumption
-----------------------------------------------------------------------------
\* Pipelined requests, the last of them refused, the client leaving at any point.
Pipelined ==
    [part |-> "requests", size |-> 0, here |-> 0, bodies |-> <<0, 0, 3>>, chunked |-> {}, limit |-> 2, head |-> 2, room |-> 5,
     kinds |-> {"static", "auth", "buffered"}, may |-> {"pipeline", "leave"}]

\* Slow exchanges whose watch reads the next heads.
Slow ==
    [part |-> "requests", size |-> 0, here |-> 0, bodies |-> <<0, 0, 0>>, chunked |-> {}, limit |-> 2, head |-> 2, room |-> 5,
     kinds |-> {"buffered"}, may |-> {"pipeline", "slow"}]

\* Bodies read, drained and refused, one request at a time.
Uploads ==
    [part |-> "requests", size |-> 0, here |-> 0, bodies |-> <<3, 1, 4>>, chunked |-> {2, 3}, limit |-> 3, head |-> 2, room |-> 4,
     kinds |-> {"static", "auth", "buffered", "streamed"}, may |-> {"slow", "leave", "shed"}]

\* Pipelined requests with bodies that their handlers read.
BodyPipe ==
    [part |-> "requests", size |-> 0, here |-> 0, bodies |-> <<3, 1, 4>>, chunked |-> {}, limit |-> 5, head |-> 2, room |-> 4,
     kinds |-> {"buffered"}, may |-> {"pipeline"}]

\* Bodies read or drained, with nobody leaving and nothing shed.
Steady ==
    [part |-> "requests", size |-> 0, here |-> 0, bodies |-> <<3, 1, 4>>, chunked |-> {2}, limit |-> 5, head |-> 2, room |-> 5,
     kinds |-> {"static", "buffered"}, may |-> {"slow"}]

AllRequests == {Pipelined, Slow, Uploads, BodyPipe, Steady}

H == INSTANCE Http1Connection WITH Settings <- AllRequests

ASSUME H!Http1Assumption
-----------------------------------------------------------------------------
Answer(interim, head, body, framing) ==
    [interim |-> interim, head |-> head, body |-> body, framing |-> framing]

Case(a, b) == [answer |-> a, buffering |-> b]

\* Bodies below and above the memory, the file and the high-water mark.
Plain == {Answer(0, "final", n, f) : n \in {0, 1, 3, 6}, f \in {"length", "chunked", "close"}}

\* After an interim head, and a 101.
Other == {Answer(1, "final", n, "length") : n \in {0, 3}} \cup {Answer(0, "switch", 0, "length")}

AllCases == {Case(a, b) : a \in Plain, b \in BOOLEAN} \cup {Case(a, TRUE) : a \in Other}

R == INSTANCE UpstreamResponse WITH
        Cases <- AllCases, Upgrade <- TRUE, BufferMax <- 1, FileMax <- 3, HighWater <- 2, MaxPull <- 2, x <- got
-----------------------------------------------------------------------------
Part(name) == setting.part = name

exchange == <<ex, ops, pools, health, marks, turn, ticking, wronged>>
connection == <<k, plan>>
response == <<answer, got>>
all == <<exchange, connection, response, setting>>

NoExchange ==
    /\ ex = [x \in Exchanges |-> [phase |-> "new", answers |-> 0, sends |-> 0]]
    /\ ops = 0 /\ pools = 0 /\ health = 0 /\ marks = 0 /\ turn = 0 /\ ticking = 0 /\ wronged = 0
NoConnection == k = 0 /\ plan = 0
NoResponse == answer = 0 /\ got = 0

MCInit ==
    \/ Init /\ NoConnection /\ NoResponse
    \/ H!Init /\ NoExchange /\ NoResponse
    \/ R!Init /\ setting = [part |-> "answer", size |-> 0, here |-> 0] /\ NoExchange /\ NoConnection

OfExchange(A) == Part("exchange") /\ A /\ UNCHANGED <<connection, response, setting>>
OfRequests(A) == Part("requests") /\ A /\ UNCHANGED <<exchange, response, setting>>
OfAnswer(A) == Part("answer") /\ A /\ UNCHANGED <<exchange, connection, setting>>

MCNext == OfExchange(Next) \/ OfRequests(H!Next) \/ OfAnswer(R!Next)

\* Time passes and an armed timer fires (UpstreamExchange); the client sends
\* what it has to, the handlers and the writer finish (Http1Connection); the event loop
\* runs the handler of a read the origin answers, the decoder returns, and a writer that
\* was given bytes asks for more (UpstreamResponse).
Fairness ==
    /\ WF_all(OfExchange(tick)) /\ \A r \in {get, hook, post, put} : WF_all(OfExchange(on_tick(r)))
    /\ <>[](Part("requests") /\ H!CanStep) => []<><<OfRequests(H!Step)>>_all
    /\ WF_all(OfAnswer(\E n \in 1 .. Len(R!Items) : R!on_read(n)))
    /\ WF_all(OfAnswer(R!on_item(TRUE))) /\ WF_all(OfAnswer(R!on_data_end))
    /\ WF_all(OfAnswer(\E n \in 1 .. 2 : R!pull(n)))
    /\ WF_all(OfAnswer(R!on_read_error(TRUE) /\ got.came = Len(R!Items)))

MCSpec == MCInit /\ [][MCNext]_all /\ Fairness
-----------------------------------------------------------------------------

\* UpstreamResponse's InOrder and NoSilentTruncation: the client gets the origin's body in
\* order, and one that did not arrive whole never ends like one that did (store_body,
\* satisfy_waiter, finish, fail).
BodiesExact == Part("answer") => R!InOrder /\ R!NoSilentTruncation

\* Http1Connection's AllAnswered and UpstreamResponse's EventuallyWhole: every request is
\* answered or the connection closed (process, drain), and while the client pulls and the
\* origin sends the body comes to its end (on_data, pull).
EveryoneAnswered == <>((Part("requests") => H!Answered) /\ (Part("answer") => R!Ended))
=============================================================================
