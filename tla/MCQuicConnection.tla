-------------------------- MODULE MCQuicConnection --------------------------
(* Instances of QuicHandshake, QuicPath, QuicEndpoint and Http3 for TLC: a     *)
(* behaviour is of one of the four, the setting says of which.                *)
EXTENDS QuicHandshake, TLC

CONSTANTS PathSettings, EndpointSettings, RequestSettings

VARIABLES q, them, ups, downs, e, b, x, later, gens

P == INSTANCE QuicPath WITH Settings <- PathSettings
E == INSTANCE QuicEndpoint WITH Settings <- EndpointSettings
H == INSTANCE Http3 WITH Settings <- RequestSettings

handshake == <<h, peer, up, down>>
path == <<q, them, ups, downs>>
endpoint == <<e, b>>
requests == <<x, later, gens>>

MCInit ==
    \/ Init /\ q = 0 /\ them = 0 /\ ups = 0 /\ downs = 0 /\ e = 0 /\ b = 0 /\ x = 0 /\ later = 0 /\ gens = 0
    \/ P!Init /\ h = 0 /\ peer = 0 /\ up = 0 /\ down = 0 /\ e = 0 /\ b = 0 /\ x = 0 /\ later = 0 /\ gens = 0
    \/ E!Init /\ h = 0 /\ peer = 0 /\ up = 0 /\ down = 0 /\ q = 0 /\ them = 0 /\ ups = 0 /\ downs = 0
              /\ x = 0 /\ later = 0 /\ gens = 0
    \/ H!Init /\ h = 0 /\ peer = 0 /\ up = 0 /\ down = 0 /\ q = 0 /\ them = 0 /\ ups = 0 /\ downs = 0 /\ e = 0 /\ b = 0

MCNext ==
    \/ setting.part = "handshake" /\ Next /\ UNCHANGED <<path, endpoint, requests>>
    \/ setting.part = "path" /\ P!Next /\ UNCHANGED <<handshake, endpoint, requests>>
    \/ setting.part = "endpoint" /\ E!Next /\ UNCHANGED <<handshake, path, requests>>
    \/ setting.part = "requests" /\ H!Next /\ UNCHANGED <<handshake, path, endpoint>>

MCSpec == MCInit /\ [][MCNext]_<<setting, handshake, path, endpoint, requests>>
-----------------------------------------------------------------------------
\* Any order of arrivals and any repetition, a ServerHello that leaves room for half
\* the certificate.
Lossy == [part |-> "handshake", pieces |-> <<1, 2, 0>>, hello |-> 1, room |-> 2, retried |-> FALSE, max_credit |-> 3,
          idle |-> 0, closes |-> FALSE]

\* A ClientHello in pieces.
Pieced == [Lossy EXCEPT !.pieces = <<1, 1, 1>>, !.hello = 2]

\* Deadlines, closes and errors, after a Retry.
Ending == [Lossy EXCEPT !.pieces = <<1, 1, 0>>, !.idle = 1, !.closes = TRUE, !.retried = TRUE]

AllHandshakes == {Lossy, Pieced, Ending}
-----------------------------------------------------------------------------
Still == [part |-> "path", active_ids |-> 1, max_issued |-> 1, max_theirs |-> 2, client_ids |-> 1, paths |-> {},
          carries |-> <<4, 4, 4>>, mtu_cap |-> 4, updates |-> 0, pns |-> 3, client_pns |-> 3]

\* Our connection ids, the client's, the client's address and the path MTU, the keys.
Ids == [Still EXCEPT !.active_ids = 2, !.max_issued = 4]
Theirs == [Still EXCEPT !.client_ids = 4]
Paths == [Still EXCEPT !.paths = {0, 1}, !.carries = <<4, 1, 2>>, !.pns = 2]
Keys == [Still EXCEPT !.updates = 3, !.client_pns = 4]

AllPaths == {Ids, Theirs, Paths, Keys}
-----------------------------------------------------------------------------
\* Two clients, a Retry under load, a shutdown.
Clients == [part |-> "endpoint", conns |-> 2, clients |-> 2, idle |-> 1, budget |-> 2, ceiling |-> 2, retry |-> "auto",
            end |-> 2, stops |-> TRUE, batch |-> FALSE, outcomes |-> {"complete"}, bursts |-> FALSE]

\* Three deadlines in the heap.
Deadlines == [Clients EXCEPT !.retry = "never", !.end = 1, !.conns = 3, !.clients = 3, !.ceiling = 3, !.budget = 3,
                             !.stops = FALSE, !.outcomes = {"fails"}]

\* Several datagrams in a wake-up.
Bursts == [Clients EXCEPT !.outcomes = {"closes"}, !.bursts = TRUE, !.retry = "never", !.end = 1, !.idle = 1]

\* The batch of datagrams alone.
Batches == [Clients EXCEPT !.conns = 0, !.clients = 0, !.end = 0, !.batch = TRUE]

AllEndpoints == {Clients, Deadlines, Bursts, Batches}
-----------------------------------------------------------------------------
\* Two password checks and an upstream, two stream objects, resets, a shutdown.
Mixed == [part |-> "requests", requests |-> 3, objects |-> 2, max_blocked |-> 1, kinds |-> <<"auth", "upstream", "auth">>,
          needs |-> <<0, 0, 0>>, inserts |-> 0, resets |-> TRUE, streams |-> FALSE, stops |-> TRUE, reloads |-> 0,
          leaves |-> FALSE]

\* Sections that wait for the encoder stream.
Blocked == [Mixed EXCEPT !.requests = 2, !.kinds = <<"upstream", "malformed">>, !.needs = <<1, 2>>, !.inserts = 2,
                         !.streams = TRUE, !.max_blocked = 2, !.stops = FALSE]

\* A third section over the limit of those that may wait.
Crowded == [Mixed EXCEPT !.needs = <<1, 1, 1>>, !.resets = FALSE, !.streams = TRUE, !.inserts = 1, !.max_blocked = 1,
                         !.stops = FALSE]

\* A reload while a request is under way, on a listener that stays or leaves.
Reloads == [Mixed EXCEPT !.requests = 2, !.kinds = <<"upstream", "static">>, !.needs = <<0, 0>>, !.resets = FALSE, !.reloads = 1]
Leaves == [Reloads EXCEPT !.leaves = TRUE]

AllRequests == {Mixed, Blocked, Crowded, Leaves}
OnlyReloads == {Reloads}
NoSettings == {}
-----------------------------------------------------------------------------
\* QuicHandshake's FlightsSurvive: what the handshake still needs is unsent, in flight, or
\* will be sent again (apply_lost, on_loss_timer), until the client has it.
HandshakeGoesOn == setting.part = "handshake" => FlightsSurvive

\* QuicPath's IdsReach, PathIsProven and UpdatesSurvive: a connection id the client retired
\* or was given is accounted for on both sides (issue_cids, retire_connection_id,
\* new_connection_id), an address is validated by the answer to its own challenge and the
\* datagram size by a probe on that path (path_response, acked_mtu_probe), and the two
\* sides' key phases never drift apart (updated, maybe_update_keys).
PathHolds == setting.part = "path" => P!IdsReach /\ P!PathIsProven /\ P!UpdatesSurvive

\* QuicEndpoint's TableIsLive, DeadlinesKept and DatagramsKept: every connection id leads to
\* a live connection and the budgets count what is there (retire, accept), the timer is
\* armed for the earliest deadline (heap_update, fire), and a datagram is sent once or
\* dropped (SendBatch).
EndpointTrue == setting.part = "endpoint" => E!TableIsLive /\ E!DeadlinesKept /\ E!DatagramsKept

\* Http3's AnswersAreOwn, LoggedWhenOver and NobodyForgotten: a late completion answers its
\* own request only (dispatch), a request is logged once (log_request), and every open
\* request is answered or something comes back for it (unblock_streams, close_stream).
RequestsServed == setting.part = "requests" => H!AnswersAreOwn /\ H!LoggedWhenOver /\ H!NobodyForgotten

\* Http3's GenerationHeld: the configuration a request was routed in stays alive for it.
RequestsKeepGeneration == setting.part = "requests" => H!GenerationHeld
=============================================================================
