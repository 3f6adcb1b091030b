--------------------------- MODULE MCQuicStreams ---------------------------
(* Instances of QuicSend and QuicReceive for TLC: a behaviour is of one of     *)
(* the two, the setting says of which.                                        *)
EXTENDS QuicSend, TLC

CONSTANT ReceiveSettings

VARIABLES r, cl, out

R == INSTANCE QuicReceive WITH Settings <- ReceiveSettings

MCInit ==
    \/ Init /\ r = 0 /\ cl = 0 /\ out = 0
    \/ R!Init /\ c = 0 /\ wire = 0 /\ client = 0

MCNext ==
    \/ setting.part = "send" /\ Next /\ UNCHANGED <<r, cl, out>>
    \/ setting.part = "receive" /\ R!Next /\ UNCHANGED <<c, wire, client>>

MCSpec == MCInit /\ [][MCNext]_<<vars, r, cl, out>>
-----------------------------------------------------------------------------
Base == [part |-> "send", pns |-> 4, objects |-> 2, totals |-> {2}, room |-> 1, cwnd |-> 2, max_data |-> 4,
         max_data_end |-> 4, max_send |-> 2, max_send_end |-> 2, faults |-> 0, growing |-> 0, trim_at |-> 1,
         persistent |-> FALSE]

\* One long answer under loss and reordering.
Losses == [Base EXCEPT !.pns = 5, !.objects = 1, !.totals = {3}, !.max_send = 3, !.max_send_end = 3, !.persistent = TRUE]

\* Two answers that share too little credit.
Credit == [Base EXCEPT !.pns = 3, !.totals = {1, 2}, !.max_data = 1, !.max_data_end = 2, !.max_send = 1, !.cwnd = 4]

\* Answers that are stopped, or whose file fails.
Stopped == [Base EXCEPT !.pns = 3, !.faults = 1]

\* A stream of ours beside an answer.
Growing == [Base EXCEPT !.pns = 3, !.totals = {1}, !.max_data = 3, !.max_data_end = 3, !.max_send = 1, !.growing = 2, !.trim_at = 2]

AllSends == {Losses, Credit, Stopped, Growing}
OnlyStopped == {Stopped}
-----------------------------------------------------------------------------
Plain == [part |-> "receive", streams |-> 2, uploads |-> {0}, size |-> 4, limit |-> 4, max_data |-> 4, window |-> 2,
          body_window |-> 2, remembered |-> 4, discard_max |-> 2, later |-> TRUE, early |-> FALSE, cancels |-> FALSE]

\* An upload larger than every window, beside a plain request.
Uploads == [Plain EXCEPT !.body_window = 1]

\* More requests than the client may open, of which few closed ones are remembered.
Many == [Plain EXCEPT !.streams = 5, !.uploads = {}, !.size = 1, !.max_data = 8, !.remembered = 3]

\* Uploads given up, or answered before they are read.
GivenUp == [Plain EXCEPT !.size = 3, !.max_data = 8, !.cancels = TRUE]
Refused == [Plain EXCEPT !.size = 5, !.later = FALSE, !.discard_max = 1, !.max_data = 8]

AllReceives == {Uploads, Many, GivenUp, Refused}

\* A limit below four streams.
FewStreams == {[Many EXCEPT !.streams = 3, !.limit = 2]}

\* Answers that come before the body is read.
EarlyAnswers == {[Plain EXCEPT !.early = TRUE, !.size = 3, !.max_data = 8]}

NoSettings == {}
-----------------------------------------------------------------------------
\* QuicSend's WholeMeansReceived, NothingForgotten and WaitingIsListed: an answer taken for
\* delivered (apply_acked) was received whole, nothing not yet acknowledged is forgotten
\* (apply_lost, probe_with_data), and a stream that may send is in the ready list or will be
\* put there by the frame that gives it credit (wake_blocked).
AnswersArrive == setting.part = "send" => WholeMeansReceived /\ NothingForgotten /\ WaitingIsListed

\* QuicReceive's HonestNeverFailed, EachRequestOnce and CreditComesBack: a client within its
\* credit is never failed, each of its requests is handed on once (on_stream_frame,
\* incoming_stream), and one that waits for credit gets some (return_credit).
RequestsArrive == setting.part = "receive" => R!HonestNeverFailed /\ R!EachRequestOnce /\ R!CreditComesBack

\* QuicSend's TurnsAreTaken: the head of the ready list is a stream marked as listed.
SendersTakeTurns == setting.part = "send" => TurnsAreTaken

\* QuicReceive's DiscardedAfterAnswer: an unread body is discarded after the answer.
UnreadIsDiscarded == setting.part = "receive" => R!DiscardedAfterAnswer
=============================================================================
