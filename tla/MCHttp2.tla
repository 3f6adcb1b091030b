------------------------------ MODULE MCHttp2 ------------------------------
(* Instances of Http2Receive and Http2Writer for TLC: a behaviour is of one of *)
(* the two, the setting says of which.                                        *)
EXTENDS Http2Receive, TLC

CONSTANTS r1, r2, WriterSettings

VARIABLE c

TwoStreams == {r1, r2}
Symmetric == Permutations(TwoStreams)

\* Clients that send too much, pad, stop and reset; handlers that answer early.
Rough == [part |-> "bodies", body |-> 2, lengths |-> {NoLength, 1}, limit |-> 1, conn_window |-> 3, stream_window |-> 3,
          read_all |-> FALSE, polite |-> FALSE]

\* Uploads within the limit, over a connection's window smaller than the two.
Uploads == [part |-> "bodies", body |-> 3, lengths |-> {NoLength, 2}, limit |-> 3, conn_window |-> 3, stream_window |-> 2,
            read_all |-> TRUE, polite |-> TRUE]

AllBodies == {Rough, Uploads}
NoBodies == {}
-----------------------------------------------------------------------------
Mem(n) == [kind |-> "memory", size |-> n, sized |-> FALSE]
File(n) == [kind |-> "file", size |-> n, sized |-> FALSE]
Source(n, sized) == [kind |-> "source", size |-> n, sized |-> sized]

\* Two requests over TLS, with windows that move between nothing and 1.
Tls == [part |-> "answers", streams |-> 2, bodies |-> {Mem(1), Source(2, TRUE)}, pulls |-> 2, copy_max |-> 1,
        tls |-> TRUE, windows |-> {0, 1}, max_window |-> 1, cuts |-> FALSE, shrink |-> FALSE]

\* The same with streams that are cut, their window fixed.
TlsCut == [Tls EXCEPT !.bodies = {Source(2, TRUE)}, !.windows = {2}, !.max_window = 2, !.cuts = TRUE]

\* On a plain socket payloads are sent from the stream's own buffers.
Plain == [Tls EXCEPT !.bodies = {File(2), Source(2, FALSE)}, !.copy_max = 0, !.tls = FALSE, !.windows = {2},
                      !.max_window = 2, !.cuts = TRUE]

\* Files that turn out shorter than announced.
Files == [Plain EXCEPT !.bodies = {File(2)}, !.shrink = TRUE]

\* One read at a time, so the second stream waits for the first one's.
OneRead == [Tls EXCEPT !.bodies = {Source(1, FALSE)}, !.pulls = 1, !.windows = {1}, !.max_window = 1]

AllWriters == {Tls, TlsCut, Plain, Files, OneRead}
OneReadOnly == {OneRead}

W == INSTANCE Http2Writer WITH Objects <- {1, 2}, Chunk <- 1, Quantum <- 2, MaxCycle <- 4, Settings <- WriterSettings
-----------------------------------------------------------------------------
bodies == <<s, grant, unreturned>>

MCInit ==
    \/ Init /\ c = 0
    \/ W!Init /\ s = 0 /\ grant = 0 /\ unreturned = 0

MCNext ==
    \/ setting.part = "bodies" /\ Next /\ UNCHANGED c
    \/ setting.part = "answers" /\ W!Next /\ UNCHANGED bodies

MCSpec == MCInit /\ [][MCNext]_<<bodies, c, setting>>
-----------------------------------------------------------------------------
\* Http2Receive's ConnBounded, EndMeansWhole and UploadsGoOn: the buffers of a connection
\* stay within its window, the end a handler is told is the client's, and neither side
\* waits for the other (return_window, return_conn_window, end_of_body).
UploadsExact == setting.part = "bodies" => ConnBounded /\ EndMeansWhole /\ UploadsGoOn

\* Http2Writer's FramesInOrder, WithinWindows and WholeBody: what goes out on a stream is
\* one answer, in order, whole and within the client's windows (enqueue, emit, on_settings).
AnswersExact == setting.part = "answers" => W!FramesInOrder /\ W!WithinWindows /\ W!WholeBody


\* Http2Writer's InOrder, also where the budget makes streams wait for each other's reads.
WaitingInOrder == setting.part = "answers" => W!InOrder
=============================================================================
