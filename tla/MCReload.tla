------------------------------ MODULE MCReload ------------------------------
(* Instances for TLC of what worker 0 does with a change (Reload), and of  *)
(* the slots of one upstream address in a worker (UpstreamPool, with the   *)
(* constants of the config).  A behaviour is of one of them.               *)
EXTENDS Reload, UpstreamPool

CONSTANTS v1, v2, c1, c2

AllFaults == {"load", "preflight", "socket", "port"}

\* Two control changes, one after the other, with every refusal.
Changes == [written |-> {v1, v2, Broken}, callers |-> {c1, c2},
            ops |-> {"update", "enable", "disable"}, faults |-> AllFaults,
            edits |-> 0, renewals |-> 1, calm |-> TRUE]

\* Two control changes of the other kinds, refused at any point.
Removals == [Changes EXCEPT !.ops = {"create", "disable", "delete"}, !.renewals = 0]
Toggles == [Changes EXCEPT !.ops = {"update", "enable", "disable", "delete"}, !.renewals = 0]

\* Changes by control requests and by hand, one at a time.
Mixed == [written |-> {v1, v2, None, Broken}, callers |-> {c1, c2}, ops |-> AllOps \ {"probed"}, faults |-> {},
          edits |-> 1, renewals |-> 0, calm |-> TRUE]

\* The same with every refusal, when only what a refusal puts back is promised.
Refusals == [Mixed EXCEPT !.ops = AllOps, !.faults = AllFaults]

\* Three edits by hand, one after the other, of files that may not load.
ByHand == [written |-> {v1, v2, None, Broken}, callers |-> {}, ops |-> {}, faults |-> {},
           edits |-> 3, renewals |-> 1, calm |-> TRUE]

\* Edits by hand at any moment.
Hurried == [ByHand EXCEPT !.written = {v1, v2, None}, !.calm = FALSE]

\* Two control changes of every kind and a hand edit, at any moment.
Overlapping == [written |-> {v1, v2}, callers |-> {c1, c2}, ops |-> AllOps, faults |-> AllFaults,
                edits |-> 1, renewals |-> 0, calm |-> FALSE]

\* Nothing is asked of the reload: the pool's behaviours.
Nothing == [ByHand EXCEPT !.edits = 0, !.renewals = 0]
OfPool == setting = Nothing

AllSettings == {Changes, Removals, Toggles, Mixed, Refusals, ByHand, Hurried, Overlapping, Nothing}
---------------------------------------------------------------------------
all == <<vars, pool_vars>>

MCInit == Init /\ PoolInit /\ (OfPool => disk.file = v1)

MCNext == \/ ~OfPool /\ Next /\ UNCHANGED pool_vars
          \/ OfPool /\ PoolNext /\ UNCHANGED vars

\* The loop, the reload's thread and the helper go on; time passes and an armed timer fires.
MCSpec ==
    /\ MCInit /\ [][MCNext]_all
    /\ WF_all(~OfPool /\ System /\ UNCHANGED <<setting, pool_vars>>)
    /\ WF_all(OfPool /\ tick /\ UNCHANGED vars)
=============================================================================
