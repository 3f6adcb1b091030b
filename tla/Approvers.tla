----------------------------- MODULE Approvers -----------------------------
(* The check of an approval code: approvers::Checker and the approvers' files *)
(* (services/approvers.cpp) with the TOTP match of services/totp.cpp.         *)
(*                                                                            *)
(* A person's code is the triple of the approver, the secret in use and the   *)
(* time step; WrongCode stands for any six digits that are none of these.  The *)
(* files survive a restart of the process that checks, its counters do not.   *)
(* approver-add prints the secret after approvers::add returned, so no code   *)
(* of a secret is sent before the file of used steps is gone.                 *)
EXTENDS Integers, Sequences, FiniteSets

CONSTANTS
    Approvers,
    MaxSecrets,     \* bound: secrets given to one approver
    MaxTime,        \* bound: the clock
    MaxWrong,       \* bound: wrong codes sent between two accepted ones
    Period,         \* totp::kPeriod
    Window,         \* Checker::kWindow
    MaxFailures,    \* Checker::kMaxFailures
    WrongCode

ASSUME ApproversAssumption ==
    /\ {MaxSecrets, MaxTime, MaxWrong} \subseteq Nat
    /\ {Period, Window, MaxFailures} \subseteq Nat \ {0}

VARIABLES
    now,
    secret,         \* NAME.totp: the number of the secret in use
    present,        \* the approvers that have the file
    last_step,      \* NAME.step, -1 without one
    failures_,
    locked_until_,
    uses,           \* history: how often each code was accepted
    wrong           \* history: the times of the wrong codes since the last
                    \* accepted one or the start of the process

files == <<secret, present, last_step>>
checker == <<failures_, locked_until_>>
vars == <<now, files, checker, uses, wrong>>

Secrets == 0 .. MaxSecrets
step_of(t) == t \div Period
Steps == 0 .. step_of(MaxTime) + 1
Codes == [by : Approvers, secret : Secrets, step : Steps]

Init ==
    /\ now = 0
    /\ secret = [a \in Approvers |-> 0]
    /\ present = {}
    /\ last_step = [a \in Approvers |-> -1]
    /\ failures_ = <<>> /\ locked_until_ = 0
    /\ uses = [c \in Codes |-> 0]
    /\ wrong = <<>>
-----------------------------------------------------------------------------
\* approvers::add: a new secret, with no step of it used; refused when the
\* approver has one and `replace` was not given, which changes nothing.
add(a) ==
    /\ secret[a] < MaxSecrets
    /\ secret' = [secret EXCEPT ![a] = @ + 1]
    /\ present' = present \cup {a}
    /\ last_step' = [last_step EXCEPT ![a] = -1]
    /\ UNCHANGED <<now, checker, uses, wrong>>

remove(a) ==
    /\ a \in present
    /\ present' = present \ {a}
    /\ last_step' = [last_step EXCEPT ![a] = -1]
    /\ UNCHANGED <<now, secret, checker, uses, wrong>>

\* Mutant: the last used step counts as unused.
match_from_last(c) ==
    /\ c.by \in present /\ c.secret = secret[c.by]
    /\ c.step \in step_of(now) - 1 .. step_of(now) + 1
    /\ c.step >= last_step[c.by]

\* totp::match: the step before, this one or the next, above the last used.
match(c) ==
    /\ c.by \in present /\ c.secret = secret[c.by]
    /\ c.step \in step_of(now) - 1 .. step_of(now) + 1
    /\ c.step > last_step[c.by]

Open == now >= locked_until_

\* The code of an approver, its step on disk before it is accepted; when the
\* step cannot be written the code is refused and nothing changes.
accept(c) ==
    /\ Open /\ match(c)
    /\ last_step' = [last_step EXCEPT ![c.by] = c.step]
    /\ failures_' = <<>>
    /\ uses' = [uses EXCEPT ![c] = @ + 1]
    /\ wrong' = <<>>
    /\ UNCHANGED <<now, secret, present, locked_until_>>

\* Mutant: failures are forgotten a second early.
Recent_until_the_lock(fs) ==
    SubSeq(fs, Cardinality({i \in DOMAIN fs : fs[i] <= now - Window + 1}) + 1, Len(fs))

\* The old ones removed: failures are in the order they were made, so these are
\* the first.
Recent(fs) ==
    SubSeq(fs, Cardinality({i \in DOMAIN fs : fs[i] <= now - Window}) + 1, Len(fs))

\* A code that matches no approver, a used one among them.
refuse(c) ==
    LET counted == Append(Recent(failures_), now) IN
    /\ Open
    /\ c # WrongCode => ~match(c)
    /\ present # {}
    /\ Len(wrong) < MaxWrong
    /\ IF Len(counted) >= MaxFailures
       THEN locked_until_' = now + Window /\ failures_' = <<>>
       ELSE failures_' = counted /\ UNCHANGED locked_until_
    /\ wrong' = Append(wrong, now)
    /\ UNCHANGED <<now, files, uses>>

\* The process that checks is started again with the server.
Restart ==
    /\ failures_' = <<>> /\ locked_until_' = 0
    /\ wrong' = <<>>
    /\ UNCHANGED <<now, files, uses>>

Tick ==
    /\ now < MaxTime
    /\ now' = now + 1
    /\ UNCHANGED <<files, checker, uses, wrong>>

Next ==
    \/ \E a \in Approvers : add(a) \/ remove(a)
    \/ \E c \in Codes : accept(c)
    \/ \E c \in Codes \cup {WrongCode} : refuse(c)
    \/ Restart
    \/ Tick

Spec == Init /\ [][Next]_vars
-----------------------------------------------------------------------------
\* Every counter within its range; the counted failures are past times.
TypeOK ==
    /\ now \in 0 .. MaxTime
    /\ secret \in [Approvers -> Secrets]
    /\ present \subseteq Approvers
    /\ last_step \in [Approvers -> Steps \cup {-1}]
    /\ failures_ \in Seq(0 .. MaxTime) /\ Len(failures_) < MaxFailures
    /\ locked_until_ \in 0 .. MaxTime + Window
    /\ uses \in [Codes -> Nat]
    /\ wrong \in Seq(0 .. MaxTime)

\* A code is accepted once (RFC 6238 5.2, totp::match): not again in its own
\* minute, not after the process that checks was started again, not after the
\* approver was removed and added with a new secret.
CodeOnce == \A c \in Codes : uses[c] <= 1

\* Five wrong codes within ten minutes stop approvals for ten minutes: between
\* two accepted codes any kMaxFailures + 1 wrong ones that are looked at at all
\* span at least kWindow (Checker::check).
GuessesBounded ==
    \A k \in 1 .. Len(wrong) - MaxFailures : wrong[k + MaxFailures] - wrong[k] >= Window
=============================================================================
