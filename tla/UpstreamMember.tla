--------------------------- MODULE UpstreamMember ---------------------------
(* One address of a group, setting.here, as the exchanges with the group use   *)
(* its pool: what UpstreamPool says of a pool alone holds of it among the      *)
(* others.                                                                     *)
EXTENDS UpstreamExchange

here == setting.here

\* Where the pool of the address has an exchange.
Place ==
    [x \in Exchanges |-> IF ex[x].member # here THEN "out"
                         ELSE IF ex[x].phase = "queued" THEN "queued"
                         ELSE IF ex[x].phase \in Active THEN "holding" ELSE "out"]

Pool == INSTANCE UpstreamPool WITH place <- Place, active <- pools[here].active,
                                   queue <- pools[here].queue, idle <- pools[here].idle

PoolBegins == here \in Addresses => Pool!PoolInit
PoolGoesOn == here \in Addresses => Pool!PoolNext \/ UNCHANGED Pool!pool_vars

\* The address is used as its pool promises: across failovers, cancels and timeouts
\* no slot is lost, taken twice or given to one out of turn (begin, release, dequeue,
\* on_tick).
PoolsImplemented == PoolBegins /\ [][PoolGoesOn]_vars
=============================================================================
