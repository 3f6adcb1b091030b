---------------------------- MODULE UpstreamPool ----------------------------
(* The slots of one upstream address in one worker: class UpstreamPool of     *)
(* src/upstream/client.{hpp,cpp}.  A worker is one event loop, so every       *)
(* member function is one step.  The exchange is reduced to its place: not at *)
(* this upstream ("out"), in the queue, or holding a slot; UpstreamExchange   *)
(* models the rest of it and is checked to implement this specification.      *)
(*                                                                            *)
(* All exchanges of an address have the same pool options: the configuration  *)
(* is refused otherwise (src/config.cpp 4664-4686).                           *)
EXTENDS Integers, Sequences, FiniteSets

CONSTANTS
    Exchanges,       \* the requests that may use the upstream
    Priority,        \* those of `priority` locations
    MaxConnections,  \* max_connections
    Reserved,        \* floor(max_connections * priority_reserve)
    QueueDepth,      \* queue_depth
    MaxIdle,         \* max_idle
    IdleTimeout      \* idle_timeout, in pool ticks (kTick); 0 keeps a connection

ASSUME PoolAssumption ==
    /\ IsFiniteSet(Exchanges)
    /\ Priority \subseteq Exchanges
    /\ MaxConnections \in Nat \ {0}
    /\ Reserved \in 0 .. MaxConnections
    /\ QueueDepth \in Nat
    /\ MaxIdle \in Nat
    /\ IdleTimeout \in Nat

VARIABLES
    place,    \* where each exchange is: "out", "queued" or "holding"
    active,   \* Upstream::active
    queue,    \* Upstream::queue, oldest first
    idle,     \* Upstream::idle: the ticks since each kept connection was released
    ticking   \* UpstreamPool::ticking_

pool_vars == <<place, active, queue, idle, ticking>>

PoolInit ==
    /\ place = [x \in Exchanges |-> "out"]
    /\ active = 0
    /\ queue = <<>>
    /\ idle = <<>>
    /\ ticking = FALSE

\* std::deque::erase of the i-th.
erase(q, i) == SubSeq(q, 1, i - 1) \o SubSeq(q, i + 1, Len(q))

\* The slots an exchange may find taken and still be granted one.
OrdinaryLimit ==
    IF MaxConnections > Reserved THEN MaxConnections - Reserved ELSE 0

limit_for_without_reserve(x) == MaxConnections

limit_for(x) == IF x \in Priority THEN MaxConnections ELSE OrdinaryLimit

\* grant() takes kept connections from the back: one released within a tick is
\* lent as it is, an older one only if the peek finds its peer alive.  What is
\* left of the list when the n-th is lent, and when none is.
LendAt(list, n) == \A m \in n + 1 .. Len(list) : list[m] > 0

LeftIdle_always_opens(list) == {list}

LeftIdle(list) ==
    {SubSeq(list, 1, n - 1) : n \in {m \in 1 .. Len(list) : LendAt(list, m)}}
        \cup (IF LendAt(list, 0) THEN {<<>>} ELSE {})

grant(x, list) ==
    /\ place' = [place EXCEPT ![x] = "holding"]
    /\ active' = active + 1
    /\ idle' \in LeftIdle(list)

-----------------------------------------------------------------------------

\* UpstreamRequest::begin and try_next_address: granted, queued or refused.
acquire(x) ==
    /\ place[x] = "out"
    /\ ticking' = TRUE        \* watch() armed the tick
    /\ \/ /\ active < limit_for(x)
          /\ grant(x, idle)
          /\ UNCHANGED queue
       \/ /\ active >= limit_for(x)
          /\ Len(queue) >= QueueDepth
          /\ UNCHANGED <<place, active, queue, idle>>
       \/ /\ active >= limit_for(x)
          /\ Len(queue) < QueueDepth
          /\ place' = [place EXCEPT ![x] = "queued"]
          /\ queue' = Append(queue, x)
          /\ UNCHANGED <<active, idle>>

\* Whether the connection given back joins the idle list.
Kept(open) == open /\ Len(idle) < MaxIdle

PriorityWaits_at_the_head == queue # <<>> /\ Head(queue) \in Priority

PriorityWaits == \E i \in DOMAIN queue : queue[i] \in Priority

Handover_to_the_newest(x, i, list) ==
    /\ place' = [place EXCEPT ![x] = "out", ![queue[Len(queue)]] = "holding"]
    /\ queue' = erase(queue, Len(queue))
    /\ idle' \in LeftIdle(list)
    /\ UNCHANGED active

Handover_after_the_decrement(x, i, list) ==
    /\ place' = [place EXCEPT ![x] = "out", ![queue[i]] = "holding"]
    /\ queue' = erase(queue, i)
    /\ idle' \in LeftIdle(list)
    /\ active' = active - 1

\* The slot x gave back goes to the i-th waiter, with a connection of `list`.
Handover(x, i, list) ==
    /\ place' = [place EXCEPT ![x] = "out", ![queue[i]] = "holding"]
    /\ queue' = erase(queue, i)
    /\ idle' \in LeftIdle(list)
    /\ UNCHANGED active

\* UpstreamPool::release: the slot goes to the oldest priority waiter, if one
\* waits, else to the oldest waiter, if the limit allows it; at most one is
\* granted per slot given back.
release(x, open) ==
    LET list == IF Kept(open) THEN Append(idle, 0) ELSE idle
        used == active - 1
    IN /\ place[x] = "holding"
       /\ ticking' = (ticking \/ (Kept(open) /\ IdleTimeout > 0))
       /\ \/ /\ used < MaxConnections
             /\ \E i \in DOMAIN queue :
                   /\ queue[i] \in Priority
                   /\ \A j \in 1 .. i - 1 : queue[j] \notin Priority
                   /\ Handover(x, i, list)
          \/ /\ ~PriorityWaits
             /\ queue # <<>>
             /\ used < OrdinaryLimit
             /\ Handover(x, 1, list)
          \/ /\ IF PriorityWaits THEN used >= MaxConnections
                ELSE queue = <<>> \/ used >= OrdinaryLimit
             /\ place' = [place EXCEPT ![x] = "out"]
             /\ active' = used
             /\ idle' = list
             /\ UNCHANGED queue

\* UpstreamPool::dequeue: its queue_wait is over, or its client went away.
dequeue(x) ==
    \E i \in DOMAIN queue :
        /\ queue[i] = x
        /\ queue' = erase(queue, i)
        /\ place' = [place EXCEPT ![x] = "out"]
        /\ UNCHANGED <<active, idle, ticking>>

\* sweep_idle: the list is scanned from the front up to the first connection
\* young enough to stay.
SweptIdle(list) ==
    IF IdleTimeout = 0 THEN {list}
    ELSE {SubSeq(list, n + 1, Len(list)) :
            n \in {m \in 0 .. Len(list) :
                    /\ \A k \in 1 .. m : list[k] > IdleTimeout
                    /\ m < Len(list) => list[m + 1] <= IdleTimeout}}

\* An age past every comparison the pool makes stays where it is.
Older(age) == IF age > IdleTimeout THEN age ELSE age + 1

tick_stops_with_the_last_exchange ==
    LET aged == [n \in DOMAIN idle |-> Older(idle[n])]
    IN /\ idle' \in IF ticking THEN SweptIdle(aged) ELSE {aged}
       /\ ticking' \in IF ticking /\ \E x \in Exchanges : place[x] # "out"
                       THEN {TRUE} ELSE {FALSE, ticking}
       /\ UNCHANGED <<place, active, queue>>

\* A tick's time passes: every kept connection is that much older, and the
\* timer, if armed, fires.  tick() with nobody overdue sweeps and goes on while
\* an exchange is watched or a kept connection has a timeout to meet, here or at
\* another address: one timer serves the worker's addresses.
tick ==
    LET aged == [n \in DOMAIN idle |-> Older(idle[n])]
        more == \/ \E x \in Exchanges : place[x] # "out"
                \/ idle' # <<>> /\ IdleTimeout > 0
    IN /\ idle' \in IF ticking THEN SweptIdle(aged) ELSE {aged}
       /\ ticking' \in IF ticking /\ more THEN {TRUE} ELSE {FALSE, ticking}
       /\ UNCHANGED <<place, active, queue>>

\* watch, release or reap_later armed the timer for another address or a child.
arm_tick ==
    /\ ticking' = TRUE
    /\ UNCHANGED <<place, active, queue, idle>>

PoolNext ==
    \/ \E x \in Exchanges : acquire(x)
    \/ \E x \in Exchanges, open \in BOOLEAN : release(x, open)
    \/ \E x \in Exchanges : dequeue(x)
    \/ tick
    \/ arm_tick

PoolSafetySpec == PoolInit /\ [][PoolNext]_pool_vars

\* Time passes and an armed timer fires; nothing is promised of the others.
PoolSpec == PoolSafetySpec /\ WF_pool_vars(tick)

-----------------------------------------------------------------------------

Holding == {x \in Exchanges : place[x] = "holding"}

PoolTypeOK ==
    /\ place \in [Exchanges -> {"out", "queued", "holding"}]
    /\ active \in Nat
    /\ queue \in Seq(Exchanges)
    /\ idle \in Seq(Nat)
    /\ ticking \in BOOLEAN

\* The counter is the number of exchanges that hold a slot: no path through
\* acquire, release and dequeue loses a slot or gives one back twice.
SlotsAccounted == active = Cardinality(Holding)

\* max_connections bounds the exchanges in flight, and however the grants of
\* acquire and release interleave, the share reserved for priority locations
\* is never taken by the others.
SlotsBounded ==
    /\ active <= MaxConnections
    /\ Cardinality(Holding \ Priority) <= OrdinaryLimit

\* A connection is opened only when none is kept, so the kept and the lent ones
\* together stay within max_connections: what sizing php-fpm's children for
\* max_connections per worker counts on (config.cpp 3876-3883).
ConnectionsBounded == active + Len(idle) <= MaxConnections

\* No exchange waits beside a slot it may have: release() grants one waiter
\* per slot, and that is enough to leave none behind.
NoSlotWasted == \A i \in DOMAIN queue : active >= limit_for(queue[i])

\* The queue holds exactly the waiting exchanges, each once, within its depth:
\* a granted, timed-out or cancelled one is never left in it.
QueueSound ==
    /\ Len(queue) <= QueueDepth
    /\ \A i, j \in DOMAIN queue : queue[i] = queue[j] => i = j
    /\ \A x \in Exchanges : place[x] = "queued" <=> \E i \in DOMAIN queue : queue[i] = x

\* j of the queue is served while i goes on waiting.
InTurn ==
    \A i, j \in DOMAIN queue :
        (/\ place'[queue[j]] = "holding"
         /\ place'[queue[i]] = "queued")
        => /\ queue[i] \notin Priority \/ (queue[j] \in Priority /\ j < i)
           /\ queue[j] \in Priority \/ j < i

\* A slot never goes past an older waiter of the same class, nor past any
\* waiting priority request (UpstreamPool::release).
NoOvertaking == [][InTurn]_pool_vars

\* Once the upstream is no longer used, its kept connections are all closed:
\* a php-fpm child is not pinned by a pool nobody uses.
IdleEventuallyClosed ==
    (IdleTimeout > 0 /\ <>[](\A x \in Exchanges : place[x] = "out")) => <>[](idle = <<>>)
=============================================================================
