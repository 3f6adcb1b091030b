----------------------------- MODULE FileCache -----------------------------
(* The static file cache: class FileCache and LocalIndex of src/cache.{hpp,   *)
(* cpp}, the workers that fill it (StaticHandler::handle, handlers/static.    *)
(* cpp), the thread that attaches compressed copies (services/copy_maker.cpp) *)
(* and the sweep that follows a reload (Server::switch_to, server.cpp).       *)
(*                                                                            *)
(* A step is what one thread does under the cache's mutex, with the work of   *)
(* its own that goes with it; a request of a worker is a sequence of steps    *)
(* and the other threads run between them.  last_access has seconds: an entry *)
(* was used in the current second (recent) or before it.  The record of an    *)
(* entry out of the store keeps what is still read of it, and is used again   *)
(* once nothing refers to it.                                                 *)
EXTENDS Integers, Sequences, SequencesExt, FiniteSets, FiniteSetsExt

CONSTANTS
    Settings,    \* the settings to check: see below
    Entries,     \* bound: entries alive at a time
    None

\* A setting: the workers, the keys (records with a field scope) and the files
\* requests name, the budgets, and the live scopes after 0, 1, ... reloads.
ASSUME CacheAssumption ==
    /\ IsFiniteSet(Entries) /\ None \notin Entries
    /\ \A s \in Settings :
         /\ IsFiniteSet(s.workers) /\ IsFiniteSet(s.keys)
         /\ s.sizes \subseteq Nat /\ s.copies \subseteq Nat \ {0}
         /\ {s.max_total, s.target_total, s.max_open, s.target_open, s.limit} \subseteq Nat
         /\ s.target_total <= s.max_total /\ s.target_open <= s.max_open
         /\ s.max_local \in Nat \ {0}
         /\ s.generations \in Seq(SUBSET {k.scope : k \in s.keys}) \ {<<>>}

VARIABLES
    map,      \* FileCache::map_
    ent,      \* the entries: size, descriptor, twins or copies, last_access,
              \* stale, and whether a request of an earlier generation made it
    total,    \* FileCache::total_
    open,     \* FileCache::open_
    local,    \* every worker's LocalIndex
    req,      \* every worker's request in the static handler
    queue,    \* CopyMaker::queue_
    job,      \* the entry the maker works on, and the codings still to make
    latest,   \* the newest generation (Server::gen_), an index of Generations
    gen,      \* every worker's generation
    drops,    \* workers whose posted drop_stale() has not run
    setting   \* the one of Settings the server runs in

vars == <<map, ent, total, open, local, req, queue, job, latest, gen, drops, setting>>

Workers == setting.workers
Keys == setting.keys
Sizes == setting.sizes               \* bytes of a file with its twins
CopySizes == setting.copies          \* bytes of one copy
MaxTotal == setting.max_total
TargetTotal == setting.target_total  \* less evict_fraction_ of it
MaxOpen == setting.max_open
TargetOpen == setting.target_open
MaxLocal == setting.max_local        \* LocalIndex::max_entries_
QueueLimit == setting.limit          \* CopyMaker::limit_
Generations == setting.generations

Codings == {"br", "gzip"}
Idle == [at |-> "idle"]
NoJob == [e |-> None, todo |-> <<>>]
Gone == [bytes |-> 0, files |-> 0, twins |-> {}, recent |-> FALSE, stale |-> TRUE, late |-> FALSE]
NewEntry == [Gone EXCEPT !.recent = TRUE, !.stale = FALSE]

Init ==
    /\ setting \in Settings
    /\ map = [k \in Keys |-> None]
    /\ ent = [e \in Entries |-> Gone]
    /\ total = 0 /\ open = 0
    /\ local = [w \in Workers |-> [k \in Keys |-> None]]
    /\ req = [w \in Workers |-> Idle]
    /\ queue = <<>>
    /\ job = NoJob
    /\ latest = 1
    /\ gen = [w \in Workers |-> 1]
    /\ drops = {}

Cached == {map[k] : k \in Keys} \ {None}

Referenced ==
    Cached \cup {local[w][k] : w \in Workers, k \in Keys} \cup Range(queue) \cup {job.e}
           \cup {req[w].e : w \in {v \in Workers : req[v].at \in {"have", "ask"}}}

-----------------------------------------------------------------------------
(* The store.                                                                 *)

\* The entries `out` leave the map.
Dropped(m, out) == [k \in Keys |-> IF m[k] \in out THEN None ELSE m[k]]

Staled(s, out) ==
    [e \in Entries |-> IF e \in out THEN [Gone EXCEPT !.late = s[e].late] ELSE s[e]]

BytesOf(out) == MapThenSumSet(LAMBDA e : ent[e].bytes, out)
FilesOf(out) == MapThenSumSet(LAMBDA e : ent[e].files, out)

\* Mutant: the latest used go first.
ByAccess_newest_first(order) ==
    \A i, j \in DOMAIN order : i < j => (ent[order[j]].recent => ent[order[i]].recent)

\* The candidates in an order their last_access allows.
ByAccess(order) ==
    \A i, j \in DOMAIN order : i < j => (ent[order[i]].recent => ent[order[j]].recent)

\* evict_locked's loop body, on what is left of the two budgets.
Evicted(needed, keep, acc, e) ==
    LET bytes_ok == \/ needed.bytes = 0
                    \/ acc.total + needed.bytes <= MaxTotal /\ acc.total <= TargetTotal
        files_ok == \/ needed.files = 0
                    \/ acc.open + needed.files <= MaxOpen /\ acc.open <= TargetOpen
        helps == \/ ~bytes_ok /\ ent[e].bytes > 0
                 \/ ~files_ok /\ ent[e].files > 0
    IN IF e = keep \/ ~helps THEN acc
       ELSE [total |-> acc.total - ent[e].bytes, open |-> acc.open - ent[e].files,
             out |-> acc.out \cup {e}]

\* What evict_locked may leave behind; nothing is evicted without pressure.
evict_locked(needed, keep) ==
    LET whole == [total |-> total, open |-> open, out |-> {}]
    IN IF total + needed.bytes <= MaxTotal /\ open + needed.files <= MaxOpen THEN {whole}
       ELSE {FoldLeft(LAMBDA acc, e : Evicted(needed, keep, acc, e), whole, order) :
                order \in {o \in SetToSeqs(Cached) : ByAccess(o)}}

\* FileCache::insert of a new entry e under k; `canonical` is what it returns.
insert(k, e, new, canonical) ==
    \/ /\ new.bytes > MaxTotal \/ new.files > MaxOpen
       /\ canonical = None
       /\ UNCHANGED <<map, ent, total, open>>
    \/ /\ new.bytes <= MaxTotal /\ new.files <= MaxOpen
       /\ map[k] # None /\ canonical = map[k]
       /\ UNCHANGED <<map, ent, total, open>>
    \/ /\ new.bytes <= MaxTotal /\ new.files <= MaxOpen
       /\ map[k] = None /\ canonical = e
       /\ \E left \in evict_locked(new, None) :
             /\ total' = left.total + new.bytes
             /\ open' = left.open + new.files
             /\ map' = [Dropped(map, left.out) EXCEPT ![k] = e]
             /\ ent' = [Staled(ent, left.out) EXCEPT ![e] = new]

\* Mutant: stale is not set.
erase_leaves_it_fresh(k, e) ==
    IF map[k] # e THEN UNCHANGED <<map, ent, total, open>>
    ELSE /\ map' = [map EXCEPT ![k] = None]
         /\ UNCHANGED ent
         /\ total' = total - ent[e].bytes
         /\ open' = open - ent[e].files

erase(k, e) ==
    IF map[k] # e THEN UNCHANGED <<map, ent, total, open>>
    ELSE /\ map' = [map EXCEPT ![k] = None]
         /\ ent' = Staled(ent, {e})
         /\ total' = total - ent[e].bytes
         /\ open' = open - ent[e].files

retain_scopes(live) ==
    LET out == {map[k] : k \in {x \in Keys : x.scope \notin live}} \ {None}
    IN /\ map' = Dropped(map, out)
       /\ ent' = Staled(ent, out)
       /\ total' = total - BytesOf(out)
       /\ open' = open - FilesOf(out)

-----------------------------------------------------------------------------
(* A worker's request.                                                        *)

\* LocalIndex::insert: a full index is cleared first.
LocalInsert(index, k, e) ==
    IF Cardinality({x \in Keys : index[x] # None}) >= MaxLocal
    THEN [x \in Keys |-> IF x = k THEN e ELSE None]
    ELSE [index EXCEPT ![k] = e]

\* The local index answers, or drops a stale entry and the store is asked.  A
\* request may have begun on an earlier generation than its worker is on.
lookup(w, k, g) ==
    LET e == local[w][k]
    IN /\ req[w] = Idle
       /\ g <= gen[w] /\ k.scope \in Generations[g]
       /\ IF e # None /\ ~ent[e].stale
          THEN /\ req' = [req EXCEPT ![w] = [at |-> "have", k |-> k, e |-> e, late |-> g < gen[w]]]
               /\ UNCHANGED local
          ELSE /\ local' = [local EXCEPT ![w][k] = None]
               /\ req' = [req EXCEPT ![w] = [at |-> "look", k |-> k, late |-> g < gen[w]]]
       /\ UNCHANGED <<map, ent, total, open, queue, job, latest, gen, drops>>

find(w) ==
    LET k == req[w].k
    IN /\ req[w].at = "look"
       /\ IF map[k] = None
          THEN /\ req' = [req EXCEPT ![w].at = "miss"]
               /\ UNCHANGED local
          ELSE /\ local' = [local EXCEPT ![w] = LocalInsert(@, k, map[k])]
               /\ req' = [req EXCEPT ![w] = [at |-> "have", k |-> k, e |-> map[k], late |-> @.late]]
       /\ UNCHANGED <<map, ent, total, open, queue, job, latest, gen, drops>>

\* The entry is served: not due for revalidation, or the file is unchanged.
serve(w) ==
    /\ req[w].at = "have"
    /\ ent' = [ent EXCEPT ![req[w].e].recent = ~ent[req[w].e].stale]
    /\ req' = [req EXCEPT ![w] = Idle]
    /\ UNCHANGED <<map, total, open, local, queue, job, latest, gen, drops>>

\* Revalidation found the file changed, or gone.
invalidate(w) ==
    /\ req[w].at = "have"
    /\ erase(req[w].k, req[w].e)
    /\ local' = [local EXCEPT ![w][req[w].k] = None]
    /\ req' = [req EXCEPT ![w] = [at |-> "miss", k |-> @.k, late |-> @.late]]
    /\ UNCHANGED <<queue, job, latest, gen, drops>>

\* The file is not there, not settled, or an error: nothing is cached.
pass(w) ==
    /\ req[w].at = "miss"
    /\ req' = [req EXCEPT ![w] = Idle]
    /\ UNCHANGED <<map, ent, total, open, local, queue, job, latest, gen, drops>>

\* The file is loaded, with its twins, or opened when it is too large.  A file
\* without twins may be one to compress.
fill(w) ==
    LET k == req[w].k
        shapes == {[NewEntry EXCEPT !.bytes = b, !.twins = t, !.late = req[w].late] :
                        b \in Sizes, t \in {{}, {"br"}}}
                     \cup {[NewEntry EXCEPT !.files = 1, !.late = req[w].late]}
    IN /\ req[w].at = "miss"
       /\ \E e \in Entries \ Referenced, new \in shapes, canonical \in Entries \cup {None} :
             /\ insert(k, e, new, canonical)
             /\ IF canonical = None
                THEN /\ req' = [req EXCEPT ![w] = Idle]
                     /\ UNCHANGED local
                ELSE /\ local' = [local EXCEPT ![w] = LocalInsert(@, k, canonical)]
                     /\ \/ req' = [req EXCEPT ![w] = Idle]
                        \/ /\ canonical = e /\ new.twins = {} /\ new.bytes > 0
                           /\ req' = [req EXCEPT ![w] = [at |-> "ask", e |-> e]]
       /\ UNCHANGED <<queue, job, latest, gen, drops>>

\* CopyMaker::ask: the queue has a limit.
ask(w) ==
    /\ req[w].at = "ask"
    /\ queue' = IF Len(queue) >= QueueLimit THEN queue ELSE Append(queue, req[w].e)
    /\ req' = [req EXCEPT ![w] = Idle]
    /\ UNCHANGED <<map, ent, total, open, local, job, latest, gen, drops>>

-----------------------------------------------------------------------------
(* The copy maker's thread.                                                   *)

\* run(): the next entry; make() leaves one that is stale already.
take ==
    /\ job = NoJob /\ queue # <<>>
    /\ queue' = Tail(queue)
    /\ job' = IF ent[Head(queue)].stale THEN NoJob
              ELSE [e |-> Head(queue), todo |-> <<"br", "gzip">>]
    /\ UNCHANGED <<map, ent, total, open, local, req, latest, gen, drops>>

Skipped == [job EXCEPT !.todo = Tail(@)]
Settled(j) == IF j.todo = <<>> THEN NoJob ELSE j

\* No copy of this coding: not offered, a failure, or no gain.
skip ==
    /\ job # NoJob
    /\ job' = Settled(Skipped)
    /\ UNCHANGED <<map, ent, total, open, local, req, queue, latest, gen, drops>>

\* Mutant: an entry evicted while its copy was made gets it too.
attachable_although_stale(e, coding) == coding \notin ent[e].twins

attachable(e, coding) == ~ent[e].stale /\ coding \notin ent[e].twins

fits(left, bytes) == left.total + bytes <= MaxTotal

attach ==
    LET e == job.e  coding == Head(job.todo)
    IN /\ job # NoJob
       /\ \E bytes \in CopySizes :
             \/ /\ bytes > MaxTotal \/ ~attachable(e, coding)
                /\ job' = NoJob
                /\ UNCHANGED <<map, ent, total, open>>
             \/ /\ bytes <= MaxTotal /\ attachable(e, coding)
                /\ \E left \in evict_locked([bytes |-> bytes, files |-> 0], e) :
                      /\ map' = Dropped(map, left.out)
                      /\ open' = left.open
                      /\ IF fits(left, bytes)
                         THEN /\ total' = left.total + bytes
                              /\ ent' = [Staled(ent, left.out) EXCEPT
                                            ![e].bytes = @ + bytes, ![e].twins = @ \cup {coding}]
                              /\ job' = Settled(Skipped)
                         ELSE /\ total' = left.total
                              /\ ent' = Staled(ent, left.out)
                              /\ job' = NoJob
       /\ UNCHANGED <<local, req, queue, latest, gen, drops>>

-----------------------------------------------------------------------------
(* A reload, and time.                                                        *)

reload ==
    /\ latest < Len(Generations)
    /\ latest' = latest + 1
    /\ UNCHANGED <<map, ent, total, open, local, req, queue, job, gen, drops>>

\* Mutant: the first worker to switch sweeps.
last_to_switch_or_first(w) == \A v \in Workers \ {w} : gen[v] <= gen[w]

last_to_switch(w) == \A v \in Workers \ {w} : gen[v] > gen[w]

\* The handler posted to w: it takes the generation, and the last worker sweeps.
switch(w) ==
    /\ req[w] = Idle
    /\ gen[w] < latest
    /\ gen' = [gen EXCEPT ![w] = @ + 1]
    /\ IF last_to_switch(w)
       THEN retain_scopes(Generations[gen[w] + 1]) /\ drops' = Workers
       ELSE UNCHANGED <<map, ent, total, open, drops>>
    /\ UNCHANGED <<local, req, queue, job, latest>>

drop_stale(w) ==
    /\ req[w] = Idle
    /\ w \in drops
    /\ local' = [local EXCEPT ![w] =
                    [k \in Keys |-> IF @[k] # None /\ ent[@[k]].stale THEN None ELSE @[k]]]
    /\ drops' = drops \ {w}
    /\ UNCHANGED <<map, ent, total, open, req, queue, job, latest, gen>>

\* The next second.
NextSecond ==
    /\ ent' = [e \in Entries |-> [ent[e] EXCEPT !.recent = FALSE]]
    /\ UNCHANGED <<map, total, open, local, req, queue, job, latest, gen, drops>>

Next ==
    /\ \/ \E w \in Workers : \/ \E k \in Keys, g \in 1 .. latest : lookup(w, k, g)
                             \/ find(w) \/ serve(w) \/ invalidate(w) \/ pass(w)
                             \/ fill(w) \/ ask(w) \/ switch(w) \/ drop_stale(w)
       \/ take \/ skip \/ attach \/ reload \/ NextSecond
    /\ UNCHANGED setting

Spec == Init /\ [][Next]_vars

-----------------------------------------------------------------------------
(* Properties.                                                                *)

\* The map, the indexes, the queue and the job hold entries or nothing, and the
\* counters (std::size_t) never go below zero.
TypeOK ==
    /\ map \in [Keys -> Entries \cup {None}]
    /\ \A e \in Entries : /\ ent[e].bytes \in Nat /\ ent[e].files \in {0, 1}
                          /\ ent[e].twins \subseteq Codings
                          /\ {ent[e].recent, ent[e].stale, ent[e].late} \subseteq BOOLEAN
    /\ total \in Nat /\ open \in Nat
    /\ local \in [Workers -> [Keys -> Entries \cup {None}]]
    /\ \A w \in Workers : req[w].at \in {"idle", "look", "have", "miss", "ask"}
    /\ queue \in Seq(Entries)
    /\ job.e \in Entries \cup {None} /\ job.todo \in Seq(Codings)
    /\ latest \in 1 .. Len(Generations)
    /\ gen \in [Workers -> 1 .. latest]
    /\ drops \subseteq Workers

\* The two counters are what the entries in the map hold, whatever was
\* evicted, erased, swept or given a copy by whichever thread, so a byte is
\* neither charged for ever nor free; and the budgets hold at every step.
WithinBudget ==
    /\ total = BytesOf(Cached) /\ open = FilesOf(Cached)
    /\ total <= MaxTotal /\ open <= MaxOpen

\* A worker that finds a fresh entry in its own index, without the lock, has
\* the one the store has: no worker serves an entry the others replaced.
LocalCanonical ==
    \A w \in Workers, k \in Keys :
        local[w][k] # None /\ ~ent[local[w][k]].stale => map[k] = local[w][k]

RecentStep ==
    \A e, o \in Cached :
        /\ job.e # o /\ gen' = gen
        /\ \A w \in Workers : req[w].at = "have" => req'[w].at # "miss"
        /\ ent[e].recent /\ ~ent[o].recent
        /\ \/ ent[e].bytes > 0 /\ ent[o].bytes > 0
           \/ ent[e].files > 0 /\ ent[o].files > 0
        => (ent'[e].stale => ent'[o].stale)

\* Least recently used first: an entry used in this second is evicted only
\* when no other one of its kind is left that was not.
RecentSurvive == [][RecentStep]_vars

\* Once the last worker took the newest generation nothing of a location it
\* no longer has is in the store, nor, after its drop_stale(), in an index,
\* but what a request of an earlier generation put there afterwards.
SweepComplete ==
    \A k \in Keys :
        (\A w \in Workers : gen[w] = latest) /\ k.scope \notin Generations[latest] =>
            /\ map[k] # None => ent[map[k]].late
            /\ \A w \in Workers \ drops :
                  local[w][k] # None => ent[local[w][k]].late
=============================================================================
