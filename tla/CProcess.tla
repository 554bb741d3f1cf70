------------------------------ MODULE CProcess ------------------------------
(***************************************************************************)
(* What the databases of one process share: the registry's entries and its *)
(* index pool, the arena of the batched queries, and the thread limits     *)
(* that both are built to; and bitcask_shutdown, which takes pool and      *)
(* arena away beside databases that open and close.                        *)
(***************************************************************************)
EXTENDS Integers

CONSTANTS
    Dbs,        \* databases
    Searching,  \* those opened with enable_search
    Cores,      \* hardware_concurrency
    Asked,      \* limits that the host may ask for, <<index_workers, search_slots>>
    MaxGen      \* bound: pools built

VARIABLES
    db,       \* by database: how far its open or close is, and the pool it was given
    pool,     \* gen (how many were built), workers (0: none runs), registered lanes
    arena,    \* slots (0: never built), and whether it holds on to TBB
    limits,   \* asked for, frozen, and the cap of TBB's own threads
    shutdown, \* how far bitcask_shutdown is
    promised  \* history: the limits that the host was last told are in effect

vars == <<db, pool, arena, limits, shutdown, promised>>

Closed  == [pc |-> "closed", gen |-> 0]
Default == <<0, 0>>

Init ==
    /\ db = [d \in Dbs |-> Closed]
    /\ pool = [gen |-> 0, workers |-> 0, lanes |-> {}]
    /\ arena = [slots |-> 0, attached |-> FALSE]
    /\ limits = [asked |-> Default, frozen |-> FALSE, cap |-> 0]
    /\ shutdown = "idle" /\ promised = Default

\* resolve_thread_count.
Resolved(n) == IF n # 0 THEN n ELSE IF Cores > 1 THEN Cores ELSE 2

\* freeze_thread_limits.
Freeze == limits' = [limits EXCEPT !.frozen = TRUE]

-----------------------------------------------------------------------------
\* set_thread_limits: frozen limits are only confirmed.
Applied(l) ==
    limits' = IF limits.frozen THEN limits ELSE [limits EXCEPT !.asked = l, !.cap = l[2]]

\* bitcask_set_thread_limits.
SetThreadLimits ==
    /\ \E l \in Asked :
          /\ Applied(l)
          /\ promised' = IF limits.frozen /\ limits.asked # l THEN promised ELSE l
    /\ UNCHANGED <<db, pool, arena, shutdown>>

\* An entry of the registry: its database is being opened, open or being closed.
Entries == {d \in Dbs : db[d].pc # "closed"}

\* Cask::open up to KeyDirRegistry::acquire.
Acquire(d) ==
    /\ db[d].pc = "closed"
    /\ db' = [db EXCEPT ![d].pc = "acquired"]
    /\ UNCHANGED <<pool, arena, limits, shutdown, promised>>

\* KeyDirRegistry::index_pool builds the pool when there is none.
TakePool(d) ==
    /\ db[d].pc = "acquired" /\ d \in Searching
    /\ IF pool.workers = 0
       THEN /\ pool.gen < MaxGen
            /\ pool' = [pool EXCEPT !.gen = @ + 1, !.workers = Resolved(limits.asked[1])]
            /\ Freeze
       ELSE UNCHANGED <<pool, limits>>
    /\ db' = [db EXCEPT ![d] = [pc |-> "pooled", gen |-> pool'.gen]]
    /\ UNCHANGED <<arena, shutdown, promised>>

\* register_lib; a database without search takes no pool.
Opened(d) ==
    /\ db[d].pc = IF d \in Searching THEN "pooled" ELSE "acquired"
    /\ db' = [db EXCEPT ![d].pc = "open"]
    /\ pool' = IF d \in Searching THEN [pool EXCEPT !.lanes = @ \union {d}] ELSE pool
    /\ UNCHANGED <<arena, limits, shutdown, promised>>

\* Cask::close, also of an open that failed after its acquire: unregister_lib,
\* checkpoint and snapshot, and only then the registry's release.
Unregister(d) ==
    /\ db[d].pc \in {"acquired", "pooled", "open"}
    /\ db' = [db EXCEPT ![d] = [pc |-> "leaving", gen |-> 0]]
    /\ pool' = [pool EXCEPT !.lanes = @ \ {d}]
    /\ UNCHANGED <<arena, limits, shutdown, promised>>

Release(d) ==
    /\ db[d].pc = "leaving"
    /\ db' = [db EXCEPT ![d] = Closed]
    /\ UNCHANGED <<pool, arena, limits, shutdown, promised>>

\* parallel_for_queries builds the arena, or takes up the one there was.  The host
\* makes no query while it shuts down.
BatchedQuery(d) ==
    /\ db[d].pc = "open" /\ d \in Searching /\ shutdown = "idle"
    /\ arena' = [slots |-> IF arena.slots = 0 THEN Resolved(limits.asked[2]) ELSE arena.slots,
                 attached |-> TRUE]
    /\ IF arena.slots = 0 THEN Freeze ELSE UNCHANGED limits
    /\ UNCHANGED <<db, pool, shutdown, promised>>

-----------------------------------------------------------------------------
\* stop_index_pool_if_idle: the look at the entries and the stop are one step of the
\* registry's mutex.
StopIndexPool ==
    /\ shutdown = "idle" /\ Entries = {}
    /\ pool' = [pool EXCEPT !.workers = 0]
    /\ shutdown' = "arena"
    /\ UNCHANGED <<db, arena, limits, promised>>

\* BITCASK_ERR_BUSY: Entries # {}, and nothing changes.

\* release_search_arena: an arena that was never built is not built for it.
ReleaseArena ==
    /\ shutdown = "arena"
    /\ arena' = [arena EXCEPT !.attached = FALSE]
    /\ shutdown' = "finalize"
    /\ UNCHANGED <<db, pool, limits, promised>>

\* tbb::finalize, whichever way it ends.
Finalize ==
    /\ shutdown = "finalize"
    /\ shutdown' = "idle"
    /\ UNCHANGED <<db, pool, arena, limits, promised>>

-----------------------------------------------------------------------------
Next ==
    \/ SetThreadLimits
    \/ \E d \in Dbs : Acquire(d) \/ TakePool(d) \/ Opened(d) \/ Unregister(d) \/ Release(d)
                      \/ BatchedQuery(d)
    \/ StopIndexPool \/ ReleaseArena \/ Finalize

Spec == Init /\ [][Next]_vars

-----------------------------------------------------------------------------
\* The pool that a database was given runs until the database has let go of it, only
\* open databases have a lane in it, and pool, arena and TBB are built to the limits
\* that the host was last told are in effect.
PoolStands ==
    /\ \A d \in Dbs : db[d].gen # 0 => db[d].gen = pool.gen /\ pool.workers # 0
    /\ pool.lanes \subseteq {d \in Dbs : db[d].pc = "open"}
    /\ pool.workers # 0 => pool.workers = Resolved(promised[1])
    /\ arena.slots # 0 => arena.slots = Resolved(promised[2])
    /\ limits.cap = promised[2]
=============================================================================
