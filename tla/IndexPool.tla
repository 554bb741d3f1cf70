----------------------------- MODULE IndexPool -----------------------------
(***************************************************************************)
(* The pool that indexes what the libraries of a registry write            *)
(* (include/bitcask/thread_pool.hpp).  Each library has a lane.  Writers   *)
(* submit a task per ord to one bounded queue; map workers take them and   *)
(* park the results in the ring of their lane, in any order; the one       *)
(* reducer applies the entries of a lane in the order of their ords.       *)
(* flush waits for a lane to drain, unregister_lib flushes and removes it, *)
(* stop ends the threads.                                                  *)
(*                                                                         *)
(* A task is its lane and its ord: what is indexed does not change what    *)
(* the pool does, and an exception of map_fn or reduce_fn does not either  *)
(* (both paths go on to park, or to advance).  A step ends where another   *)
(* thread may come in: at a lock, and between two accesses to atomics.     *)
(***************************************************************************)
EXTENDS Integers, Sequences, FiniteSets, Functions

CONSTANTS
    Lanes,         \* the libraries that may register
    Writers,       \* threads that write to a library
    LaneOf,        \* the library a writer writes to
    FirstOrd,      \* the ord after those a library's recovery has indexed
    LastOrd,       \* bound: the last ord of a library
    Mappers,       \* map workers
    QueueCap,      \* queue_capacity
    ReorderCap,    \* reorder_cap_
    RingSizes,     \* the capacities of a ring: 64 and its doublings
    Flushers,      \* threads that wait for their library's index
    FlushLane,     \* the library a flusher waits for
    MayThrow,      \* writers for which the allocation inside push may fail
    MayDie         \* writers that may be killed inside submit

\* The least capacity with room for `need` slots.
RoomFor(need, cap) == cap >= need /\ \A c \in RingSizes : c >= need => c >= cap

ASSUME PoolAssumption ==
    /\ LaneOf \in [Writers -> Lanes]
    /\ FlushLane \in [Flushers -> Lanes]
    /\ FirstOrd \in [Lanes -> Nat] /\ LastOrd \in [Lanes -> Nat]
    /\ {QueueCap, ReorderCap} \subseteq Nat \ {0}
    /\ MayThrow \subseteq Writers /\ MayDie \subseteq Writers
    /\ Lanes \cap {"none", "sentinel"} = {}    \* what NoTask and Sentinel use

\* Doubling goes as far as the ords of a library demand.
ASSUME RingAssumption ==
    /\ RingSizes \subseteq Nat \ {0}
    /\ \A l \in Lanes : \A need \in 1 .. LastOrd[l] - FirstOrd[l] + 1 :
          \E cap \in RingSizes : RoomFor(need, cap)

VARIABLES
    lane,     \* IndexLane: ring, base, next, hwm, applied, count (in_flight)
    inflight, \* reorder_inflight_, over all lanes
    queue,    \* queue_
    writer,   \* writers: pc and ord
    mapper,   \* map workers: pc and task
    reducer,  \* the reducer: pc and task
    flusher,  \* flush calls: pc, and what they must cover
    closer,   \* a lane's life, up to the pc of its unregister_lib
    stopper,  \* stop(): pc, and sentinels still to push
    hist      \* by lane: next_ord_ of its keydir, submits returned, ords applied

vars == <<lane, inflight, queue, writer, mapper, reducer, flusher, closer, stopper, hist>>

None     == -1                      \* an empty slot, no ord
NoTask   == [lane |-> "none", ord |-> None]
Sentinel == [lane |-> "sentinel", ord |-> None]
Idle     == [pc |-> "idle", ord |-> None]
NewLane  == [ring |-> [s \in {} |-> None], base |-> 0, next |-> 0,
             hwm |-> 0, applied |-> 0, count |-> 0]

Init ==
    /\ lane = [l \in Lanes |-> NewLane]
    /\ inflight = 0 /\ queue = <<>>
    /\ writer = [w \in Writers |-> Idle]
    /\ mapper = [m \in Mappers |-> [pc |-> "gate", task |-> NoTask]]
    /\ reducer = [pc |-> "scan", task |-> NoTask]
    /\ flusher = [f \in Flushers |-> [pc |-> "idle", need |-> {}]]
    /\ closer = [l \in Lanes |-> "new"]
    /\ stopper = [pc |-> "idle", left |-> 0]
    /\ hist = [l \in Lanes |-> [ord |-> FirstOrd[l], returned |-> {}, log |-> <<>>]]

Registered  == {l \in Lanes : closer[l] \notin {"new", "closed"}}      \* lanes_
Stopped     == stopper.pc # "idle"                                     \* stopped_
GotSentinel == stopper.pc \in {"join", "done"}                         \* got_sentinel_

-----------------------------------------------------------------------------
(* The ring of a lane: a window of ords, each in the slot of its ord.      *)

Size(r)      == Cardinality(DOMAIN r)
Slot(r, ord) == ord % Size(r)

\* ring_grow: twice the size until `need` fits, and each ord of the old window
\* to its slot under the new mask.
Grown(need) == CHOOSE cap \in RingSizes : RoomFor(need, cap)
RingGrow(r, base, need) ==
    LET moved == {o \in base .. base + Size(r) - 1 : r[Slot(r, o)] # None}
        cap   == Grown(need)
    IN  [s \in 0 .. cap - 1 |->
            IF \E o \in moved : o % cap = s
            THEN r[Slot(r, CHOOSE o \in moved : o % cap = s)] ELSE None]

RingRoom(r, base, ord) ==
    IF ord - base >= Size(r) THEN RingGrow(r, base, ord - base + 1) ELSE r

\* ring_put, which refuses an ord behind the window and a slot that is taken.
RingPutOk(l, ord) ==
    LET r == RingRoom(lane[l].ring, lane[l].base, ord)
    IN  ord >= lane[l].base /\ r[Slot(r, ord)] = None
RingPut(l, ord) ==
    LET r == RingRoom(lane[l].ring, lane[l].base, ord)
    IN  [r EXCEPT ![Slot(r, ord)] = ord]

Parked(l) == Range(lane[l].ring) \ {None}

\* Where the entry at the front of the window is, or will be.
FrontSlot_Any(l) == IF Parked(l) = {} THEN Slot(lane[l].ring, lane[l].base)
                    ELSE CHOOSE s \in DOMAIN lane[l].ring : lane[l].ring[s] # None
FrontSlot(l) == Slot(lane[l].ring, lane[l].base)

FrontReady(l) == Parked(l) # {} /\ lane[l].ring[FrontSlot(l)] # None

-----------------------------------------------------------------------------
(* What several threads do: counting a task out, waking waiters.           *)

\* flush's predicate.
Drained_AppliedOnly(l) == lane[l].applied >= lane[l].hwm
Drained(l) == lane[l].count = 0 /\ lane[l].applied >= lane[l].hwm

\* flush_cv_.notify_all.
WakeFlushers ==
    /\ flusher' = [f \in Flushers |-> IF flusher[f].pc = "asleep"
                     THEN [flusher[f] EXCEPT !.pc = "wait"] ELSE flusher[f]]
    /\ closer' = [l \in Lanes |-> IF closer[l] = "asleep" THEN "wait" ELSE closer[l]]

\* dec_in_flight: who takes the last one goes on to notify.
AfterCountOut_Silent(l, notify, skip) == skip
AfterCountOut(l, notify, skip) == IF lane[l].count = 1 THEN notify ELSE skip

SleepingMappers == {m \in Mappers : mapper[m].pc = "asleep"}

\* map_cv_.notify_one and notify_all.
WakeOneMapper ==
    IF SleepingMappers = {} THEN UNCHANGED mapper
    ELSE \E m \in SleepingMappers : mapper' = [mapper EXCEPT ![m].pc = "gate"]
WakeMappers == mapper' = [m \in Mappers |-> IF m \in SleepingMappers
                            THEN [mapper[m] EXCEPT !.pc = "gate"] ELSE mapper[m]]

\* reorder_cv_.notify_one.
WakeReducer == reducer' = IF reducer.pc = "asleep" THEN [reducer EXCEPT !.pc = "scan"]
                                                   ELSE reducer

-----------------------------------------------------------------------------
(* Registration.                                                           *)

RegisterLib(l) ==
    /\ closer[l] = "new" /\ ~Stopped
    /\ closer' = [closer EXCEPT ![l] = "open"]
    /\ lane' = [lane EXCEPT ![l].base = hist[l].ord, ![l].next = hist[l].ord]
    /\ UNCHANGED <<inflight, queue, writer, mapper, reducer, flusher, stopper, hist>>

\* References to a lane that unregister_lib would leave dangling.
Referenced(l) ==
    \/ \E i \in DOMAIN queue : queue[i].lane = l
    \/ \E m \in Mappers : mapper[m].task.lane = l

\* Cask::close: no call of the library is under way, or its thread is dead.
Unregister(l) ==
    /\ closer[l] = "open" /\ ~Stopped
    /\ \A w \in Writers : LaneOf[w] = l => writer[w].pc \in {"idle", "dead"}
    /\ \A f \in Flushers : FlushLane[f] = l => flusher[f].pc \in {"idle", "back"}
    /\ closer' = [closer EXCEPT ![l] = "wait"]
    /\ UNCHANGED <<lane, inflight, queue, writer, mapper, reducer, flusher, stopper, hist>>

\* The bounded flush: drained, asleep, or out of time.  The code documents
\* that out of time with tasks of the lane queued or at a worker is undefined
\* (a freed lane is used); here time runs out only once there are none.
UnregisterWait(l) ==
    /\ closer[l] = "wait"
    /\ closer' = [closer EXCEPT ![l] = IF Drained(l) THEN "erase" ELSE "asleep"]
    /\ UNCHANGED <<lane, inflight, queue, writer, mapper, reducer, flusher, stopper, hist>>
UnregisterTimeout(l) ==
    /\ closer[l] = "asleep" /\ ~Drained(l) /\ ~Referenced(l)
    /\ closer' = [closer EXCEPT ![l] = "giveup"]
    /\ UNCHANGED <<lane, inflight, queue, writer, mapper, reducer, flusher, stopper, hist>>

\* A lane given up takes the places of its parked entries with it.
GiveBack(l) == inflight - Cardinality(Parked(l))

Erase(l) ==
    /\ closer[l] \in {"erase", "giveup"}
    /\ closer' = [closer EXCEPT ![l] = "closed"]
    /\ IF closer[l] = "giveup" /\ Parked(l) # {}
       THEN inflight' = GiveBack(l) /\ WakeMappers
       ELSE UNCHANGED <<inflight, mapper>>
    /\ UNCHANGED <<lane, queue, writer, reducer, flusher, stopper, hist>>

-----------------------------------------------------------------------------
(* submit                                                                  *)

\* The write path draws an ord and, outside its lock, submits the task.
AllocOrd(w) ==
    LET l == LaneOf[w] IN
    /\ writer[w].pc = "idle" /\ closer[l] = "open" /\ hist[l].ord <= LastOrd[l]
    /\ writer' = [writer EXCEPT ![w] = [pc |-> "raise", ord |-> hist[l].ord]]
    /\ hist' = [hist EXCEPT ![l].ord = @ + 1]
    /\ UNCHANGED <<lane, inflight, queue, mapper, reducer, flusher, closer, stopper>>

\* The loop that raises submitted_ord_hwm; nothing at all once stopped.
RaiseHwm(w) ==
    LET l == LaneOf[w] IN
    /\ writer[w].pc = "raise"
    /\ IF Stopped
       THEN writer' = [writer EXCEPT ![w] = Idle] /\ UNCHANGED lane
       ELSE /\ writer' = [writer EXCEPT ![w].pc = "count"]
            /\ lane' = [lane EXCEPT ![l].hwm = IF writer[w].ord > @ THEN writer[w].ord ELSE @]
    /\ UNCHANGED <<inflight, queue, mapper, reducer, flusher, closer, stopper, hist>>

CountIn(w) ==
    /\ writer[w].pc = "count"
    /\ lane' = [lane EXCEPT ![LaneOf[w]].count = @ + 1]
    /\ writer' = [writer EXCEPT ![w].pc = "push"]
    /\ UNCHANGED <<inflight, queue, mapper, reducer, flusher, closer, stopper, hist>>

\* The push blocks while the queue is full.
Push(w) ==
    LET l == LaneOf[w] IN
    /\ writer[w].pc = "push" /\ Len(queue) < QueueCap
    /\ queue' = Append(queue, [lane |-> l, ord |-> writer[w].ord])
    /\ hist' = [hist EXCEPT ![l].returned = @ \cup {writer[w].ord}]
    /\ writer' = [writer EXCEPT ![w] = Idle]
    /\ UNCHANGED <<lane, inflight, mapper, reducer, flusher, closer, stopper>>

\* bad_alloc: the task is counted out again and the caller sees the exception.
Compensated_Not(l) == lane[l].count
Compensated(l) == lane[l].count - 1

PushThrows(w) ==
    LET l == LaneOf[w] IN
    /\ w \in MayThrow /\ writer[w].pc = "push"
    /\ lane' = [lane EXCEPT ![l].count = Compensated(l)]
    /\ writer' = [writer EXCEPT ![w] = [Idle EXCEPT !.pc = AfterCountOut(l, "notify", "idle")]]
    /\ UNCHANGED <<inflight, queue, mapper, reducer, flusher, closer, stopper, hist>>
WriterNotify(w) ==
    /\ writer[w].pc = "notify"
    /\ WakeFlushers
    /\ writer' = [writer EXCEPT ![w].pc = "idle"]
    /\ UNCHANGED <<lane, inflight, queue, mapper, reducer, stopper, hist>>

\* The thread is killed between counting its task and pushing it.
Die(w) ==
    /\ w \in MayDie /\ writer[w].pc = "push"
    /\ writer' = [writer EXCEPT ![w].pc = "dead"]
    /\ UNCHANGED <<lane, inflight, queue, mapper, reducer, flusher, closer, stopper, hist>>

-----------------------------------------------------------------------------
(* map_worker_loop                                                         *)

GateOpen == inflight < ReorderCap \/ Stopped

MapGate(m) ==
    /\ mapper[m].pc = "gate"
    /\ mapper' = [mapper EXCEPT ![m].pc = IF GateOpen THEN "pop" ELSE "asleep"]
    /\ UNCHANGED <<lane, inflight, queue, writer, reducer, flusher, closer, stopper, hist>>

Pop(m) ==
    /\ mapper[m].pc = "pop" /\ queue # <<>>
    /\ queue' = Tail(queue)
    /\ mapper' = [mapper EXCEPT ![m] = IF Head(queue) = Sentinel
                    THEN [pc |-> "done", task |-> NoTask]
                    ELSE [pc |-> "park", task |-> Head(queue)]]
    /\ UNCHANGED <<lane, inflight, writer, reducer, flusher, closer, stopper, hist>>

\* push_reorder, under reorder_mu_.  ring_put's refusal, which push_reorder makes
\* good for flush, is met by no behaviour here: a worker would stop in it.
Park(m) ==
    LET t == mapper[m].task IN
    /\ mapper[m].pc = "park" /\ RingPutOk(t.lane, t.ord)
    /\ lane' = [lane EXCEPT ![t.lane].ring = RingPut(t.lane, t.ord)]
    /\ inflight' = inflight + 1
    /\ mapper' = [mapper EXCEPT ![m].pc = "notify"]
    /\ UNCHANGED <<queue, writer, reducer, flusher, closer, stopper, hist>>
MapNotify(m) ==
    /\ mapper[m].pc = "notify"
    /\ WakeReducer
    /\ mapper' = [mapper EXCEPT ![m] = [pc |-> "gate", task |-> NoTask]]
    /\ UNCHANGED <<lane, inflight, queue, writer, flusher, closer, stopper, hist>>

-----------------------------------------------------------------------------
(* reducer_loop                                                            *)

AllEmpty == \A l \in Registered : Parked(l) = {}

ReducerExit ==
    /\ reducer.pc = "scan" /\ GotSentinel /\ AllEmpty
    /\ reducer' = [pc |-> "done", task |-> NoTask]
    /\ UNCHANGED <<lane, inflight, queue, writer, mapper, flusher, closer, stopper, hist>>

ReducerSleep ==
    /\ reducer.pc = "scan" /\ ~(GotSentinel /\ AllEmpty)
    /\ \A l \in Registered : ~FrontReady(l)
    /\ reducer' = [reducer EXCEPT !.pc = "asleep"]
    /\ UNCHANGED <<lane, inflight, queue, writer, mapper, flusher, closer, stopper, hist>>

\* ring_take_front, under the lock, of any lane whose front has arrived.
TakeFront(l) ==
    LET s == FrontSlot(l) IN
    /\ reducer.pc = "scan" /\ l \in Registered /\ FrontReady(l)
    /\ reducer' = [pc |-> "apply", task |-> [lane |-> l, ord |-> lane[l].ring[s]]]
    /\ lane' = [lane EXCEPT ![l].ring[s] = None, ![l].base = @ + 1]
    /\ UNCHANGED <<inflight, queue, writer, mapper, flusher, closer, stopper, hist>>

\* reduce_fn, then applied_ord and next_apply_ord.
Apply ==
    LET l == reducer.task.lane IN
    /\ reducer.pc = "apply"
    /\ hist' = [hist EXCEPT ![l].log = Append(@, reducer.task.ord)]
    /\ lane' = [lane EXCEPT ![l].applied = lane[l].next, ![l].next = @ + 1]
    /\ reducer' = [reducer EXCEPT !.pc = "dec"]
    /\ UNCHANGED <<inflight, queue, writer, mapper, flusher, closer, stopper>>

ReducerCount ==
    LET l == reducer.task.lane IN
    /\ reducer.pc = "dec"
    /\ lane' = [lane EXCEPT ![l].count = @ - 1]
    /\ reducer' = [reducer EXCEPT !.pc = AfterCountOut(l, "notify", "release")]
    /\ UNCHANGED <<inflight, queue, writer, mapper, flusher, closer, stopper, hist>>
ReducerNotify ==
    /\ reducer.pc = "notify"
    /\ WakeFlushers
    /\ reducer' = [reducer EXCEPT !.pc = "release"]
    /\ UNCHANGED <<lane, inflight, queue, writer, mapper, stopper, hist>>

\* Back under the lock: the entry's place is free, one mapper is woken.
ReducerRelease ==
    /\ reducer.pc = "release"
    /\ inflight' = inflight - 1
    /\ WakeOneMapper
    /\ reducer' = [pc |-> "scan", task |-> NoTask]
    /\ UNCHANGED <<lane, queue, writer, flusher, closer, stopper, hist>>

-----------------------------------------------------------------------------
(* flush without a bound: the barrier of a search.                         *)

Flush(f) ==
    /\ flusher[f].pc = "idle" /\ closer[FlushLane[f]] = "open"
    /\ flusher' = [flusher EXCEPT ![f] = [pc |-> "wait", need |-> hist[FlushLane[f]].returned]]
    /\ UNCHANGED <<lane, inflight, queue, writer, mapper, reducer, closer, stopper, hist>>

\* The predicate is read under flush_mu_, which a sleeper gives up as it sleeps.
FlushWait(f) ==
    /\ flusher[f].pc = "wait"
    /\ flusher' = [flusher EXCEPT ![f].pc =
                     IF Drained(FlushLane[f]) THEN "back" ELSE "asleep"]
    /\ UNCHANGED <<lane, inflight, queue, writer, mapper, reducer, closer, stopper, hist>>

-----------------------------------------------------------------------------
(* stop: shutdown once no library is left (stop_index_pool_if_idle), or    *)
(* the facade with one lane, which nobody closes and all of whose ords     *)
(* were submitted.                                                         *)

Stop ==
    /\ stopper.pc = "idle"
    /\ \A w \in Writers : writer[w].pc \in {"idle", "dead"}
    /\ Cardinality(Registered) <= 1
    /\ \A l \in Registered : closer[l] = "open"
                             /\ hist[l].returned = FirstOrd[l] .. hist[l].ord - 1
    /\ stopper' = [pc |-> "wake", left |-> Cardinality(Mappers)]
    /\ UNCHANGED <<lane, inflight, queue, writer, mapper, reducer, flusher, closer, hist>>
StopWake ==
    /\ stopper.pc = "wake"
    /\ WakeMappers
    /\ stopper' = [stopper EXCEPT !.pc = "push"]
    /\ UNCHANGED <<lane, inflight, queue, writer, reducer, flusher, closer, hist>>
StopPush ==
    /\ stopper.pc = "push" /\ stopper.left > 0 /\ Len(queue) < QueueCap
    /\ queue' = Append(queue, Sentinel)
    /\ stopper' = [stopper EXCEPT !.left = @ - 1]
    /\ UNCHANGED <<lane, inflight, writer, mapper, reducer, flusher, closer, hist>>
\* Every worker is joined, then the reducer may end.
StopReducer ==
    /\ stopper.pc = "push" /\ stopper.left = 0
    /\ \A m \in Mappers : mapper[m].pc = "done"
    /\ WakeReducer
    /\ stopper' = [stopper EXCEPT !.pc = "join"]
    /\ UNCHANGED <<lane, inflight, queue, writer, mapper, flusher, closer, hist>>
StopJoined ==
    /\ stopper.pc = "join" /\ reducer.pc = "done"
    /\ stopper' = [stopper EXCEPT !.pc = "done"]
    /\ UNCHANGED <<lane, inflight, queue, writer, mapper, reducer, flusher, closer, hist>>

-----------------------------------------------------------------------------
WriterStep(w)  == RaiseHwm(w) \/ CountIn(w) \/ Push(w) \/ PushThrows(w) \/ WriterNotify(w)
MapperStep(m)  == MapGate(m) \/ Pop(m) \/ Park(m) \/ MapNotify(m)
ReducerStep    == \/ ReducerExit \/ ReducerSleep \/ \E l \in Lanes : TakeFront(l)
                  \/ Apply \/ ReducerCount \/ ReducerNotify \/ ReducerRelease
CloserStep(l)  == UnregisterWait(l) \/ UnregisterTimeout(l) \/ Erase(l)
StopperStep    == StopWake \/ StopPush \/ StopReducer \/ StopJoined

Next ==
    \/ \E l \in Lanes : RegisterLib(l) \/ Unregister(l) \/ CloserStep(l)
    \/ \E w \in Writers : AllocOrd(w) \/ WriterStep(w) \/ Die(w)
    \/ \E m \in Mappers : MapperStep(m)
    \/ ReducerStep
    \/ \E f \in Flushers : Flush(f) \/ FlushWait(f)
    \/ Stop \/ StopperStep

\* As long as some thread can run one does, and an open library is closed one
\* day.  Nothing makes a thread begin a call, and none need be favoured: what
\* was begun takes finitely many steps, so this weakest assumption is enough.
Progress ==
    \/ \E w \in Writers : WriterStep(w)
    \/ \E m \in Mappers : MapperStep(m)
    \/ ReducerStep
    \/ \E l \in Lanes : Unregister(l) \/ CloserStep(l)
    \/ \E f \in Flushers : FlushWait(f)
    \/ StopperStep
Fairness == WF_vars(Progress)

Spec == Init /\ [][Next]_vars /\ Fairness

-----------------------------------------------------------------------------
(* Properties                                                              *)

TypeOK ==
    /\ lane \in [Lanes -> [ring : {lane[l].ring : l \in Lanes}, base : Nat, next : Nat,
                           hwm : Nat, applied : Nat, count : Nat]]
    /\ \A l \in Lanes : Parked(l) \subseteq Nat
    /\ inflight \in Nat /\ Len(queue) <= QueueCap
    /\ writer \in [Writers -> [pc : {"idle", "raise", "count", "push", "notify", "dead"},
                               ord : Nat \cup {None}]]
    /\ \A m \in Mappers :
          mapper[m].pc \in {"gate", "asleep", "pop", "park", "notify", "done"}
    /\ reducer.pc \in {"scan", "asleep", "apply", "dec", "notify", "release", "done"}
    /\ \A f \in Flushers : flusher[f].pc \in {"idle", "wait", "asleep", "back"}
    /\ closer \in [Lanes -> {"new", "open", "wait", "asleep", "erase", "giveup", "closed"}]

\* Tasks of a library take effect in the order of their ords, without a gap and
\* without a repetition, whatever order the workers finish in, and applied_ord
\* is the ord of the last one (reducer_loop, ring_put, ring_grow).
AppliedInOrder ==
    \A l \in Lanes : LET log == hist[l].log IN
        /\ \A i \in DOMAIN log : log[i] = FirstOrd[l] + i - 1
        /\ log # <<>> => lane[l].applied = log[Len(log)]

\* A flush that returns has waited for every task whose submit had returned when
\* it began: what a search sees includes the caller's own writes
\* (Cask::prepare_search relies on it).
FlushCovers ==
    \A f \in Flushers :
        flusher[f].pc = "back" => flusher[f].need \subseteq Range(hist[FlushLane[f]].log)

\* The reducer's hands, while its entry still holds a place.
Held == IF reducer.pc \in {"apply", "dec", "notify", "release"} THEN 1 ELSE 0

\* The places counted against the cap are those of entries parked in registered
\* lanes and of the one being applied, also after a lane was given up with
\* entries in its ring: nothing leaks from one library to the others
\* (unregister_lib, push_reorder, reducer_loop).
PlacesExact ==
    inflight = Held + Cardinality(UNION {{<<l, o>> : o \in Parked(l)} : l \in Registered})

\* The back-pressure holds: the entries parked and those the workers past the gate
\* are about to park are fewer than the cap and the workers together, until stop
\* lifts the gate (map_worker_loop).
ReorderBounded ==
    ~Stopped => inflight + Cardinality({m \in Mappers : mapper[m].pc \in {"pop", "park"}})
                  < ReorderCap + Cardinality(Mappers)

\* in_flight counts the tasks of a lane between submit and apply: it is 0 exactly
\* when there are none, so no flush returns early for it and none hangs.
UnderWay(l, o) ==
    \/ \E w \in Writers : /\ LaneOf[w] = l /\ writer[w].ord = o
                         /\ writer[w].pc \in {"push", "dead"}
    \/ \E i \in DOMAIN queue : queue[i] = [lane |-> l, ord |-> o]
    \/ \E m \in Mappers : mapper[m].pc = "park" /\ mapper[m].task = [lane |-> l, ord |-> o]
    \/ o \in Parked(l)
    \/ reducer.pc \in {"apply", "dec"} /\ reducer.task = [lane |-> l, ord |-> o]
TasksOf(l) == {o \in FirstOrd[l] .. hist[l].ord - 1 : UnderWay(l, o)}
InFlightExact == \A l \in Lanes : lane[l].count = Cardinality(TasksOf(l))

\* Every call comes back: a search's flush, also when a writer of another library
\* was killed inside submit and its entries stay parked in the shared pool; the
\* close of that other library; shutdown.  Calls are bounded, so it is enough
\* that from some moment on none is under way (flush, unregister_lib, stop).
Quiet ==
    /\ \A f \in Flushers : flusher[f].pc \in {"idle", "back"}
    /\ \A l \in Lanes : closer[l] \in {"new", "closed"} \/ (closer[l] = "open" /\ Stopped)
    /\ \A w \in Writers : writer[w].pc \in {"idle", "dead"}
    /\ Stopped => stopper.pc = "done"
CallsReturn == <>[]Quiet
=============================================================================
