------------------------------- MODULE KeyDir -------------------------------
(***************************************************************************)
(* The in-memory index of Bitcask: src/keydir/keydir.cpp and               *)
(* include/bitcask/keydir.hpp, with all its index in memory (no key is     *)
(* evicted to the on-disk ordered index).                                  *)
(*                                                                         *)
(* Writers run put, the compare-and-swap put of merge ("move"), remove and *)
(* conditional_remove ("ttl"); readers run get; folders run an IterHandle  *)
(* (start, next, release).  Lock acquisitions are steps of their own where *)
(* a thread may be overtaken; a critical section that touches only what    *)
(* its lock protects is one step.                                          *)
(*                                                                         *)
(* A revision is [file, ord, epoch, tomb].  A record is written once per   *)
(* file, so (file, ord) stands for the code's (file_id, offset, tstamp),   *)
(* and ord alone names the write.  Sizes, timestamps, oki hooks and the    *)
(* byte counters are left out.                                             *)
(***************************************************************************)
EXTENDS Integers, Sequences, FiniteSets

CONSTANTS
    Keys,
    NShards,          \* kShards
    ShardOf,          \* shard_for
    Writers, Readers, Folders,
    NoOne,            \* no owner of a lock
    WriterPreference, \* TRUE: a waiting unique owner of meta_mu_ holds shared ones off
    MaxOps,           \* bound on the operations started
    MaxFile           \* bound on biggest_file_id_

Shards  == 1..NShards
Files   == 1..MaxFile
Threads == Writers \cup Readers \cup Folders
Absent  == 0                       \* the answer "no such key"
NoKey   == "no key"

ASSUME ConstantsOK ==
    /\ NShards \in Nat \ {0} /\ MaxOps \in Nat /\ MaxFile \in Nat \ {0}
    /\ ShardOf \in [Keys -> Shards]
    /\ WriterPreference \in BOOLEAN
    /\ IsFiniteSet(Keys) /\ IsFiniteSet(Folders) /\ NoOne \notin Threads
    /\ Writers \cap Readers = {} /\ Writers \cap Folders = {}
    /\ Readers \cap Folders = {} /\ NoKey \notin Keys

Rev == [file : Files \cup {0}, ord : Nat, epoch : Nat, tomb : BOOLEAN]

\* make_sibling_tombstone: the sentinel has no file
Tombstone(o, e) == [file |-> 0, ord |-> o, epoch |-> e, tomb |-> TRUE]
Entry(f, o, e)  == [file |-> f, ord |-> o, epoch |-> e, tomb |-> FALSE]

VARIABLES
    entries,      \* entries[k]: <<>> absent, one rev: SingleEntry, more: MultiEntry
    pending,      \* pending[k]: <<>> or the one revision of the pending table
    hasPending,   \* has_pending_, and pending_.has_value()
    keyfolders,   \* keyfolders_
    epoch,        \* epoch_
    nextOrd,      \* next_ord_
    biggest,      \* biggest_file_id_
    keyCount,     \* key_count_
    live,         \* live_keys of each file's fstats
    tombstones    \* tombstones of each shard

VARIABLES
    shardOwner,   \* owner of each shard's mu
    metaOwner,    \* unique owner of meta_mu_
    metaShared,   \* the shared owners of meta_mu_ that span more than one step
    barrierOwner, \* owner of barrier_mu_
    gateActive,   \* barrier_active_
    sleepers      \* threads waiting on gate_cv_

VARIABLES
    pc,           \* where each thread is
    req,          \* each writer's request
    foldSeen,     \* fold_active as each writer read it
    at,           \* the shard a folder's loop has reached
    todo,         \* the keys a folder's loop has left
    why,          \* what a folder's barrier is for: "start" or "release"
    iterEpoch,    \* iter_epoch_
    mergeFiles,   \* files allocated as merge outputs
    ops           \* operations started (bounds the model)

VARIABLES         \* observation only, see KeyDirMap
    asked, window, ret, phase, snap, out, base

data   == <<entries, pending, hasPending, tombstones>>
stats  == <<epoch, keyCount, live, biggest>>
locks  == <<shardOwner, metaOwner, metaShared, barrierOwner, gateActive, sleepers>>
wlocal == <<req, foldSeen>>
flocal == <<at, todo, why, iterEpoch>>
input  == <<nextOrd, mergeFiles, ops>>
seen   == <<asked, window, ret, phase, snap, out, base>>
vars   == <<data, keyfolders, stats, locks, pc, wlocal, flocal, input, seen>>

(***************************************************************************)
(* Reading one key.  A definition whose name has an underscore is a faulty *)
(* variant of the one that follows it: what a slip in the code would do.   *)
(***************************************************************************)
Multi(c)  == Len(c) > 1
Single(c) == Len(c) = 1

\* entry_at_epoch: the newest revision that is not newer than e
VisibleRevs(c, e) == {i \in DOMAIN c : c[i].epoch <= e}
AtEpoch(c, e) ==
    LET vis == VisibleRevs(c, e)
    IN IF vis = {} THEN <<>> ELSE <<c[CHOOSE i \in vis : \A j \in vis : i <= j]>>

\* entries first, the pending table on a miss
ChainIn(en, pe, k) == IF en[k] # <<>> THEN en[k] ELSE pe[k]
ValueIn(en, pe, k) == LET c == ChainIn(en, pe, k)
                      IN IF c = <<>> \/ c[1].tomb THEN Absent ELSE c[1].ord
Chain(k)   == ChainIn(entries, pending, k)
Current(k) == ValueIn(entries, pending, k)
IsLive(k)  == Current(k) # Absent

FoldActive_Pending == hasPending
FoldActive == keyfolders > 0

\* On a miss in entries, is the pending table worth a look?
LookInPending == FoldActive \/ hasPending

\* A sibling chain is newest first.
Push_Back(rev, c) == Append(c, rev)
Push(rev, c) == <<rev>> \o c

(***************************************************************************)
(* Starting an operation (the caller's side).                              *)
(***************************************************************************)
NoReq == [op |-> "none"]
Requests ==
    [op : {"put", "move", "remove", "ttl"}, key : Keys, file : Files \cup {0},
     ord : Nat, old : Files \cup {0}]

Init ==
    /\ entries = [k \in Keys |-> <<>>] /\ pending = [k \in Keys |-> <<>>]
    /\ hasPending = FALSE /\ keyfolders = 0
    /\ epoch = 0 /\ nextOrd = 1 /\ biggest = 1 /\ keyCount = 0
    /\ live = [f \in Files |-> 0]
    /\ tombstones = [s \in Shards |-> 0]
    /\ shardOwner = [s \in Shards |-> NoOne]
    /\ metaOwner = NoOne /\ metaShared = {} /\ barrierOwner = NoOne
    /\ gateActive = FALSE /\ sleepers = {}
    /\ pc = [t \in Threads |-> "idle"]
    /\ req = [w \in Writers |-> NoReq]
    /\ foldSeen = [w \in Writers |-> FALSE]
    /\ at = [f \in Folders |-> 1] /\ todo = [f \in Folders |-> {}]
    /\ why = [f \in Folders |-> "start"]
    /\ iterEpoch = [f \in Folders |-> 0]
    /\ mergeFiles = {} /\ ops = 0
    /\ asked = [r \in Readers |-> NoKey] /\ window = [r \in Readers |-> {}]
    /\ ret = [r \in Readers |-> Absent]
    /\ phase = [f \in Folders |-> "none"]
    /\ snap = [f \in Folders |-> [k \in Keys |-> Absent]]
    /\ out = [f \in Folders |-> {}] /\ base = {}

Goto(t, there) == pc' = [pc EXCEPT ![t] = there]

Begin(w, r, there) ==
    /\ pc[w] = "idle" /\ ops < MaxOps
    /\ ops' = ops + 1
    /\ req' = [req EXCEPT ![w] = r]
    /\ Goto(w, there)
    /\ UNCHANGED <<data, keyfolders, stats, locks, foldSeen, flocal, seen>>

\* Cask::put: a fresh ord, a record in the active file, then KeyDir::put.
BeginPut(w, k) ==
    \E f \in (1..biggest) \ mergeFiles :
       /\ Begin(w, [op |-> "put", key |-> k, file |-> f, ord |-> nextOrd, old |-> 0], "lock")
       /\ nextOrd' = nextOrd + 1 /\ UNCHANGED mergeFiles

BeginRemove(w, k) ==
    /\ Begin(w, [op |-> "remove", key |-> k, file |-> 0, ord |-> nextOrd, old |-> 0], "lock")
    /\ nextOrd' = nextOrd + 1 /\ UNCHANGED mergeFiles

\* A merge found the live record of k in file `old`, copied it to its output
\* file f and now asks the keydir to point there.  One merge runs at a time.
BeginMove(w, k) ==
    /\ IsLive(k)
    /\ LET cur == Chain(k)[1] IN
         \E f \in mergeFiles :
            /\ f > cur.file
            /\ \A v \in Writers : req[v] # NoReq => req[v].op # "move"
            /\ Begin(w, [op |-> "move", key |-> k, file |-> f, ord |-> cur.ord,
                         old |-> cur.file], "lock")
    /\ UNCHANGED <<nextOrd, mergeFiles>>

\* A merge found the live record of k expired: conditional_remove.
BeginTtl(w, k) ==
    /\ IsLive(k)
    /\ LET cur == Chain(k)[1] IN
         Begin(w, [op |-> "ttl", key |-> k, file |-> 0, ord |-> cur.ord,
                   old |-> cur.file], "peek")
    /\ UNCHANGED <<nextOrd, mergeFiles>>

\* increment_file_id: a new active file, or the output file of a merge.
IncrementFileId ==
    /\ biggest < MaxFile
    /\ biggest' = biggest + 1
    /\ mergeFiles' \in {mergeFiles, mergeFiles \cup {biggest + 1}}
    /\ UNCHANGED <<data, keyfolders, epoch, keyCount, live, locks, pc, wlocal,
                   flocal, nextOrd, ops, seen>>

(***************************************************************************)
(* Locks.                                                                  *)
(***************************************************************************)
ShardFree(k)  == shardOwner[ShardOf[k]] = NoOne
MetaFree      == metaOwner = NoOne /\ metaShared = {}
MetaSharable  == /\ metaOwner = NoOne
                 /\ WriterPreference => \A w \in Writers : pc[w] # "meta"
TakeShard(t, k) == shardOwner' = [shardOwner EXCEPT ![ShardOf[k]] = t]
DropShard(k)    == shardOwner' = [shardOwner EXCEPT ![ShardOf[k]] = NoOne]

\* The end of a writer's call: every lock it holds goes.
Leave(w) ==
    /\ DropShard(req[w].key)
    /\ metaOwner' = IF metaOwner = w THEN NoOne ELSE metaOwner
    /\ Goto(w, "idle")
    /\ req' = [req EXCEPT ![w] = NoReq]
    /\ foldSeen' = [foldSeen EXCEPT ![w] = FALSE]
    /\ UNCHANGED <<metaShared, barrierOwner, gateActive, sleepers,
                   keyfolders, flocal, input>>

(***************************************************************************)
(* The gate every writer passes (put_probe, remove_impl).                  *)
(***************************************************************************)
Lock(w) ==
    /\ pc[w] = "lock" /\ ShardFree(req[w].key)
    /\ TakeShard(w, req[w].key)
    /\ Goto(w, "gate")
    /\ UNCHANGED <<metaOwner, metaShared, barrierOwner, gateActive, sleepers,
                   data, keyfolders, stats, wlocal, flocal, input, seen>>

GateUp == gateActive

\* A raised gate: the shard is given back before waiting.
Gate(w) ==
    /\ pc[w] = "gate"
    /\ \/ /\ GateUp
          /\ DropShard(req[w].key)
          /\ Goto(w, "wait")
       \/ /\ ~GateUp
          /\ Goto(w, "probe")
          /\ UNCHANGED shardOwner
    /\ UNCHANGED <<metaOwner, metaShared, barrierOwner, gateActive, sleepers,
                   data, keyfolders, stats, wlocal, flocal, input, seen>>

\* gate_cv_.wait: the test and falling asleep are one step under gate_mu_.
Wait(w) ==
    /\ pc[w] = "wait" /\ w \notin sleepers
    /\ \/ gateActive /\ sleepers' = sleepers \cup {w} /\ UNCHANGED pc
       \/ ~gateActive /\ Goto(w, "lock") /\ UNCHANGED sleepers
    /\ UNCHANGED <<shardOwner, metaOwner, metaShared, barrierOwner, gateActive,
                   data, keyfolders, stats, wlocal, flocal, input, seen>>

\* fold_active is read once here; the pending table is consulted, under the
\* unique meta lock, when entries misses and a fold or its leftovers exist.
Probe(w) ==
    /\ pc[w] = "probe"
    /\ foldSeen' = [foldSeen EXCEPT ![w] = FoldActive]
    /\ Goto(w, IF entries[req[w].key] = <<>> /\ LookInPending
               THEN "meta" ELSE "apply")
    /\ UNCHANGED <<data, keyfolders, stats, locks, req, flocal, input, seen>>

Meta(w) ==
    /\ pc[w] = "meta" /\ MetaFree
    /\ metaOwner' = w
    /\ Goto(w, "apply")
    /\ UNCHANGED <<shardOwner, metaShared, barrierOwner, gateActive, sleepers,
                   data, keyfolders, stats, wlocal, flocal, input, seen>>

\* What the probe found: entries first, pending only under the meta lock.
Found(w) == LET k == req[w].key
            IN IF entries[k] # <<>> THEN entries[k]
               ELSE IF metaOwner = w THEN pending[k] ELSE <<>>
Dead(c) == c # <<>> => c[1].tomb

(***************************************************************************)
(* What a write does to the tables.                                        *)
(***************************************************************************)
\* sweep_tombstones_locked.  Its threshold and cursor depend on the whole
\* shard, of which Keys is a part: any of the shard's tombstones may go.
Sweepable(en, s) == {k \in Keys : ShardOf[k] = s /\ Single(en[k]) /\ en[k][1].tomb}
SweptTo(s, en, tb) ==
    \E gone \in IF tb[s] = 0 THEN {{}} ELSE SUBSET Sweepable(en, s) :
       /\ entries' = [k \in Keys |-> IF k \in gone THEN <<>> ELSE en[k]]
       /\ tombstones' = [tb EXCEPT ![s] = @ - Cardinality(gone)]

\* A writer that saw a fold must not shrink the key set of entries.
MayShrink_Always(w) == TRUE
MayShrink(w) == ~foldSeen[w]

SetEntries(w, en, tb) ==
    IF MayShrink(w) THEN SweptTo(ShardOf[req[w].key], en, tb)
                    ELSE entries' = en /\ tombstones' = tb
SetEntry(w, c, tb) == SetEntries(w, [entries EXCEPT ![req[w].key] = c], tb)
SetPending(k, rev) == pending' = [pending EXCEPT ![k] = <<rev>>]

\* The reads in progress on k see its new value from now on.
Observe(k) ==
    /\ window' = [r \in Readers |-> IF asked[r] = k
                    THEN window[r] \cup {ValueIn(entries', pending', k)}
                    ELSE window[r]]
    /\ UNCHANGED <<asked, ret, phase, snap, out, base>>

Tick == epoch' = epoch + 1
RaiseBiggest(f) == biggest' = IF f > biggest THEN f ELSE biggest

(***************************************************************************)
(* put                                                                     *)
(***************************************************************************)
IsPut(w) == pc[w] = "apply" /\ req[w].op \in {"put", "move"}

\* put_probe: a compare-and-swap on a key that is gone
PutMissed(w) ==
    /\ IsPut(w) /\ req[w].op = "move" /\ Dead(Found(w))
    /\ Leave(w)
    /\ UNCHANGED <<data, stats, seen>>

\* May `r` replace the live revision cur?
Accepts(r, cur) ==
    IF r.op = "put" THEN r.file >= biggest
    ELSE /\ r.file # cur.file => r.old = cur.file /\ r.ord = cur.ord
         /\ \/ cur.file < r.file
            \/ cur.file = r.file /\ cur.ord < r.ord

\* A put into a file older than biggest_file_id_, or a lost compare-and-swap.
PutRefused(w) ==
    /\ IsPut(w)
    /\ LET c == Found(w) IN
         IF Dead(c) THEN req[w].op = "put" /\ req[w].file < biggest
                    ELSE ~Accepts(req[w], c[1])
    /\ Tick /\ SetEntries(w, entries, tombstones)
    /\ Leave(w)
    /\ UNCHANGED <<pending, hasPending, keyCount, live, biggest, seen>>

\* A dead key of entries is revived there, even when pending is in use.
GoesToPending(w) == entries[req[w].key] = <<>> /\ metaOwner = w

\* put_insert.  A tombstone is revived where it is: in pending, on top of its
\* chain, or in place of a lone one.  A new key goes to pending during a fold.
PutInsert(w) ==
    /\ IsPut(w) /\ req[w].op = "put" /\ req[w].file >= biggest
    /\ Dead(Found(w))
    /\ LET k == req[w].key
           e == Entry(req[w].file, req[w].ord, epoch + 1)
           s == ShardOf[k]
       IN \/ /\ Multi(entries[k]) /\ ~GoesToPending(w)
             /\ SetEntry(w, Push(e, entries[k]), tombstones)
             /\ UNCHANGED <<pending, hasPending>>
          \/ /\ Single(entries[k]) /\ ~GoesToPending(w)
             /\ SetEntry(w, <<e>>, [tombstones EXCEPT ![s] = IF @ > 0 THEN @ - 1 ELSE @])
             /\ UNCHANGED <<pending, hasPending>>
          \/ /\ GoesToPending(w)
             /\ SetPending(k, e) /\ hasPending' = TRUE
             /\ SetEntries(w, entries, tombstones)
          \/ /\ entries[k] = <<>> /\ ~GoesToPending(w)
             /\ SetEntry(w, <<e>>, tombstones)
             /\ UNCHANGED <<pending, hasPending>>
    /\ Tick /\ RaiseBiggest(req[w].file)
    /\ keyCount' = keyCount + 1
    /\ live' = [live EXCEPT ![req[w].file] = @ + 1]
    /\ Observe(req[w].key)
    /\ Leave(w)

LiveAfter_SameFile(was, now) == [live EXCEPT ![now] = @ + 1]
LiveAfter(was, now) ==
    IF was = now THEN live ELSE [live EXCEPT ![was] = @ - 1, ![now] = @ + 1]

\* put_overwrite: in place, except that a fold keeps the old revision.
PutOverwrite(w) ==
    /\ IsPut(w) /\ ~Dead(Found(w)) /\ Accepts(req[w], Found(w)[1])
    /\ LET k == req[w].key
           e == Entry(req[w].file, req[w].ord, epoch + 1)
       IN \/ /\ entries[k] # <<>>
             /\ SetEntry(w, IF foldSeen[w] THEN Push(e, entries[k]) ELSE <<e>>, tombstones)
             /\ UNCHANGED <<pending, hasPending>>
          \/ /\ entries[k] = <<>>
             /\ SetPending(k, e)
             /\ SetEntries(w, entries, tombstones)
             /\ UNCHANGED hasPending
    /\ Tick /\ RaiseBiggest(req[w].file)
    /\ live' = LiveAfter(Found(w)[1].file, req[w].file)
    /\ UNCHANGED keyCount
    /\ Observe(req[w].key)
    /\ Leave(w)

(***************************************************************************)
(* remove and conditional_remove                                           *)
(***************************************************************************)
IsRemove(w) == pc[w] = "apply" /\ req[w].op \in {"remove", "ttl"}
Expected_FileOnly(r, cur) == r.old = cur.file
Expected(r, cur) == r.old = cur.file /\ r.ord = cur.ord
\* remove_impl is called by conditional_remove with ord = 0
TombOrd(r) == IF r.op = "ttl" THEN 0 ELSE r.ord

\* Nothing to remove, or no longer what conditional_remove peeked at: only an
\* epoch goes.  A later remove pushes the ord of a lone tombstone up.
RemoveNothing(w) ==
    /\ IsRemove(w)
    /\ LET c == Found(w)
           k == req[w].key
           o == TombOrd(req[w])
           higher == /\ entries[k] # <<>> /\ Single(entries[k])
                     /\ o # 0 /\ entries[k][1].ord < o
       IN /\ ~Dead(c) => req[w].op = "ttl" /\ ~Expected(req[w], c[1])
          /\ entries' = IF Dead(c) /\ higher
                        THEN [entries EXCEPT ![k] = <<Tombstone(o, epoch + 1)>>]
                        ELSE entries
    /\ Tick
    /\ Leave(w)
    /\ UNCHANGED <<pending, hasPending, tombstones, keyCount, live, biggest, seen>>

RemoveLive(w) ==
    /\ IsRemove(w) /\ ~Dead(Found(w))
    /\ req[w].op = "ttl" => Expected(req[w], Found(w)[1])
    /\ LET k == req[w].key
           t == Tombstone(TombOrd(req[w]), epoch + 1)
           s == ShardOf[k]
       IN \/ /\ entries[k] # <<>> /\ foldSeen[w]
             /\ SetEntry(w, Push(t, entries[k]), tombstones)
             /\ UNCHANGED pending
          \/ /\ entries[k] # <<>> /\ ~foldSeen[w]
             /\ SetEntry(w, <<t>>, [tombstones EXCEPT ![s] = @ + 1])
             /\ UNCHANGED pending
          \/ /\ entries[k] = <<>>
             /\ SetPending(k, [t EXCEPT !.file = pending[k][1].file])
             /\ UNCHANGED <<entries, tombstones>>
    /\ Tick
    /\ keyCount' = keyCount - 1
    /\ live' = [live EXCEPT ![Found(w)[1].file] = @ - 1]
    /\ UNCHANGED <<hasPending, biggest>>
    /\ Observe(req[w].key)
    /\ Leave(w)

\* conditional_remove first looks, without minding the gate.
PeekOK(w, c) == ~Dead(c) /\ Expected(req[w], c[1])
EndPeek(w, c) == IF PeekOK(w, c)
                 THEN Goto(w, "lock") /\ UNCHANGED req
                 ELSE Goto(w, "idle") /\ req' = [req EXCEPT ![w] = NoReq]
Peek(w) ==
    /\ pc[w] = "peek" /\ ShardFree(req[w].key)
    /\ LET k == req[w].key
           toPending == Dead(entries[k]) /\ LookInPending
       IN IF toPending
          THEN TakeShard(w, k) /\ Goto(w, "peek meta") /\ UNCHANGED req
          ELSE EndPeek(w, entries[k]) /\ UNCHANGED shardOwner
    /\ UNCHANGED <<metaOwner, metaShared, barrierOwner, gateActive, sleepers,
                   data, keyfolders, stats, foldSeen, flocal, input, seen>>

PeekMeta(w) ==
    /\ pc[w] = "peek meta" /\ MetaSharable
    /\ EndPeek(w, pending[req[w].key])
    /\ DropShard(req[w].key)
    /\ UNCHANGED <<metaOwner, metaShared, barrierOwner, gateActive, sleepers,
                   data, keyfolders, stats, foldSeen, flocal, input, seen>>

(***************************************************************************)
(* get: without a lock when no fold is seen, else under the shard's lock.  *)
(***************************************************************************)
GetBegin(r, k) ==
    /\ pc[r] = "idle" /\ ops < MaxOps
    /\ ops' = ops + 1
    /\ Goto(r, "keyfolders")
    /\ asked' = [asked EXCEPT ![r] = k]
    /\ window' = [window EXCEPT ![r] = {Current(k)}]
    /\ UNCHANGED <<data, keyfolders, stats, locks, wlocal, flocal, nextOrd,
                   mergeFiles, ret, phase, snap, out, base>>

Return(r, v) ==
    /\ Goto(r, "idle")
    /\ ret' = [ret EXCEPT ![r] = v]
    /\ asked' = [asked EXCEPT ![r] = NoKey]
    /\ window' = [window EXCEPT ![r] = {}]
    /\ UNCHANGED <<phase, snap, out, base>>

\* The two flags are read one after the other.
GetKeyfolders(r) ==
    /\ pc[r] = "keyfolders"
    /\ Goto(r, IF keyfolders = 0 THEN "has pending" ELSE "shard")
    /\ UNCHANGED <<data, keyfolders, stats, locks, wlocal, flocal, input, seen>>

GetHasPending(r) ==
    /\ pc[r] = "has pending"
    /\ Goto(r, IF hasPending THEN "shard" ELSE "optimistic")
    /\ UNCHANGED <<data, keyfolders, stats, locks, wlocal, flocal, input, seen>>

\* try_get_optimistic answers from one instant (module SeqShardTable) or asks
\* for a retry; a MultiEntry and repeated retries take the locked path.
GetOptimistic(r) ==
    /\ pc[r] = "optimistic"
    /\ LET c == entries[asked[r]] IN
         \/ Len(c) <= 1
            /\ Return(r, IF Dead(c) THEN Absent ELSE c[1].ord)
         \/ Goto(r, "shard") /\ UNCHANGED seen
    /\ UNCHANGED <<data, keyfolders, stats, locks, wlocal, flocal, input>>

GetLocked(r) ==
    /\ pc[r] = "shard" /\ ShardFree(asked[r])
    /\ LET c == entries[asked[r]] IN
         \/ /\ c # <<>> \/ ~LookInPending
            /\ Return(r, IF Dead(c) THEN Absent ELSE c[1].ord)
            /\ UNCHANGED shardOwner
         \/ /\ c = <<>> /\ LookInPending
            /\ TakeShard(r, asked[r])
            /\ Goto(r, "meta shared")
            /\ UNCHANGED seen
    /\ UNCHANGED <<metaOwner, metaShared, barrierOwner, gateActive, sleepers,
                   data, keyfolders, stats, wlocal, flocal, input>>

GetPending(r) ==
    /\ pc[r] = "meta shared" /\ MetaSharable
    /\ LET c == pending[asked[r]] IN Return(r, IF Dead(c) THEN Absent ELSE c[1].ord)
    /\ DropShard(asked[r])
    /\ UNCHANGED <<metaOwner, metaShared, barrierOwner, gateActive, sleepers,
                   data, keyfolders, stats, wlocal, flocal, input>>

(***************************************************************************)
(* BarrierGuard                                                            *)
(***************************************************************************)
WantStart(f) ==
    /\ pc[f] = "idle" /\ ops < MaxOps
    /\ ops' = ops + 1
    /\ why' = [why EXCEPT ![f] = "start"] /\ Goto(f, "barrier")
    /\ UNCHANGED <<data, keyfolders, stats, locks, wlocal, at, todo, iterEpoch,
                   nextOrd, mergeFiles, seen>>

\* release, called at any time after start (the destructor calls it too)
WantRelease(f) ==
    /\ pc[f] = "iterating"
    /\ why' = [why EXCEPT ![f] = "release"] /\ Goto(f, "barrier")
    /\ todo' = [todo EXCEPT ![f] = {}]
    /\ UNCHANGED <<data, keyfolders, stats, locks, wlocal, at, iterEpoch, input, seen>>

LockBarrier(f) ==
    /\ pc[f] = "barrier" /\ barrierOwner = NoOne
    /\ barrierOwner' = f /\ Goto(f, "raise")
    /\ UNCHANGED <<shardOwner, metaOwner, metaShared, gateActive, sleepers,
                   data, keyfolders, stats, wlocal, flocal, input, seen>>

Raise(f) ==
    /\ pc[f] = "raise"
    /\ gateActive' = TRUE /\ Goto(f, "drain")
    /\ at' = [at EXCEPT ![f] = 1]
    /\ UNCHANGED <<shardOwner, metaOwner, metaShared, barrierOwner, sleepers,
                   data, keyfolders, stats, wlocal, todo, why, iterEpoch, input, seen>>

Drained_One(f) == at[f] = 1
Drained(f) == at[f] = NShards

\* Lock and unlock every shard in turn: the writers inside are let out.
Drain(f) ==
    /\ pc[f] = "drain" /\ shardOwner[at[f]] = NoOne
    /\ at' = [at EXCEPT ![f] = IF @ < NShards THEN @ + 1 ELSE 1]
    /\ Goto(f, IF Drained(f) THEN why[f] ELSE "drain")
    /\ UNCHANGED <<data, keyfolders, stats, locks, wlocal, todo, why, iterEpoch,
                   input, seen>>

Lower(f) ==
    /\ pc[f] = "lower"
    /\ gateActive' = FALSE /\ Goto(f, "notify")
    /\ UNCHANGED <<shardOwner, metaOwner, metaShared, barrierOwner, sleepers,
                   data, keyfolders, stats, wlocal, flocal, input, seen>>

Asleep_All == sleepers
Asleep == {}      \* who still sleeps after notify_all
AfterBarrier(f) == IF phase[f] = "none" THEN "idle" ELSE "iterating"

Notify(f) ==
    /\ pc[f] = "notify"
    /\ sleepers' = Asleep /\ barrierOwner' = NoOne
    /\ Goto(f, AfterBarrier(f))
    /\ UNCHANGED <<shardOwner, metaOwner, metaShared, gateActive,
                   data, keyfolders, stats, wlocal, flocal, input, seen>>

(***************************************************************************)
(* IterHandle                                                              *)
(***************************************************************************)
InPending == {k \in Keys : pending[k] # <<>>}

\* The fold takes an epoch of its own: later writes get higher ones.
StartEpoch_NotTaken == epoch
StartEpoch == epoch + 1

Start(f) ==
    /\ pc[f] = "start" /\ MetaFree
    /\ epoch' = StartEpoch
    /\ iterEpoch' = [iterEpoch EXCEPT ![f] = epoch + 1]
    /\ keyfolders' = keyfolders + 1
    /\ todo' = [todo EXCEPT ![f] = {k \in Keys : entries[k] # <<>>}]
    /\ Goto(f, "lower")
    /\ phase' = [phase EXCEPT ![f] = "open"]
    /\ snap' = [snap EXCEPT ![f] = [k \in Keys |->
                   ValueIn(entries, [j \in Keys |-> <<>>], k)]]
    /\ out' = [out EXCEPT ![f] = {}]
    /\ base' = IF keyfolders = 0 THEN {k \in Keys : IsLive(k)} ELSE base
    /\ UNCHANGED <<data, keyCount, live, biggest, locks, wlocal, at, why, input,
                   asked, window, ret>>

\* The pending table is older or larger than the caller's limits: kOutOfDate.
StartRefused(f) ==
    /\ pc[f] = "start" /\ MetaFree /\ hasPending
    /\ Goto(f, "lower")
    /\ UNCHANGED <<data, keyfolders, stats, locks, wlocal, flocal, input, seen>>

\* next: the key's revision as of iter_epoch_, under its shard's lock.
NextKey(f) ==
    /\ pc[f] = "iterating" /\ phase[f] = "open"
    /\ \E k \in todo[f] :
          /\ ShardFree(k)
          /\ todo' = [todo EXCEPT ![f] = @ \ {k}]
          /\ LET c == AtEpoch(entries[k], iterEpoch[f])
             IN out' = IF Dead(c) THEN out
                       ELSE [out EXCEPT ![f] = @ \cup {<<k, c[1].ord>>}]
    /\ UNCHANGED <<data, keyfolders, stats, locks, pc, wlocal, at, why, iterEpoch,
                   input, asked, window, ret, phase, snap, base>>

NextEnd(f) ==
    /\ pc[f] = "iterating" /\ phase[f] = "open" /\ todo[f] = {}
    /\ phase' = [phase EXCEPT ![f] = "eof"]
    /\ UNCHANGED <<data, keyfolders, stats, locks, pc, wlocal, flocal, input,
                   asked, window, ret, snap, out, base>>

\* fetch_sub returns the count before: the last folder reads one.
IsLastFolder_After == keyfolders = 0
IsLastFolder == keyfolders = 1

\* release, stage one; only the last folder goes on.
ReleaseCount(f) ==
    /\ pc[f] = "release" /\ MetaFree
    /\ keyfolders' = keyfolders - 1
    /\ Goto(f, IF IsLastFolder THEN "pending" ELSE "lower")
    /\ iterEpoch' = [iterEpoch EXCEPT ![f] = 0]
    /\ phase' = [phase EXCEPT ![f] = "none"]
    /\ snap' = [snap EXCEPT ![f] = [k \in Keys |-> Absent]]
    /\ out' = [out EXCEPT ![f] = {}]
    /\ base' = IF keyfolders = 1 THEN {} ELSE base
    /\ UNCHANGED <<data, stats, locks, wlocal, at, todo, why, input, asked, window, ret>>

\* Stage two, under meta shared: the pending table goes into entries.
PendingBegin(f) ==
    /\ pc[f] = "pending" /\ MetaSharable
    /\ metaShared' = metaShared \cup {f}
    /\ todo' = [todo EXCEPT ![f] = InPending]
    /\ Goto(f, "applying")
    /\ UNCHANGED <<shardOwner, metaOwner, barrierOwner, gateActive, sleepers,
                   data, keyfolders, stats, wlocal, at, why, iterEpoch, input, seen>>

PendingKey(f) ==
    /\ pc[f] = "applying"
    /\ \E k \in todo[f] :
          /\ ShardFree(k)
          /\ todo' = [todo EXCEPT ![f] = @ \ {k}]
          /\ LET p == pending[k][1]
                 s == ShardOf[k]
                 wasTomb == /\ entries[k] # <<>> /\ Single(entries[k])
                            /\ entries[k][1].tomb /\ tombstones[s] > 0
             IN /\ entries' = [entries EXCEPT ![k] = IF p.tomb THEN <<>> ELSE <<p>>]
                /\ tombstones' = [tombstones EXCEPT ![s] = IF wasTomb THEN @ - 1 ELSE @]
    /\ UNCHANGED <<pending, hasPending, keyfolders, stats, locks, pc, wlocal, at,
                   why, iterEpoch, input, seen>>

PendingEnd(f) ==
    /\ pc[f] = "applying" /\ todo[f] = {}
    /\ metaShared' = metaShared \ {f}
    /\ Goto(f, "clear")
    /\ UNCHANGED <<shardOwner, metaOwner, barrierOwner, gateActive, sleepers,
                   data, keyfolders, stats, wlocal, flocal, input, seen>>

\* Stage three, under meta unique.
PendingClear(f) ==
    /\ pc[f] = "clear" /\ MetaFree
    /\ pending' = [k \in Keys |-> <<>>] /\ hasPending' = FALSE
    /\ at' = [at EXCEPT ![f] = 1]
    /\ Goto(f, "collapse")
    /\ UNCHANGED <<entries, tombstones, keyfolders, stats, locks, wlocal, todo,
                   why, iterEpoch, input, seen>>

\* collapse_multi_entries_barrier: chains keep their head, tombstones go.
Collapsed(c) == IF Dead(c) THEN <<>> ELSE <<c[1]>>
Collapse(f) ==
    /\ pc[f] = "collapse" /\ shardOwner[at[f]] = NoOne
    /\ entries' = [k \in Keys |-> IF ShardOf[k] = at[f] THEN Collapsed(entries[k])
                                                       ELSE entries[k]]
    /\ tombstones' = [tombstones EXCEPT ![at[f]] = 0]
    /\ at' = [at EXCEPT ![f] = IF @ < NShards THEN @ + 1 ELSE 1]
    /\ Goto(f, IF at[f] < NShards THEN "collapse" ELSE "lower")
    /\ UNCHANGED <<pending, hasPending, keyfolders, stats, locks, wlocal, todo,
                   why, iterEpoch, input, seen>>

(***************************************************************************)
(* The specification.                                                      *)
(***************************************************************************)
WriterStep(w) ==
    \/ Lock(w) \/ Gate(w) \/ Wait(w) \/ Probe(w) \/ Meta(w)
    \/ PutMissed(w) \/ PutRefused(w) \/ PutInsert(w) \/ PutOverwrite(w)
    \/ RemoveNothing(w) \/ RemoveLive(w)
    \/ Peek(w) \/ PeekMeta(w)

ReaderStep(r) ==
    \/ GetKeyfolders(r) \/ GetHasPending(r) \/ GetOptimistic(r)
    \/ GetLocked(r) \/ GetPending(r)

\* The steps of a folder that no caller has to ask for.
FolderStep(f) ==
    \/ LockBarrier(f) \/ Raise(f) \/ Drain(f) \/ Lower(f) \/ Notify(f)
    \/ Start(f) \/ StartRefused(f)
    \/ ReleaseCount(f) \/ PendingBegin(f) \/ PendingKey(f) \/ PendingEnd(f)
    \/ PendingClear(f) \/ Collapse(f)

\* Every call has returned and the bound is spent: not a deadlock.
Rest == ops = MaxOps /\ (\A t \in Threads : pc[t] = "idle") /\ UNCHANGED vars

Next ==
    \/ \E w \in Writers : \/ WriterStep(w)
                          \/ \E k \in Keys : \/ BeginPut(w, k) \/ BeginRemove(w, k)
                                             \/ BeginMove(w, k) \/ BeginTtl(w, k)
    \/ \E r \in Readers : ReaderStep(r) \/ \E k \in Keys : GetBegin(r, k)
    \/ \E f \in Folders : \/ FolderStep(f) \/ WantStart(f) \/ WantRelease(f)
                          \/ NextKey(f) \/ NextEnd(f)
    \/ IncrementFileId
    \/ Rest

Spec == Init /\ [][Next]_vars

\* Every thread inside a call keeps running and mutexes are handed on; a
\* caller that starts a fold releases it in the end.
Fairness ==
    /\ \A w \in Writers : WF_vars(WriterStep(w))
    /\ \A r \in Readers : WF_vars(ReaderStep(r))
    /\ \A f \in Folders : WF_vars(FolderStep(f)) /\ WF_vars(WantRelease(f))
FairSpec == Spec /\ Fairness

(***************************************************************************)
(* Properties.                                                             *)
(***************************************************************************)
WriterPCs == {"idle", "lock", "gate", "wait", "probe", "meta", "apply", "peek", "peek meta"}
ReaderPCs == {"idle", "keyfolders", "has pending", "optimistic", "shard", "meta shared"}
\* Between the end of the drain and the lowering of the gate.
Inside    == {"start", "release", "pending", "applying", "clear", "collapse", "lower"}
FolderPCs == Inside \cup {"idle", "barrier", "raise", "drain", "notify", "iterating"}

\* The variables keep the types of the class's members.
TypeOK ==
    /\ entries \in [Keys -> Seq(Rev)] /\ pending \in [Keys -> Seq(Rev)]
    /\ hasPending \in BOOLEAN /\ keyfolders \in Nat
    /\ epoch \in Nat /\ nextOrd \in Nat /\ biggest \in Files
    /\ keyCount \in Int /\ live \in [Files -> Int] /\ tombstones \in [Shards -> Int]
    /\ shardOwner \in [Shards -> Threads \cup {NoOne}]
    /\ metaOwner \in Writers \cup {NoOne} /\ metaShared \subseteq Folders
    /\ barrierOwner \in Folders \cup {NoOne}
    /\ gateActive \in BOOLEAN /\ sleepers \subseteq Writers
    /\ pc \in [Threads -> WriterPCs \cup ReaderPCs \cup FolderPCs]
    /\ req \in [Writers -> Requests \cup {NoReq}]
    /\ foldSeen \in [Writers -> BOOLEAN]
    /\ at \in [Folders -> Shards] /\ todo \in [Folders -> SUBSET Keys]
    /\ why \in [Folders -> {"start", "release"}] /\ iterEpoch \in [Folders -> Nat]
    /\ mergeFiles \subseteq Files /\ ops \in 0..MaxOps
    /\ asked \in [Readers -> Keys \cup {NoKey}]
    /\ phase \in [Folders -> {"none", "open", "eof"}]

\* Once the barrier has drained the shards, no writer is past the gate: what
\* the barrier's owner reads without a lock stands still (BarrierGuard).
BarrierExcludesWriters ==
    \A f \in Folders, w \in Writers :
       pc[f] \in Inside => pc[w] \notin {"probe", "meta", "apply"}

\* Stage two of release takes meta before a shard, against the lock order; it
\* may because no one owns meta uniquely or waits to
\* (apply_pending_to_entries_barrier).
NoUniqueMetaInStageTwo ==
    metaShared # {} => metaOwner = NoOne /\ \A w \in Writers : pc[w] # "meta"

\* A key of entries has no other version in pending: the tables are disjoint,
\* except that release copies a revision before it clears pending.
TablesDisjoint ==
    \A k \in Keys : entries[k] # <<>> /\ pending[k] # <<>>
                       => entries[k] = pending[k] /\ keyfolders = 0

\* Sibling chains are newest first, so entry_at_epoch stops at the right one,
\* and a chain exists only while a fold or its release runs.
ChainsNewestFirst ==
    \A k \in Keys :
       /\ \A i, j \in DOMAIN entries[k] : i < j => entries[k][i].epoch > entries[k][j].epoch
       /\ \A i \in DOMAIN entries[k] : entries[k][i].epoch <= epoch
       /\ Len(entries[k]) > 1 => keyfolders > 0 \/ barrierOwner # NoOne

\* Outside a barrier the pending table exists only for a running fold: nothing
\* written during a fold is left behind when the last one goes.
PendingBelongsToAFold ==
    /\ hasPending => keyfolders > 0 \/ \E f \in Folders : pc[f] \in Inside
    /\ \A k \in Keys : pending[k] # <<>> => hasPending

\* key_count_, the live keys of each file and the tombstones of each shard are
\* what a scan of the tables would count (merge and sweeping are driven by them).
CountersExact ==
    LET livekeys == {k \in Keys : IsLive(k)} IN
    /\ keyCount = Cardinality(livekeys)
    /\ \A f \in Files : live[f] = Cardinality({k \in livekeys : Chain(k)[1].file = f})
    /\ \A s \in Shards : tombstones[s] = Cardinality(Sweepable(entries, s))

\* A merge never costs a write: pointing a key at its copy leaves the value,
\* and expiring a record removes that record, not one written meanwhile.
MergeLosesNoWrite ==
    [][\A w \in Writers, k \in Keys, o \in 1..MaxOps :
          /\ pc[w] = "apply" /\ pc'[w] = "idle"
          /\ req[w].op \in {"move", "ttl"} /\ req[w].key = k /\ req[w].ord = o
          => \/ Current(k)' = Current(k)
             \/ req[w].op = "ttl" /\ Current(k) = o /\ Current(k)' = Absent]_vars

\* What a running fold will be told of any key, handed out or not, never
\* changes: no write, sweep or other fold's release disturbs its view.
ViewOf(f, k)  == LET c == AtEpoch(entries[k], iterEpoch[f])
                 IN IF Dead(c) THEN Absent ELSE c[1].ord
FoldViewStands ==
    [][\A f \in Folders : phase[f] # "none" /\ phase'[f] # "none"
          => \A k \in Keys : ViewOf(f, k)' = ViewOf(f, k)]_vars

\* "entries 的 key 集只增不减": while a fold runs no key leaves entries.
KeySetGrowsDuringFold ==
    [][keyfolders > 0 /\ keyfolders' > 0
          => \A k \in Keys : entries[k] # <<>> => entries'[k] # <<>>]_vars

\* put_insert's comment says that reviving a lone tombstone during a fold
\* leaves the iterator's semantics unchanged: the fold would see the same
\* revision, tombstone or not, before and after.
FoldTombstonesStand ==
    [][\A f \in Folders : phase[f] # "none" /\ phase'[f] # "none"
          => \A k \in Keys : Len(AtEpoch(entries[k], iterEpoch[f])) =
                             Len(AtEpoch(entries[k], iterEpoch[f]))']_vars

\* The class keeps the promise of KeyDirMap: reads and folds are consistent
\* across shards, pending table, sibling chains and release.
Map == INSTANCE KeyDirMap WITH
         MaxOrd <- MaxOps, store <- [k \in Keys |-> Current(k)]
ImplementsMap == Map!Spec

\* Every call that begins returns: no lost wake-up at the gate, no cycle of
\* shard, meta and barrier locks.
CallsReturn == \A t \in Threads : pc[t] # "idle" ~> pc[t] = "idle"

(***************************************************************************)
(* The inductive invariant behind BarrierExcludesWriters, TablesDisjoint   *)
(* and PendingBelongsToAFold (module KeyDirProofs).                        *)
(***************************************************************************)
PastGate  == {"probe", "meta", "apply"}
\* Where a folder is the last one, with pending still to be moved or cleared.
Moving    == {"pending", "applying", "clear"}

CallsHaveArguments ==
    /\ \A w \in Writers : pc[w] # "idle" => req[w] \in Requests
    /\ \A r \in Readers : pc[r] # "idle" => asked[r] \in Keys

ShardsHeld ==
    /\ \A w \in Writers : pc[w] \in PastGate \cup {"gate", "peek meta"}
                             => shardOwner[ShardOf[req[w].key]] = w
    /\ \A r \in Readers : pc[r] = "meta shared" => shardOwner[ShardOf[asked[r]]] = r

BarrierHeld ==
    \A f \in Folders :
       /\ pc[f] \in Inside \cup {"raise", "drain", "notify"} => barrierOwner = f
       /\ pc[f] \in Inside \cup {"drain"} => gateActive
       /\ pc[f] = "drain" => \A w \in Writers : pc[w] \in PastGate
                                => ShardOf[req[w].key] >= at[f]

MetaHeld ==
    /\ \A w \in Writers : metaOwner = w => pc[w] = "apply"
    /\ \A f \in metaShared : pc[f] = "applying"

LockInv == /\ CallsHaveArguments /\ ShardsHeld /\ BarrierHeld /\ MetaHeld
           /\ BarrierExcludesWriters

FoldsCounted ==
    /\ keyfolders = Cardinality({f \in Folders : phase[f] # "none"})
    /\ \A f \in Folders :
          /\ pc[f] \in {"release", "iterating"} => phase[f] # "none"
          /\ pc[f] = "start" => phase[f] = "none"
          /\ pc[f] \in {"barrier", "raise", "drain"}
                => (phase[f] = "none" <=> why[f] = "start")
          /\ pc[f] \in {"idle"} \cup Moving \cup {"collapse"} => phase[f] = "none"
          /\ pc[f] \in Moving \cup {"collapse"} => keyfolders = 0

PendingInv ==
    /\ \A k \in Keys : pending[k] # <<>> => hasPending /\ Len(pending[k]) = 1
    /\ hasPending => keyfolders > 0 \/ \E f \in Folders : pc[f] \in Moving
    /\ \A f \in Folders : pc[f] = "applying" => todo[f] \subseteq InPending
    /\ \A w \in Writers :
          /\ pc[w] = "meta" \/ metaOwner = w => keyfolders > 0
          /\ pc[w] \in {"meta", "apply"} => (foldSeen[w] <=> keyfolders > 0)
          /\ pc[w] = "apply" /\ entries[req[w].key] = <<>> /\ metaOwner # w
                => pending[req[w].key] = <<>>
    /\ \A k \in Keys : entries[k] # <<>> /\ pending[k] # <<>>
          => entries[k] = pending[k] /\ \E f \in Folders : pc[f] \in Moving

IInv == TypeOK /\ LockInv /\ FoldsCounted /\ PendingInv
=============================================================================
