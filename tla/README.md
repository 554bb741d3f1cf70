# libbitcask: a TLA+ verification project

libbitcask is an embedded key-value store in C++: an append-only log of data
files, an index of the live records in memory (the keydir), merging, crash
recovery, an ordered index on disk, and text and vector search fed by an
asynchronous pipeline. This directory holds TLA+ models of it, the TLC runs that
check them on small instances, and theorems about them that TLAPS checks for
every instance. Paths are relative to the repository root unless they name a
module; `file.cpp:123` means line 123 of that file.

1. What the system consists of
2. Which module models which part
3. The runs, their bounds, and the fairness assumed
4. Refinement
5. What is proved, and how
6. Where the code departs from its own words, and what the runs keep out
7. What is only model-checked
8. What is not modelled
9. Running it

## 1. The system

| component | state it keeps | operations | interacts with |
|---|---|---|---|
| **KeyDir** `src/keydir/keydir.cpp` | shards of `entries` (one revision, or a chain of siblings while a fold runs), the `pending` table, `keyfolders_`, `epoch_`, `next_ord_`, `biggest_file_id_`, counters per file and shard, the gate of the barrier | `put` (plain or compare-and-swap), `remove`, `conditional_remove`, `get`, `IterHandle` start, next, release, `increment_file_id` | called by writers, readers, merge and recovery; tells the ordered index |
| **SeqShardTable, epoch registry** `include/bitcask/seq_shard_table.hpp`, `epoch_reclaim.hpp` | open addressing, dense slots, a sequence word, memory waiting to be freed, 64 reader slots | insert, overwrite, erase, grow, look-up without a lock, reclaim | one table per shard of KeyDir |
| **KeyDirRegistry** `src/keydir/keydir_registry.cpp` | one keydir per directory with its references, the index pool | acquire, commit, release, index pool, stop if idle | open and close, the C interface |
| **File locks** `src/lock/file_lock.cpp` | a lock file with its owner's pid | acquire, read, write, release, stale removal | open, put after a close of the write file |
| **Write path** `src/cask/cask.cpp` | the active data and hint file, the queue of a group commit, the retired files | put, put_batch, put_batch_atomic, remove, sync, roll, checkpoint, close | data files, keydir, index pool |
| **Merge** `src/merge/merger.cpp` | output files, the moves that wait for their fsync | fold an input, apply the moves, retire the inputs | beside writers and readers |
| **Recovery** `src/cask/cask_recovery.cpp` | the watermarks of the snapshot | load the snapshot, fold files or hints, stage batches | keydir, ordered index, search |
| **Ordered index** `src/fileops/oki_*.cpp`, `src/cask/cask_range_iter.cpp` | a delta in memory, sorted runs, a manifest with a watermark | note, flush, compact, look up, scan a range | keydir, checkpoint, merge, recovery |
| **Read path** `src/cask/cask.cpp`, `cask_iter.cpp` | the cache of read handles, the files a fold pins | get, fold, parallel_scan | keydir, retired files |
| **IndexPool** `include/bitcask/thread_pool.hpp` | a task queue, a ring per library, counters | register, submit, map, reduce, flush, unregister, stop | writers, search plugins |
| **Search state** `src/cask/cask.cpp`, `src/keydir/docmap_ckpt.cpp`, `src/search/text_plugin.cpp` | document map, text segments with their dead marks, a chain of checkpoints, a manifest | apply, checkpoint, recover, seal, merge, search | index pool, keydir snapshot |
| **Inverted index and queries** `src/bm25/*` | posting lists, vocabularies, caches of threads | append, compact, ranked, boolean and phrase queries | text plugin |
| **Vector engines** `src/vector/*`, `src/search/vector_plugin.cpp`, `detail/sealed_segment_vector_plugin.hpp` | a navigable graph, its files, sealed segments and a window | insert, rebuild, save, recover, search | index pool, checkpoint |
| **Data files** `src/fileops/data_file.cpp`, `src/io/*` | cursor, buffer, durable mark | append, flush, sync, fold | everything that writes |
| **C interface** `c_api/*` | none of its own but the process-wide pool and arena | every call of the library | the host |

What makes them correct:

| component | it is correct when |
|---|---|
| KeyDir | gets and folds answer as a map would that changes in one step per write; a merge loses no write; nothing deadlocks |
| Table | a look-up without a lock never answers with a state the table did not have, and reads no freed memory |
| Opening | one writer per directory; a file id is given out once; references are exact |
| Write path, merge, recovery | an acknowledged write is found, after a crash at least the promised ones; nothing removed returns; an atomic batch is whole or absent |
| Data files | an offset leads to its record; durable means durable; a torn file loses its torn end only |
| Ordered index | delta and runs know the truth of every key, after a crash too; runs and scans give each key's newest row |
| Read path | a get and a fold find what they looked up although files are deleted under them |
| IndexPool | tasks of a library take effect in the order of their ords, and every call returns |
| Search state | after any crash, what the manifest commits and the replay agree with the log |
| Queries | leaving out what cannot matter changes no answer |
| Vector engines | a live vector is held once, read at its own place, and found |
| C interface | every block it hands out is freed once, and none after a failure is lost |

The hazards, each at its line and with the property that would catch it, are
listed in `PROJECT.json`.

## 2. Modules

A definition translates the code at the lines `map` in `PROJECT.json` names for
it. A helper that only restates a part of a mapped definition has no row there.
An operator whose name has an underscore (`Undone_LastHit`) is a faulty variant
of the definition behind it, for the mutants of `PROJECT.json`.

### The keydir: `KeyDir`, `KeyDirMap`

`KeyDirMap` says what the keydir promises: a map from keys to the ord of their
last write, changed by one step per write; a get answers with a value its key
had between call and return; a fold hands out one view. `KeyDir` is the code:
threads with a program counter that take the shard locks, `meta_mu_`,
`barrier_mu_` and the gate in the order of `keydir.cpp`. A step ends where
another thread may come in: at a lock that may be held, at an atomic read whose
result is used later.

| code | in the model |
|---|---|
| `entries` of the shards | `entries[k]`: absent, one revision, or a chain, newest first |
| `pending_`, `has_pending_` | `pending[k]`, `hasPending` |
| `put_probe`, `put_insert`, `put_overwrite` | `Lock`, `Gate`, `Wait`, `Probe`, `Meta`, `PutMissed`, `PutInsert`, `PutOverwrite` |
| the conditional put of merge | a request `move` with the old file |
| `remove_impl`, `conditional_remove` | `RemoveNothing`, `RemoveLive`; `Peek`, `PeekMeta`, `EndPeek` |
| `get_impl` | `GetKeyfolders`, `GetHasPending`, `GetOptimistic`, `GetLocked`, `GetPending` |
| `BarrierGuard` | `LockBarrier`, `Raise`, `Drain` (shard by shard), `Lower`, `Notify` |
| `IterHandle` | `WantStart`, `Start`, `StartRefused`, `NextKey`, `NextEnd`, `WantRelease`, `ReleaseCount`, `PendingBegin`, `PendingKey`, `PendingEnd`, `PendingClear`, `Collapse` |

A record is written once per file, so (file, ord) stands for the code's (file
id, offset, stamp). `SeqTable` opens the one step a look-up is here.

### The store: `LogFold`, `Store`

`Store` is the durable store of a collection without search. `LogFold` is its
pure part: records, batch headers, where a fold stops, and what the keydir does
with a put, a move, a recovered record, a remove.

| code | in the model |
|---|---|
| data files, hint files, `keydir.snap` | `disk`, `present`, `durable`, `hint`, `sealed`, `snap` |
| `write_mu_` and the call that holds it | `wr`: `Begin` (roll, append), `SyncBatch`, `ApplyPut`, `ApplyRemove`, `ApplyRefused` record by record, `Rewrite` (the retry of `write_and_keydir`), `Return` |
| `sync`, `checkpoint`, `close` | `Sync`; `Checkpoint`, `CkptDrain`, `CkptCapture`, `CkptSave`; `Close` |
| `Cask::merge`, `MergeRunner::run` | `Merge` ... `MergeSave`: drain, open, fold a record, flush, move entries one at a time, next file, retire, snapshot |
| process crash, power loss | `Crash`: keeps the files, or at least `durable[f]` records of each |
| `load_keydir_from_disk` | `Open`, then `Workers` that `TakeFile` (tail behind the snapshot, hints, or fold) and `RecoverRow` in any interleaving, `Recovered` |

`hist` is what was written to each key, `acked` the last write whose call
returned, `promised` the last one a power loss must spare.

### Data files and the ordered index: `DataFile`, `OrderedIndex`

`DataFile` opens the append that `Store` takes in one step: cells for bytes, a
record of one or more, `File::pwrite` a loop of `PwriteSome`, so that a crash,
an error or a checkpoint comes between two of its writes. `AppendMode` is the
platform (Linux opens with `O_APPEND` and ignores the offset of a pwrite, Windows
honours it); `Fails` and `Torn` say which calls may fail and whether a failing
write leaves a part behind.

`OrderedIndex` is one shard with a cache smaller than its keys: delta, runs,
manifest; look-up through cache, delta and runs; eviction and warm fill; the
flushes of checkpoint, merge and writers; compaction; a crash and the recovery
behind the watermark.

### Reading: `Reads`, `SeqTable`, `RunFormat`, `RunBuilder`, `RangeScan`

`Reads`: a get looks a location up and opens the file later, a fold pins files,
a writer rolls, a merge moves, retires and deletes. `SeqTable`: one shard's
table, one store of the writer and one load of the reader at a time, with the
epochs. `RunFormat` encodes rows into blocks with shared prefixes and wrapping
differences; `RunBuilder` spills, merges and probes runs; `RangeScan` merges a
frozen view and looks keys up, alone or a batch ahead.

### `IndexPool`

Writers, map workers, the reducer, flushers, closers and stop, each between two
accesses to shared memory. A task is its library and its ord. `MayThrow` and
`MayDie` let a push throw and a writer be killed inside `submit`.

### Opening: `Opening`, `CProcess`, `CApi`

`Opening`: handles of several processes open, load, write, merge, give up the
active file, close; the lock file with its pid, stale-lock removal, the
registry's slot of a directory, the ids the keydir gives out. `CProcess`: what
the databases of one process share, the index pool, the arena of batched
queries and the thread limits, with `bitcask_shutdown` beside opens and closes
(the host makes no query meanwhile: `search_arena.hpp` asks for it). `CApi`: the
calls of the C interface, an action per kind of entry point (`Get`, `Search`,
`SearchFiltered`, `SearchBatch`, `IterStart`, ...). An entry refuses an argument
that is not valid, such as a filter nested deeper than 32; the engine answers
or fails (`EngineAnswers`, `EngineFails`: an error, or an exception that the
boundary turns into one). A result is then built slot by slot, every allocation
may fail, and the code's own rollback follows (`Undone`, `QueryUndone`,
`HitRange`, `EntryUndone`); `heap` holds what is allocated, `wild` is set by a
free of something else. Batches are converted and handed to the engine;
metadata blobs are encoded, looked up and iterated.

### Search state: `Checkpoint`, `TextIndex`

`Checkpoint`: keydir, document map, text segments and vector graph describe the
log; the lane applies it in ord order, later; a checkpoint saves each as base or
delta, commits them in `index.manifest` and captures what recovery may skip
before. A base is renamed to its predecessor before the new one is written, so
that a write that fails, or that a crash cuts off (`CutOff`), leaves only the
predecessor. `TextIndex`: puts and deletes become rows and dead marks; segments are
filled by builders, sealed, merged, committed, reopened; queries look at slots
and list one after the other.

### Vectors: `Hnsw`, `VectorFiles`, `SealedVector`, `DiskSegments`

`Hnsw`: a node is published with empty lists and linked layer by layer, beside
a search without a lock and a rebuild. `VectorFiles`: the checkpoint that names
nodes, payload files appended in place, deltas, predecessor, any step followed
by a crash. `SealedVector`: segment, window and log of the engines on disk.
`DiskSegments`: DiskANN's build and search, IVF's lists. A vector is a point on
a line.

### Queries: `Postings`, `TopK`, `BoolQuery`

`Postings`: one writer that copies a list on write, and keeps a list's bucket
locked until it has raised the counter (`Locked`), readers without a lock beyond
that one, copies of a thread that the counter invalidates, a vocabulary rebuilt
on demand.
`TopK`: plain sum, Block-Max WAND, MaxScore and the conjunction, block by block.
`BoolQuery`: from words to a page of hits.

## 3. The runs

A run is a `.cfg`. Where several small components share one, its MC module
picks one by the variable `part` in the initial state, and the variables of
the others do not change; nothing is composed that way, it only keeps the number
of runs small. A component's own ASSUMEs are evaluated there.

| run | what happens | properties |
|---|---|---|
| `KeyDir` | two overlapping folds and a reader beside a writer; two writers with moves, expiry and new files beside a fold | `ImplementsMap` (refinement), `FoldViewStands`, `KeySetGrowsDuringFold`, `MergeLosesNoWrite`, `ChainsNewestFirst`, `PendingBelongsToAFold`, `BarrierExcludesWriters`, `CountersExact` |
| `KeyDirLive` | two writers, a reader and a folder on one shard | `CallsReturn` |
| `StoreWrites` | puts, removes, atomic batches, stamps that go backwards, rolls, a sync, a checkpoint and a close whose saves may fail, a power loss | `NothingLost`, `OrdsStayAhead`, `SealedIsDurable`, `BatchAtomic`, `HintsMatchData` |
| `StoreMerges` | merges between calls with crashes; beside a writer; twice, with a recovery on two threads | `NothingLost`, `RetiredIsUnreferenced` |
| `StoreSkippedPut` | a checkpoint between a put's append and its entry | violates `NothingLost` (section 6) |
| `Files` | a data file with short and failing writes, checkpoint and recovery; the ordered index with flushes, look-ups, crashes | `OffsetsHold`, `DurableIsStable`, `RecoveryFindsAcked`, `IndexIsTruth` |
| `IndexPool` | two libraries, three writers, two mappers, a full queue, full rings, pushes that throw, a writer that dies | `AppliedInOrder`, `FlushCovers`, `InFlightExact`, `CallsReturn` |
| `Opening` | two processes with three handles; the calls of the C interface with failing allocations and a failing engine; a process with three databases and a shutdown | `MutualExclusion`, `IdsGivenOnce`, `InterfaceSound` |
| `Reading` | gets and folds beside two merges; look-ups beside a writer; runs built, scans beside writes | `GetsAnswer`, `FoldReads`, `LookupsAreSound`, `RunsAndScansAreRight` |
| `SearchState` | the chain of checkpoints across a crash; text segments sealed, merged, queried | `KeysKept`, `DocsSearchable`, `SegmentsAnswer` |
| `Vectors` | sealed segments, files of a graph, searches beside insert and rebuild, segments on disk | `VectorFilesSound`, `GraphSearchSound`, `DiskSearchIsExact` |
| `Search` | readers of the postings beside their writer; ranked searches; boolean and phrase queries | `FinishedDocsFound`, `HeldIsFrozen`, `AnswersAreExact` |

### Bounds, and why they are enough

* **`KeyDir`** Four operations over two keys in shards of their own: two folds,
  a put between them and one behind them, which is what it takes to freeze,
  fill and merge a pending table under a fold, and a get across it. The action
  constraint `Limits` keeps two folds and two writers from running at once: with
  two writers there is one fold, and the last operation runs beside the fold
  only. `WriterPreference` lets a waiting writer of the meta lock stop readers.
* **`StoreWrites`** Two writes, one sync, one checkpoint, one close, one power
  loss, files of two records, one key's records beside another's: a record can
  be in the snapshot, behind it, in an old file or in the active one.
* **`StoreMerges`** Three writes are the interesting history of a key: a version
  that is merged or in the snapshot, one that follows, one that races. The cfg
  gives the union of three behaviours (`MCStoreMerges`): *apart* (one thing at
  a time, the oldest files are merged, a crash anywhere), *beside* (any files
  are merged beside the writer, a batch is the third write, no crash), *twice*
  (puts beside two merges whose saves fail, then the process dies and two
  threads recover). What lies between them is where section 6 finds losses.
* **`Files`** Three records of one or two cells and a buffer of three, so that a
  record straddles the threshold and a failure is followed by a success and one
  more. For the ordered index: three records of two keys with one remove, two
  jobs, one crash, a cache of one key; look-ups beside the first job.
* **`IndexPool`** Queue of one, rings of two: everybody can wait for everybody.
* **`Opening`** Two processes, each may crash and come back as another, once in
  all; a behaviour ends when a lock that is still held was taken away, because
  no property speaks of what follows. In `CApi` results of up to two items of
  up to two parts and batches of three; in `CProcess` two databases with search
  and one without, three settings of the limits, two pools in succession.
* **`Reading`** Two merges, because one is survived by the retry in `get`; the
  table has three keys of one neighbourhood and starts with two of them; runs
  of up to two rows below a delta.
* **`SearchState`** Two saves and a crash, between two writes of a save or in one
  of them, give every mixture of a committed and an uncommitted chain; one write
  may fail, of the document map, the text, the vectors or the manifest; two
  segments merge into one beside a query.
* **`Vectors`** Three documents, three saves, one crash (two for the graph's
  files); a graph of four nodes in two layers with one dead; six vectors on a
  line for the segments on disk. A search starts after three inserts: before
  that it has nothing to miss.
* **`Search`** Two documents in the postings; for `TopK` every index of four
  documents in blocks of two; for `BoolQuery` three documents in two segments
  and every flat query of up to three clauses, queries with one or two groups,
  phrases with slop up to two.

`CHECK_DEADLOCK FALSE` stands where a behaviour may end: all calls made, all
bounds used. It is checked in `KeyDir`, `KeyDirLive` and the three Store runs:
there `Rest`, `Ended` and `OutOfFiles` let a system stand still whose calls have
all returned or whose file ids are used up, so that any other stop would be a
thread that is stuck.

### Fairness

`KeyDirLive` assumes weak fairness of each thread's steps: a runnable thread
runs, and a lock that stays free is got by who wants it. A fold's owner calls
`release`, which `IterHandle` does in its destructor. Nothing forces a thread
to begin a call. `IndexPool` assumes less: as long as some thread can take a step
one does (`WF_vars(Progress)`), and an open library is closed one day. Calls are
bounded, so no thread can keep the others waiting for ever. No other run has a
liveness property: in the rest of the code a call waits only for locks whose
holders do not wait, or for the file system.

## 4. Refinement

`ImplementsMap` maps `KeyDir` to `KeyDirMap` with the map's value of a key
being `Current(k)`: the newest revision in `entries`, or in `pending` if there is
none. A write is the map's `Write` in the step that changes the tables (in
`PutInsert`, `PutOverwrite`, `RemoveLive`) and all its other steps stutter; a
get answers when it returns; a fold starts at `Start`, yields at `NextKey`. A
fold that joins another may miss keys that were absent when the first began;
the abstract map allows exactly these. TLC checks the mapping in `KeyDir`, and
`RefinesMap` proves it.

## 5. What is proved

Eight modules hold theorems. None assumes more of the constants than the module
it is about; where a theorem needs more, the hypothesis is named and section 6
says what happens without it.

**`KeyDirProofs`** (any keys, shards, writers, readers, folders): types,
`BarrierExcludesWriters`, `NoUniqueMetaInStageTwo`, `TablesDisjoint`,
`PendingBelongsToAFold`, `KeySetGrowsDuringFold`. None is inductive. `IInv` adds
who owns which lock at each program counter (`ShardsHeld`, `BarrierHeld`,
`MetaHeld`), that `keyfolders_` counts the folds that run (`FoldsCounted`), and
what a writer that read `fold_active` under its shard's lock may rely on
(`PendingInv`): without the last a writer could fill a pending table that
nobody will merge.

**`KeyDirMapProofs`** proves the rest of what the `KeyDir` run checks:
`ChainsNewestFirst`, `CountersExact`, `MergeLosesNoWrite`, `FoldViewStands` and
`ImplementsMap`. The argument:

* What a write does is one definition, `Written`: who writes, what shape the
  chain takes, which counters and tombstones move, what readers under way may
  now see. Every step that writes is a `Written`; every other leaves the tables
  as they are, or changes them only as a release does, which keeps the head of
  each chain (`HeadsKept`).
* `FullInv` is `IInv`, `MapInv` and `CountsHold`. `MapInv` says that ords and
  epochs lie below their counters (`OrdsPast`), that a chain is strictly
  descending in its epochs and longer than one only while a fold or its release
  is under way (`ChainsStand`), what of the pending table a release has moved so
  far (`PendingMoved`), that the view a fold started with can still be read from
  the chains at its epoch (`ViewsStand`), what it has handed out and has left
  (`FoldsHandOut`, `BaseStays`), that a get's window holds the present value
  (`GetsWatch`), that writers and the one merge write into different files
  (`MovesApart`).
* There is one lemma per kind of step (`WriteFullInv`, `GateFullInv`,
  `BeginFullInv`, `ReaderFullInv`, `GetBeginFullInv`, `IncrementFullInv`,
  `FolderFullInv`, `StillFullInv`); `NextSplits` says these are all.
* For the refinement each kind is mapped: `MapWrite`, `ReaderAnswers`,
  `NextHands`, and a stutter for the rest.

**`LogFoldProofs`**: `RecoveredPutsCommute`, two puts of a key leave the same
entry in either order if the stamps do not go backwards along the log, which is
why parallel recovery of puts is sound (with stamps that do it is false). And
`WholeExtends`, `RowsExtend`: what a fold and the hint rows of a file yield grows
with the file, a batch cut off at the end included.

**`StoreProofs`** (any keys, files, workers, budgets; merges and checkpoints
beside the writer; crashes of both kinds, recovery on any number of threads):

* `Invariance`: `Types` and `Places` are inductive with no hypothesis. `Places`
  says what is sealed is there, a file that is not has no content, nothing is
  durable beyond its end, sealed files and those a merge is done with are fully
  durable, the active file is not sealed, every file lies below the biggest id,
  what recovery has left to do, and that a merge's output, its inputs and the
  retired files are apart from the active one.
* `SealedAlwaysDurable` under `PowerOnly`: the crashes are power losses. After
  the death of a process it is false (section 6, *Sealed*).
* `HintsAlwaysMatch` under `Tidy`: beside merges a group has one put
  (`Overlap => MaxGroup = 1`). With larger groups the code itself breaks it
  (section 6, *GroupRoll*). The invariant `Calm` keeps the writer's records
  and the active file in step, `Hints` says of every file what its hint holds
  so far; recovery and merge build theirs the same way.
* `OrdsAlwaysAhead` under `Tidy`: the next ord lies beyond every ord in every
  file, also of records that a snapshot or a hint let recovery pass over.
  `Ords` covers what is on disk (`OrdsInUse`), the headers of batches, the
  watermarks in use (`MarksInUse`: what is marked was covered), the saved
  snapshot (`OrdsSaved`), and a recovery half way (`OrdsRecovering`). Every step
  either shrinks files or makes one writable file grow.

**`DataFileProofs`** (records and buffers of any size, either platform), under
`WritesAllOrNothing`: a failing write writes nothing, and no batch write fails;
section 6 shows that neither can be dropped. `OffsetsHold`, `DurableIsStable` and
`SnapshotIsStable` hold. The inductive invariant speaks of the file as it will
be when the write under way and the flush of the buffer have ended (`Whole`): a
step of `pwrite` does not change that, and the records of a pending batch
already hold in it.

**`IndexPoolProofs`** (any libraries, writers, workers, capacities): tasks take
effect in the order of their ords, `in_flight` is exact, a flush covers what was
submitted before, and `ring_put` never refuses. The invariant: each task drawn
and not yet applied is in exactly one place (`AllDue`, `Distinct`, `InHand`),
what is parked lies within one turn of its ring (`Window`) and in its own slot
(`Lined`), the counters agree with the log; for flushes, that no ord below
`applied` is missing and what a sleeping flush needs is still to come.

**`OpeningProofs`** (any processes, handles): `MutualExclusion`, `IdsGivenOnce`,
exact references. The invariant: who has the lock made the file that is there
(`LockIsMine`), a slot counts its users (`SlotCounts`), a working handle's slot
is loaded (`SlotReady`), ids given out lie below the next (`IdsBelow`).

**`NatSets`**: a nonempty set of naturals has a least element, a bounded one a
greatest, and induction stated with sets. The induction theorems of the library
take an operator as a parameter, which none of the backends can use; stated with
a set instead of an operator, induction over naturals does go through, and the
proofs about folds and rings use it.

## 6. Where the code departs from its own words, and what the runs keep out

A property has to be checked where the code keeps it. What follows are the
orders of events in which it does not. Each was met as a counterexample; those
with a switch (`Allowed`) come back when their name is put into that constant
of the MC module, the others under the constants given. `StoreSkippedPut` is a
run and the finding of `PROJECT.json`; a project of this size has room for one.

**The store** (constants of `Store`)

| name | what goes wrong | against |
|---|---|---|
| *SkippedPut* (run) | a checkpoint between a put's append and its entry: the record is below the watermark and not in the snapshot, so recovery skips it | `cask.cpp:881`: called where writers rest |
| *PartialMerge* `MergeAnySubset`, removes, failed saves | a tombstone is dropped while the put it covers lies in a file outside the merge; without a snapshot the key comes back | `cask.cpp:934`: a failed save only costs a slower start |
| *ParallelOrder* two `Workers`, removes | recovery on two threads lets an older tombstone delete a newer put (`keydir.cpp:1223` compares nothing) | `cask_recovery.cpp:352`: the order of arrival does not matter |
| *GroupRoll* `Overlap`, `MaxGroup = 2` | a refused put rolls the file; the rest of its group is entered, and hinted, under the new file with the offset of the old (`cask.cpp:1516`) | `cask.cpp:1463`: one group, one file |
| *SweptGate* removes beside a merge, process crash | recovery's sweep erases the sentinel that would keep an older copy out (`keydir.cpp:1284`) | `cask.cpp:3296`: the ord gate handles stale records |
| *BatchMerge* atomic batches beside a merge | a member is copied, or rewritten, outside its batch; after a crash the batch is visible in part | `cask.cpp:2182`: all or nothing |
| *UnknownFile* a roll between capture and save, power loss | a snapshot refers to records of a file it has no watermark of | `cask.cpp:911`: never to bytes a power loss may take |
| *Sealed* `"process" \in CrashKinds` | the file that was active when the process died counts as durable and was never fsynced; `sync()` does not touch it | `cask.cpp:1120`: sealed implies durable |

One more was read in the code and fits the model's rules, but is outside the
bounds of the runs: a snapshot is saved with an entry that points at file 1; the
key is removed; a merge of file 1 and the tombstone's file drops the tombstone
and the save behind it fails; the next checkpoint unlinks the retired files
(`cask.cpp:963`) and the process dies before it saves. Recovery loads the old
snapshot and does not ask whether the files of its entries exist
(`cask_recovery.cpp:732`): the key is live and points nowhere.

**Data files**: *DataFileTornPut* (`Torn`, `AppendMode`): a put that fails after a
part of its bytes leaves the file longer than the cursor; under `O_APPEND` every
later offset is wrong (`data_file.cpp:158`, against `:122`, "the offset is
explicit"). *DataFileStaleBatch* (`"batch" \in Fails`): a batch that fails stays
in the buffer while the cursor has moved on, and is written over the next put or
shifts it (`data_file.cpp:198`, against `data_file.hpp:228`). *DataFileWatermark*
(`RecoveryFindsAcked` with `CkptBeside`): a checkpoint measures the file between
two writes of one record; recovery starts inside the record and cuts the file
there (`cask.cpp:904`, against `:912`).

**The keydir**: a put overwrites the lone tombstone that a running fold with
`include_tombstones` would have reported (`KeyDir!FoldTombstonesStand`,
`keydir.cpp:960`, against `:957`).

**The ordered index** (constraints of `MCFiles`): a flush holds back a put made
since the watermarks were captured and writes the tombstone that followed, so
that a look-up stops at the put (`NoTombBeside`; against `oki_state.cpp:512`); the
watermark passes rows of a file begun meanwhile that are not durable
(`NoRollBeside`; against `oki_state.hpp:106`); after a crash between a merge's
copy and its flush the run keeps the old location, the next merge deletes the
file under it (`NoHalfMerge`; against `cask.cpp:3275`).

**The index pool** (`FlushCovers`' sibling `CallsReturn` with a throwing push in
the flusher's own library): a push that throws is taken out of `in_flight` again,
but its ord stays in `submitted_ord_hwm`, and a flush without a bound waits for it
for ever (`thread_pool.hpp:474`, against `:476`).

**Opening**: between the creation of the lock file and the write of its pid the
file is empty, and another opener takes it for a dead writer's: two holders, and
no process crashed (`Opening!OneHolder`, `cask.cpp:150`, against `:133`). A handle
that gave up its active file gave up the lock; its next put takes it back and
works on the keydir from before, whatever another process wrote in between
(`Opening!HolderIsCurrent`, `cask.cpp:1045`, against `:1183`).

**The C interface** (`Allowed = {"throw"}` for `CApi`): the batch readers of
iterators and ranges end in `catch (...) { return -1; }` and leave the entries
filled so far to nobody (`c_api/bitcask_kv.cpp:903`–`941`, `1051`–`1086` and the `_ex`
variants), although a comment there (`:913`) says that a failure in the middle
frees them.

**Search state** (`Allowed` of `MCSearchState`). `gap`: an ord is drawn while a
checkpoint captures what it covers. `reissue`: an ord the saved files cover is
given out again after a crash. `shadow`: a power loss takes the newer record of a
key whose older one the snapshot left out. `relocate`, `copy`: the lane, or a
delete, changes what a merge is about to tell the document map. `refold`: the
fold meets records in another order than their ords'. `ahead`: the keydir
snapshot at a merge's end covers bytes no search component has
(`Checkpoint!KeydirBehindSearch`, `cask.cpp:3321`, against `:889`). `behind`: the
write of a plugin fails, the manifest is committed without it, and the next open
takes the plugin for sound: its first base never came to be and a watermark of 0
counts as healthy (`cask_recovery.cpp:836`), or a delta of the vectors failed and
the fold starts at the watermarks of the document map's delta, because the
minimum of the chains is computed and not used (`cask_recovery.cpp:858`, against
`:855`). What the plugin missed cannot be searched. `ghost`: a dead
mark waits on a segment whose marks are being copied (`text_plugin.cpp:1563`).
`sidecar`: a segment sealed after a crash takes the number of an orphan and, if it
has no dead row of its own, the orphan's dead marks (`segment.hpp:413`, `:440`,
against `segment_set.hpp:256`, "harmless"). `window`, `swap`: a query looks while
a segment is between its slot and the list, or a merged one beside its inputs.
`fill`: an answer is cached after the words it depends on were written.

**Vectors** (`Allowed` of `MCVectors`). `stranded`: a search reaches a node on an
upper layer and goes down to a layer where its list is still empty
(`hnsw.cpp:1065`, against `:988` and `:1121`). `cut`: a rebuild leaves a live node
without a path (`hnsw.cpp:588`). `gate`, `straddle`: what the replay takes for
known, and a search that reads segment and window on both sides of a save
(`sealed_segment_vector_plugin.hpp:296`, `:312`, `:521`). DiskANN may leave a node
that nobody points to (`DiskSegments!EveryoneReachable`, `diskann.cpp:340`); the
run compares with what can be reached.

**Queries and reads**. `absent`: a segment that knows none of the required words
answers with the optional ones. `greedy`: a phrase of three words with slop takes
the first place that fits. `window`, `rolled` (`Allowed` of `MCReading`): a merge
deletes a file between a fold's snapshot and its pins, or the file that was
active then (`cask_iter.cpp:64`, `:138`). A get fails when two merges overtake it
(`cask.cpp:1622`). A get that fails inside a prefetched batch drops the batch
(`cask.hpp:470`); `RangeScan` does not let it fail.

## 7. What is only model-checked

* **Liveness** (`CallsReturn`, twice): fairness and ENABLED are out of the
  prover's reach.
* `NothingLost`, `BatchAtomic`, `RetiredIsUnreferenced`. Outside a list of
  excluded orders (section 6) they are false, and the exclusions are about
  pairs of steps far apart (a tombstone dropped by one merge and an older copy
  that another left). An inductive invariant has to speak of every file that a
  recovery could still read and in which order; the three theorems about
  `Store` are parts of it, and it goes no further.
* `RecoveryFindsAcked` and `IndexIsTruth` in `Files`: the first speaks of a
  recursive fold (`SnapshotAlwaysStable` proves what it rests on), the second
  holds only under three constraints on the order of events.
* `Reading`, `SearchState`, `Vectors`, `Search`, `InterfaceSound`: their modules
  use recursive operators, or their properties compare an algorithm with a
  reference definition over bounded inputs, which is TLC's part.

## 8. What is not modelled

* Offline migration: one thread, rewrites formats, promises nothing on a crash.
* Text analysis, encodings, the byte layout of segments, checksums: data that
  no property tells apart. Floating-point scores, quantisation, the SIMD kernels:
  `TopK` has monotone integer scores, so rounding and recall are no subject.
* Fusion of scores, highlighting and formatting; the search cache.
* In the store: backup, `merge_only` handles, expiry except as a conditional
  remove in `KeyDir`, compression, I/O errors but those of `DataFile` and of a
  save; the thresholds of the merge policy (any set of files may be chosen).
* In the ordered index: failed system calls, the transition between residency
  levels, several shards at once.
* In the C interface: options, error texts, what a filter says, calls that only
  pass through.
* Memory order: all loads and stores are sequentially consistent. `SeqTable`'s
  source argues for its fences on x86 and its model takes that argument.

## 9. Running it

    tlc -workers 2 -config StoreMerges.cfg MCStoreMerges.tla
    tlapm StoreProofs.tla

`PROJECT.json` names the module of each run, its properties, a mutant of the
model for each property (the change a plausible slip in the code would make),
the lines each definition models, the hazards and the theorems.
