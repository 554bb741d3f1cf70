------------------------------- MODULE Store -------------------------------
(***************************************************************************)
(* The durable key-value store of a collection without search plugins:     *)
(* the write path of src/cask/cask.cpp, merge (src/merge/merger.cpp and    *)
(* Cask::merge), the keydir snapshot, and the recovery of                  *)
(* src/cask/cask_recovery.cpp, with crashes of the process and of the      *)
(* machine.                                                                *)
(*                                                                         *)
(* write_mu_ admits one writer: wr is the call that holds it.  Merge, the  *)
(* checkpoint and recovery's workers take no such lock.  An append is one  *)
(* pwrite; a call that fails at the operating system is not modelled.      *)
(***************************************************************************)
EXTENDS LogFold

CONSTANTS
    Keys,
    MaxFile,          \* bound on biggest_file_id_
    FileCap,          \* max_file_size, in records
    SyncEach,         \* TRUE: sync_every_n = 1; FALSE: 0, only sync() promises
    Calls,            \* the calls made: subset of {"put", "remove", "batch", "atomic"}
    MaxGroup,         \* puts one group commit may take
    Overlap,          \* TRUE: merge and checkpoint run beside the writer
    MergeAnySubset,   \* FALSE: merge is given the oldest files
    SaveOutcomes,     \* how save_snapshot ends: subset of {"saved", "failed"}
    SkewedClock,      \* TRUE: a caller's tstamp may go backwards
    Workers,          \* recovery's threads
    CrashKinds,       \* subset of {"process", "power"}
    Limit             \* bounds: number of writes, syncs, merges, ... started

Files  == 1..MaxFile
Budget == {"write", "sync", "ckpt", "merge", "crash", "close"}

ASSUME StoreConstants ==
    /\ IsFiniteSet(Keys) /\ MaxFile \in Nat /\ FileCap \in Nat \ {0}
    /\ SyncEach \in BOOLEAN /\ Overlap \in BOOLEAN /\ MergeAnySubset \in BOOLEAN
    /\ SaveOutcomes \subseteq {"saved", "failed"} /\ SaveOutcomes # {}
    /\ SkewedClock \in BOOLEAN
    /\ Calls \subseteq {"put", "remove", "batch", "atomic"}
    /\ MaxGroup \in Nat \ {0} /\ IsFiniteSet(Workers) /\ Workers # {}
    /\ CrashKinds \subseteq {"process", "power"}
    /\ Limit \in [Budget -> Nat]

VARIABLES             \* on disk
    disk,             \* disk[f]: the records of data file f
    present,          \* the data files that exist
    durable,          \* durable[f]: how many of them a power loss spares
    hint,             \* hint[f]: the rows of f's hint file
    sealed,           \* the files whose hint has a valid trailer
    snap              \* keydir.snap: <<>> or one snapshot

VARIABLES             \* in memory
    mode,             \* "open", "closed", "recovering"
    kd,               \* the keydir
    biggest,          \* biggest_file_id_
    nextOrd,          \* next_ord_
    active,           \* active_file_id_, 0: no active writer
    wr,               \* the call that holds write_mu_
    mg,               \* the merge in progress
    ck,               \* the checkpoint in progress
    retired,          \* retired_files_
    rc                \* the recovery in progress

VARIABLES             \* observation and bounds
    hist,             \* hist[k][h]: is the h-th write of k a remove?
    acked,            \* acked[k]: the last write of k whose call returned
    promised,         \* promised[k]: the last one a power loss must spare
    batches,          \* atomic batches: the versions each one wrote
    used

onDisk  == <<disk, present, durable, hint, sealed, snap>>
index   == <<kd, biggest, nextOrd>>
promise == <<hist, acked, promised, batches>>
vars    == <<onDisk, mode, index, active, wr, mg, ck, retired, rc, promise, used>>

Idle   == [pc |-> "idle"]
NoWork == [file |-> 0, rows |-> <<>>]
NoRecovery == [todo |-> {}, wms |-> <<>>, work |-> [w \in Workers |-> NoWork]]

Init ==
    /\ disk = [f \in Files |-> <<>>] /\ present = {}
    /\ durable = [f \in Files |-> 0]
    /\ hint = [f \in Files |-> <<>>] /\ sealed = {} /\ snap = <<>>
    /\ mode = "open"
    /\ kd = [k \in Keys |-> NoEntry] /\ biggest = 0 /\ nextOrd = 0
    /\ active = 0 /\ wr = Idle /\ mg = Idle /\ ck = Idle
    /\ retired = <<>> /\ rc = NoRecovery
    /\ hist = [k \in Keys |-> <<>>]
    /\ acked = [k \in Keys |-> 0] /\ promised = [k \in Keys |-> 0]
    /\ batches = {}
    /\ used = [b \in Budget |-> 0]

Spend(b) == used[b] < Limit[b] /\ used' = [used EXCEPT ![b] = @ + 1]

Quiet == wr.pc = "idle"
Alone == ~Overlap => mg.pc = "idle" /\ ck.pc = "idle"

(***************************************************************************)
(* Rolling the active file                                                 *)
(***************************************************************************)
NextFile == biggest + 1                            \* increment_file_id

\* What is durable once the active file is fsynced (DataFile::sync).
Fsynced(f) == [durable EXCEPT ![f] = Len(disk[f])]

\* roll_active before it opens the next file: fsync, then the hint trailer
DurableIfSealed_NoSync == durable
DurableIfSealed == IF active = 0 THEN durable ELSE Fsynced(active)
SealedAfterRoll == IF active = 0 THEN sealed ELSE sealed \cup {active}

\* ensure_active_writer, or roll_active when a file is active
Roll == /\ biggest < MaxFile
        /\ active' = NextFile /\ biggest' = NextFile
        /\ present' = present \cup {NextFile}
        /\ durable' = DurableIfSealed
        /\ sealed' = SealedAfterRoll
Stay == UNCHANGED <<active, biggest, present, durable, sealed>>

\* A merge that took a file id larger than ours would make the keydir
\* refuse our puts; remove alone does not look.
MustRoll(kind, n) ==
    \/ active = 0 \/ Len(disk[active]) + n > FileCap
    \/ kind # "remove" /\ active < biggest

(***************************************************************************)
(* A write: append, then hint and keydir record by record, then return     *)
(***************************************************************************)
Stamps == IF SkewedClock THEN 1..2 ELSE {used["write"] + 1}

\* What one call, or one group of puts, asks for
Asked(key, tomb) == [key |-> key, tomb |-> tomb]
Requests ==
    (IF "put" \in Calls
     THEN {<<"group", [i \in 1..n |-> Asked(ks[i], FALSE)]>> :
              n \in 1..MaxGroup, ks \in [1..MaxGroup -> Keys]} ELSE {})
    \cup (IF "remove" \in Calls
          THEN {<<"remove", <<Asked(k, TRUE)>>>> : k \in Keys} ELSE {})
    \cup (IF "batch" \in Calls
          THEN {<<"batch", <<Asked(k, FALSE), Asked(l, FALSE)>>>> :
                   k \in Keys, l \in Keys} ELSE {})
    \cup (IF "atomic" \in Calls
          THEN {<<"atomic", <<Asked(k, FALSE), Asked(l, t)>>>> :
                   k \in Keys, l \in Keys, t \in BOOLEAN} ELSE {})

\* The version the i-th request writes of its key
Version(reqs, i) ==
    Len(hist[reqs[i].key])
      + Cardinality({j \in 1..i : reqs[j].key = reqs[i].key})

Record(r, o) == [kind |-> IF r.tomb THEN "tomb" ELSE "put", key |-> r.key,
                 ord |-> o, ts |-> r.ts, ver |-> r.ver]

\* What the requests add to the history of k
TombsOf(k, reqs) ==
    LET mine == Ascending({i \in DOMAIN reqs : reqs[i].key = k})
    IN [n \in DOMAIN mine |-> reqs[mine[n]].tomb]

\* A batch writes the hints of its members before it touches the keydir.
HintedAtOnce_NotAtomic(kind) == kind \in {"batch", "remove"}
HintedAtOnce(kind) == kind # "group"

\* The positions and ords of n records appended to file after skip others
Slots(file, skip, n) ==
    [i \in 1..n |-> [file |-> file, pos |-> Len(disk[file]) + skip + i,
                     ord |-> nextOrd + skip + i - 1]]

\* process_one_gc_round_locked, put_batch, put_batch_atomic, remove: roll if
\* needed, allocate the ords, one pwrite.  A group is what one flush_sub
\* writes: the puts that fit into the active file.
Begin(kind, reqs, t) ==
    LET n    == Len(reqs)
        head == IF kind = "atomic" THEN 1 ELSE 0
        roll == MustRoll(kind, IF kind = "group" THEN 1 ELSE head + n)
        file == IF roll THEN NextFile ELSE active
        locs == Slots(file, head, n)
        recs == [i \in 1..n |-> [key |-> reqs[i].key, tomb |-> reqs[i].tomb,
                                 ts |-> t, ver |-> Version(reqs, i)]]
        log  == disk[file]
                \o (IF head = 1 THEN <<BatchHeader(nextOrd, n)>> ELSE <<>>)
                \o [i \in 1..n |-> Record(recs[i], locs[i].ord)]
    IN /\ mode = "open" /\ Quiet /\ Alone /\ Spend("write")
       /\ IF roll THEN Roll ELSE Stay
       /\ kind = "group" => n = 1 \/ Len(disk[file]) + n <= FileCap
       /\ disk' = [disk EXCEPT ![file] = log]
       /\ hint' = IF HintedAtOnce(kind)
                  THEN [hint EXCEPT ![file] =
                           @ \o [i \in 1..n |-> Row(log, locs[i].pos)]]
                  ELSE hint
       /\ nextOrd' = nextOrd + head + n
       /\ wr' = [pc |-> IF SyncEach /\ kind \in {"batch", "atomic"}
                        THEN "sync" ELSE "apply",
                 kind |-> kind, recs |-> recs, locs |-> locs, i |-> 1,
                 try |-> 0, lost |-> {}]
       /\ hist' = [k \in Keys |-> hist[k] \o TombsOf(k, reqs)]
       /\ batches' = IF kind = "atomic"
                     THEN batches \cup {{<<recs[i].key, recs[i].ver>> : i \in 1..n}}
                     ELSE batches
       /\ UNCHANGED <<snap, mode, kd, mg, ck, retired, rc, acked, promised>>

Write == \E q \in Requests, t \in Stamps : Begin(q[1], q[2], t)

\* put_batch, put_batch_atomic: the fsync between the flush and the hints
SyncBatch ==
    /\ wr.pc = "sync"
    /\ durable' = Fsynced(wr.locs[1].file)
    /\ wr' = [wr EXCEPT !.pc = "apply"]
    /\ UNCHANGED <<disk, present, hint, sealed, snap, mode, index, active, mg, ck,
                   retired, rc, promise, used>>

(***************************************************************************)
(* One record reaches the keydir.  flush_sub passes the file that is       *)
(* active now; the batches pass the file they were written to.             *)
(***************************************************************************)
Req == wr.recs[wr.i]
Loc == wr.locs[wr.i]
FileOfApply == IF wr.kind = "group" THEN active ELSE Loc.file

HintRow == [pos |-> Loc.pos, kind |-> "put", key |-> Req.key, ord |-> Loc.ord,
            ts |-> Req.ts]
NextRecord == IF wr.i < Len(wr.recs)
              THEN [wr EXCEPT !.i = @ + 1, !.try = 0, !.pc = "apply"]
              ELSE [wr EXCEPT !.pc = "return"]

HintOfGroup == IF wr.kind = "group" /\ wr.try = 0
               THEN [hint EXCEPT ![active] = Append(@, HintRow)]
               ELSE hint
KeepFiles == UNCHANGED <<disk, present, durable, sealed, snap, active>>
KeepRest  == UNCHANGED <<mode, mg, ck, retired, rc, promise, used>>

ApplyPut ==
    /\ wr.pc = "apply" /\ ~Req.tomb
    /\ NewestAccepted(FileOfApply, biggest)
    /\ kd' \in Sweeps([kd EXCEPT ![Req.key] =
                          Live(FileOfApply, Loc.pos, Req.ts, Loc.ord)])
    /\ biggest' = Larger(biggest, FileOfApply)
    /\ hint' = HintOfGroup
    /\ wr' = NextRecord
    /\ KeepFiles /\ KeepRest /\ UNCHANGED nextOrd

ApplyRemove ==
    /\ wr.pc = "apply" /\ Req.tomb
    /\ LET after == [kd EXCEPT ![Req.key] = Removed(@, Loc.ord, FALSE)]
       IN kd' \in IF IsLive(kd[Req.key]) THEN Sweeps(after) ELSE {after}
    /\ wr' = NextRecord
    /\ KeepFiles /\ KeepRest /\ UNCHANGED <<hint, biggest, nextOrd>>

\* kAlreadyExists: a merge took a larger file id meanwhile.  Two more tries
\* (write_and_keydir), then the error; a batch gives up with its member.
ApplyRefused ==
    /\ wr.pc = "apply" /\ ~Req.tomb
    /\ ~NewestAccepted(FileOfApply, biggest)
    /\ kd' \in Sweeps(kd)
    /\ hint' = HintOfGroup
    /\ wr' = IF wr.try < 2 THEN [wr EXCEPT !.pc = "rewrite"]
             ELSE IF wr.kind = "group"
                  THEN [NextRecord EXCEPT !.lost = @ \cup {wr.i}]
                  ELSE [wr EXCEPT !.pc = "return", !.lost = @ \cup (wr.i..Len(wr.recs))]
    /\ KeepFiles /\ KeepRest /\ UNCHANGED <<biggest, nextOrd>>

\* write_and_keydir: append again to the active file, under the same ord for
\* a group, a new one for a batch; then once more after roll_active.
Rewrite ==
    LET roll  == wr.try = 1
        file  == IF roll THEN NextFile ELSE active
        fresh == roll \/ wr.kind # "group"
        loc   == [Slots(file, 0, 1)[1] EXCEPT !.ord = IF fresh THEN @ ELSE Loc.ord]
        log   == Append(disk[file], Record(Req, loc.ord))
    IN /\ wr.pc = "rewrite"
       /\ IF roll THEN Roll ELSE Stay
       /\ disk' = [disk EXCEPT ![file] = log]
       /\ hint' = [hint EXCEPT ![file] = Append(@, Row(log, loc.pos))]
       /\ nextOrd' = IF fresh THEN nextOrd + 1 ELSE nextOrd
       /\ wr' = [wr EXCEPT !.pc = "apply", !.try = @ + 1, !.locs[wr.i] = loc]
       /\ UNCHANGED <<snap, kd>> /\ KeepRest

\* maybe_group_commit, then the call returns.
DurableAtReturn == IF SyncEach THEN Fsynced(active) ELSE durable
Return ==
    LET done == {i \in 1..Len(wr.recs) : i \notin wr.lost}
        upTo(seen) == [k \in Keys |->
            LET vs == {wr.recs[i].ver : i \in {j \in done : wr.recs[j].key = k}}
            IN IF vs = {} THEN seen[k] ELSE CHOOSE v \in vs : \A u \in vs : u <= v]
    IN /\ wr.pc = "return"
       /\ durable' = DurableAtReturn
       /\ acked' = upTo(acked)
       /\ promised' = IF SyncEach THEN upTo(promised) ELSE promised
       /\ wr' = Idle
       /\ UNCHANGED <<disk, present, hint, sealed, snap, mode, index, active, mg, ck,
                      retired, rc, hist, batches, used>>

Sync ==
    /\ mode = "open" /\ Quiet /\ Alone /\ Spend("sync")
    /\ durable' = IF active = 0 THEN durable ELSE Fsynced(active)
    /\ promised' = acked
    /\ UNCHANGED <<disk, present, hint, sealed, snap, mode, index, active, wr, mg, ck,
                   retired, rc, hist, acked, batches>>

(***************************************************************************)
(* The keydir snapshot: first the watermarks, then the entries             *)
(***************************************************************************)
\* collect_snapshot_watermarks fsyncs the active file and trusts the others.
Watermarks == [f \in present |-> Len(disk[f])]
DurableAfterCapture == IF active = 0 THEN durable ELSE Fsynced(active)

\* save_snapshot leaves out the tombstones and what lies past a watermark.
SnapshotEntry(e, wms) ==
    IF IsLive(e) /\ (e.file \in DOMAIN wms => e.pos <= wms[e.file])
    THEN e ELSE NoEntry
Snapshot(wms) ==
    [kd |-> [k \in Keys |-> SnapshotEntry(kd[k], wms)],
     biggest |-> biggest, nextOrd |-> nextOrd, wms |-> wms]

\* A failed save leaves the previous snapshot where it is.
SaveSnapshot(wms) ==
    \/ "saved" \in SaveOutcomes /\ snap' = <<Snapshot(wms)>>
    \/ "failed" \in SaveOutcomes /\ snap' = snap

\* drain_retired_files, one file: data, then hint
Unlink(f) ==
    /\ present' = present \ {f} /\ sealed' = sealed \ {f}
    /\ disk' = [disk EXCEPT ![f] = <<>>] /\ durable' = [durable EXCEPT ![f] = 0]
    /\ hint' = [hint EXCEPT ![f] = <<>>]
DrainOne == retired # <<>> /\ Unlink(Head(retired)) /\ retired' = Tail(retired)

CkptDrain ==
    /\ ck.pc = "drain" /\ DrainOne
    /\ UNCHANGED <<snap, mode, index, active, wr, mg, ck, rc, promise, used>>

\* checkpoint() of a store without search components
Checkpoint ==
    /\ mode = "open" /\ ck.pc = "idle" /\ Spend("ckpt")
    /\ Overlap \/ (Quiet /\ mg.pc = "idle")
    /\ ck' = [pc |-> "drain"]
    /\ UNCHANGED <<onDisk, mode, index, active, wr, mg, retired, rc, promise>>
CkptCapture ==
    /\ ck.pc = "drain" /\ retired = <<>>
    /\ durable' = DurableAfterCapture
    /\ ck' = [pc |-> "save", wms |-> Watermarks]
    /\ UNCHANGED <<disk, present, hint, sealed, snap, mode, index, active, wr, mg,
                   retired, rc, promise, used>>
CkptSave ==
    /\ ck.pc = "save" /\ SaveSnapshot(ck.wms)
    /\ ck' = Idle
    /\ UNCHANGED <<disk, present, durable, hint, sealed, mode, index, active, wr, mg,
                   retired, rc, promise, used>>

(***************************************************************************)
(* Merge                                                                   *)
(***************************************************************************)
Merge ==
    /\ mode = "open" /\ mg.pc = "idle" /\ Spend("merge")
    /\ Overlap \/ (Quiet /\ ck.pc = "idle")
    /\ mg' = [pc |-> "drain"]
    /\ UNCHANGED <<onDisk, mode, index, active, wr, ck, retired, rc, promise>>
MergeDrain ==
    /\ mg.pc = "drain" /\ DrainOne
    /\ UNCHANGED <<snap, mode, index, active, wr, mg, ck, rc, promise, used>>

\* The files a merge may be given: never the active one, each once, oldest first
Mergeable == present \ {active}
MergeSets ==
    {S \in SUBSET Mergeable :
        /\ S # {}
        /\ ~MergeAnySubset => \A f \in S, g \in Mergeable : g <= f => g \in S}

MergeOpen ==
    /\ mg.pc = "drain" /\ retired = <<>> /\ biggest < MaxFile
    /\ \E S \in MergeSets :
          mg' = [pc |-> "fold", left |-> S, out |-> NextFile, pos |-> 0,
                 moves |-> <<>>, ins |-> S, stuck |-> {}]
    /\ biggest' = NextFile /\ present' = present \cup {NextFile}
    /\ UNCHANGED <<disk, durable, hint, sealed, snap, mode, kd, nextOrd, active, wr,
                   ck, retired, rc, promise, used>>

MergeNothing ==
    /\ mg.pc = "drain" /\ retired = <<>> /\ (MergeSets = {} \/ biggest = MaxFile)
    /\ mg' = Idle
    /\ UNCHANGED <<onDisk, mode, index, active, wr, ck, retired, rc, promise, used>>

InFile == CHOOSE f \in mg.left : \A g \in mg.left : f <= g

\* fold_record: copy what the keydir still points at.
MergeKeeps_ButLast(r, f, p) ==
    IsPut(r) /\ PointsTo(kd[r.key], f, p) /\ p < Len(disk[f])
MergeKeeps(r, f, p) == IsPut(r) /\ PointsTo(kd[r.key], f, p)
MergeFold ==
    /\ mg.pc = "fold" /\ mg.left # {} /\ mg.pos < LastValidEnd(disk[InFile], 0)
    /\ LET p == mg.pos + 1
           r == disk[InFile][p]
       IN mg' = [mg EXCEPT !.pos = p,
                   !.moves = IF MergeKeeps(r, InFile, p)
                             THEN Append(@, [pos |-> p, rec |-> r]) ELSE @]
    /\ UNCHANGED <<onDisk, mode, index, active, wr, ck, retired, rc, promise, used>>

\* The hints of the copies, which follow the first n records of the output
CopyHints(log, n) == [i \in 1..(Len(log) - n) |-> Row(log, n + i)]

\* apply_pending at the end of an input file: flush and fsync the copies,
\* then move the keydir to them one by one.
MergeFlush ==
    LET log == disk[mg.out] \o [i \in DOMAIN mg.moves |-> mg.moves[i].rec]
        n   == Len(disk[mg.out])
    IN /\ mg.pc = "fold" /\ mg.left # {}
       /\ mg.pos >= LastValidEnd(disk[InFile], 0)
       /\ disk' = [disk EXCEPT ![mg.out] = log]
       /\ durable' = [durable EXCEPT ![mg.out] = Len(log)]
       /\ hint' = [hint EXCEPT ![mg.out] = @ \o CopyHints(log, n)]
       /\ mg' = [mg EXCEPT !.pc = "move", !.pos = n + 1]
       /\ UNCHANGED <<present, sealed, snap, mode, index, active, wr, ck, retired, rc,
                      promise, used>>

MergeMove ==
    /\ mg.pc = "move" /\ mg.moves # <<>>
    /\ LET m == Head(mg.moves)
           k == m.rec.key
           ok == MoveAccepted(kd[k], mg.out, mg.pos, m.rec.ts, InFile, m.pos)
       IN /\ kd' \in Sweeps(IF ok
                            THEN [kd EXCEPT ![k] = Live(mg.out, mg.pos, m.rec.ts, m.rec.ord)]
                            ELSE kd)
          /\ mg' = [mg EXCEPT !.moves = Tail(@), !.pos = @ + 1,
                      !.stuck = IF ~ok /\ PointsTo(kd[k], InFile, m.pos)
                                THEN @ \cup {InFile} ELSE @]
    /\ UNCHANGED <<onDisk, mode, biggest, nextOrd, active, wr, ck, retired, rc,
                   promise, used>>
MergeNextFile ==
    /\ mg.pc = "move" /\ mg.moves = <<>>
    /\ mg' = [mg EXCEPT !.pc = "fold", !.pos = 0, !.left = @ \ {InFile}]
    /\ UNCHANGED <<onDisk, mode, index, active, wr, ck, retired, rc, promise, used>>

\* The end of run_merge, then Cask::merge: finalize, retire the inputs.
RetiredBy(m) == m.ins \ m.stuck
MergeRetire ==
    /\ mg.pc = "fold" /\ mg.left = {}
    /\ sealed' = sealed \cup {mg.out}
    /\ retired' = retired \o Ascending(RetiredBy(mg))
    /\ mg' = [pc |-> "capture"]
    /\ UNCHANGED <<disk, present, durable, hint, snap, mode, index, active, wr, ck, rc,
                   promise, used>>
MergeCapture ==
    /\ mg.pc = "capture"
    /\ durable' = DurableAfterCapture
    /\ mg' = [pc |-> "save", wms |-> Watermarks]
    /\ UNCHANGED <<disk, present, hint, sealed, snap, mode, index, active, wr, ck,
                   retired, rc, promise, used>>
MergeSave ==
    /\ mg.pc = "save" /\ SaveSnapshot(mg.wms)
    /\ mg' = Idle
    /\ UNCHANGED <<disk, present, durable, hint, sealed, mode, index, active, wr, ck,
                   retired, rc, promise, used>>

(***************************************************************************)
(* Close, crash, and recovery                                              *)
(***************************************************************************)
Forget == /\ kd' = [k \in Keys |-> NoEntry] /\ biggest' = 0 /\ nextOrd' = 0
          /\ active' = 0 /\ wr' = Idle /\ mg' = Idle /\ ck' = Idle
          /\ retired' = <<>> /\ rc' = NoRecovery
          /\ mode' = "closed"

\* close: no call is in flight.  It seals the active file, deletes the
\* retired ones and saves a snapshot.
Gone == {retired[i] : i \in DOMAIN retired}
Close ==
    /\ mode = "open" /\ Quiet /\ mg.pc = "idle" /\ ck.pc = "idle" /\ Spend("close")
    /\ sealed' = SealedAfterRoll \ Gone
    /\ present' = present \ Gone
    /\ disk' = [f \in Files |-> IF f \in Gone THEN <<>> ELSE disk[f]]
    /\ hint' = [f \in Files |-> IF f \in Gone THEN <<>> ELSE hint[f]]
    /\ durable' = [f \in Files |-> IF f \in Gone THEN 0 ELSE DurableIfSealed[f]]
    /\ SaveSnapshot([f \in present' |-> Len(disk[f])])
    /\ Forget
    /\ promised' = acked
    /\ UNCHANGED <<hist, acked, batches>>

\* The files with records a power loss may take
Loose == {f \in Files : durable[f] < Len(disk[f])}

\* A power loss may take every record and hint trailer that was not fsynced.
Crash(kind) ==
    /\ mode # "closed" /\ Spend("crash")
    /\ IF kind = "process"
       THEN /\ UNCHANGED <<onDisk, acked, promised>>
       ELSE /\ \E cut \in [Loose -> UNION {durable[f]..Len(disk[f]) : f \in Loose}] :
                  /\ \A f \in Loose : cut[f] \in durable[f]..Len(disk[f])
                  /\ disk' = [f \in Files |-> IF f \in Loose
                                            THEN SubSeq(disk[f], 1, cut[f]) ELSE disk[f]]
                  /\ durable' = [f \in Files |-> IF f \in Loose THEN cut[f] ELSE durable[f]]
            /\ sealed' \in SUBSET sealed
            /\ acked' = promised /\ promised' = promised
            /\ UNCHANGED <<present, hint, snap>>
    /\ Forget
    /\ UNCHANGED <<hist, batches>>

\* load_recovery_snapshots
Open ==
    /\ mode = "closed"
    /\ mode' = "recovering"
    /\ IF snap # <<>>
       THEN /\ kd' = snap[1].kd /\ biggest' = snap[1].biggest
            /\ nextOrd' = snap[1].nextOrd
       ELSE UNCHANGED index
    /\ rc' = [NoRecovery EXCEPT !.todo = present,
                !.wms = IF snap # <<>> THEN snap[1].wms ELSE <<>>]
    /\ UNCHANGED <<onDisk, active, wr, mg, ck, retired, promise, used>>

\* fold_one: the hint if it is usable and no snapshot was loaded, else the
\* data from the snapshot's watermark on, whose torn tail is cut off.
UsesHint(f) == f \in sealed /\ snap = <<>>
FoldStart_KnownOnly(f) ==
    IF f \in DOMAIN rc.wms THEN rc.wms[f] ELSE IF snap = <<>> THEN 0 ELSE Len(disk[f])
FoldStart(f) == IF f \in DOMAIN rc.wms THEN rc.wms[f] ELSE 0
RowsOf(f) == IF UsesHint(f) THEN hint[f] ELSE RowsFrom(disk[f], FoldStart(f))
TornTailCut(f) == IF UsesHint(f) \/ LastValidEnd(disk[f], FoldStart(f)) > Len(disk[f])
                  THEN disk[f]
                  ELSE SubSeq(disk[f], 1, LastValidEnd(disk[f], FoldStart(f)))

TakeFile(w) ==
    /\ mode = "recovering" /\ rc.work[w] = NoWork /\ rc.todo # {}
    /\ LET f == CHOOSE g \in rc.todo : \A h \in rc.todo : g <= h
       IN /\ rc' = [rc EXCEPT !.todo = @ \ {f},
                      !.work[w] = IF RowsOf(f) = <<>> THEN NoWork
                                  ELSE [file |-> f, rows |-> RowsOf(f)]]
          /\ biggest' = Larger(biggest, f)
          /\ disk' = [disk EXCEPT ![f] = TornTailCut(f)]
          /\ durable' = [durable EXCEPT ![f] = IF @ < Len(TornTailCut(f)) THEN @
                                               ELSE Len(TornTailCut(f))]
    /\ UNCHANGED <<present, hint, sealed, snap, mode, kd, nextOrd, active, wr, mg, ck,
                   retired, promise, used>>

\* advance_ord: for a put and for a tombstone
OrdAfter_Puts(r) == IF r.kind = "put" THEN Larger(nextOrd, r.ord + 1) ELSE nextOrd
OrdAfter(r) == Larger(nextOrd, r.ord + 1)

\* One row reaches the keydir.
RecoverRow(w) ==
    LET f == rc.work[w].file
        rows == rc.work[w].rows
        r == Head(rows)
        e == kd[r.key]
    IN /\ mode = "recovering" /\ rc.work[w] # NoWork
       /\ kd' \in
            IF r.kind = "tomb"
            THEN LET after == [kd EXCEPT ![r.key] = Removed(e, r.ord, TRUE)]
                 IN IF IsLive(e) THEN Sweeps(after) ELSE {after}
            ELSE Sweeps([kd EXCEPT ![r.key] = RecoveredPut(e, f, r.pos, r.ts, r.ord)])
       /\ nextOrd' = OrdAfter(r)
       /\ rc' = [rc EXCEPT !.work[w] = IF Len(rows) = 1 THEN NoWork
                                       ELSE [file |-> f, rows |-> Tail(rows)]]
       /\ UNCHANGED <<onDisk, mode, biggest, active, wr, mg, ck, retired, promise, used>>

(***************************************************************************)
(* What a get answers: the version of k, or 0 for "not found"              *)
(***************************************************************************)
Unreadable == -1
Value(k) ==
    LET e == kd[k]
    IN IF ~IsLive(e) THEN 0
       ELSE IF /\ e.file \in present /\ e.pos <= Len(disk[e.file])
               /\ IsPut(disk[e.file][e.pos]) /\ disk[e.file][e.pos].key = k
            THEN disk[e.file][e.pos].ver
            ELSE Unreadable

\* The states of k's history, from version h on, that the answer may stand for
Stands(k, h) ==
    {v \in h..Len(hist[k]) :
        Value(k) = IF v = 0 \/ hist[k][v] THEN 0 ELSE v}

\* load_keydir_from_disk is through; open returns.
Recovered ==
    /\ mode = "recovering" /\ rc.todo = {} /\ \A w \in Workers : rc.work[w] = NoWork
    /\ mode' = "open" /\ rc' = NoRecovery
    /\ acked' = [k \in Keys |-> IF Stands(k, acked[k]) = {} THEN acked[k]
                                ELSE Larger(acked[k], Value(k))]
    /\ batches' = {b \in batches : \E m \in b : Stands(m[1], 0) \subseteq m[2]..Len(hist[m[1]])}
    /\ UNCHANGED <<onDisk, index, active, wr, mg, ck, retired, hist, promised, used>>

\* Every budget is spent.
Ended == /\ mode = "open" /\ Quiet /\ mg.pc = "idle" /\ ck.pc = "idle" /\ UNCHANGED vars
OutOfFiles == biggest = MaxFile /\ UNCHANGED vars

WriterStep == SyncBatch \/ ApplyPut \/ ApplyRemove \/ ApplyRefused \/ Rewrite \/ Return
CkptStep   == CkptDrain \/ CkptCapture \/ CkptSave
MergeStep  == \/ MergeDrain \/ MergeOpen \/ MergeNothing \/ MergeFold \/ MergeFlush
              \/ MergeMove \/ MergeNextFile \/ MergeRetire \/ MergeCapture \/ MergeSave
RecoveryStep == Open \/ Recovered \/ \E w \in Workers : TakeFile(w) \/ RecoverRow(w)

Next ==
    \/ Write \/ WriterStep \/ Sync
    \/ Checkpoint \/ CkptStep
    \/ Merge \/ MergeStep
    \/ Close \/ \E kind \in CrashKinds : Crash(kind)
    \/ RecoveryStep
    \/ Ended \/ OutOfFiles

Spec == Init /\ [][Next]_vars

(***************************************************************************)
(* Properties                                                              *)
(***************************************************************************)
Row0 == [pos : Nat, kind : {"put", "tomb"}, key : Keys, ord : Nat, ts : Nat]
TypeOK ==
    /\ present \subseteq Files /\ sealed \subseteq present
    /\ \A f \in Files : durable[f] \in 0..Len(disk[f])
    /\ \A f \in Files : \A i \in DOMAIN hint[f] : hint[f][i] \in Row0
    /\ \A f \in Files \ present : disk[f] = <<>> /\ hint[f] = <<>>
    /\ mode \in {"open", "closed", "recovering"}
    /\ kd \in [Keys -> [st : {"none", "live", "tomb"}, file : 0..MaxFile, pos : Nat,
                        ts : Nat, ord : Nat]]
    /\ biggest \in 0..MaxFile /\ active \in present \cup {0} /\ nextOrd \in Nat
    /\ Gone \subseteq Files \ {active}
    /\ \A k \in Keys : /\ acked[k] \in 0..Len(hist[k]) /\ promised[k] \in 0..acked[k]

\* KeydirPointsAtRecord: a live entry names a record of its own key, with its
\* own ord, in a file that exists (put, merge's moves, recovery, snapshots).
KeydirPointsAtRecord ==
    mode = "open" =>
        \A k \in Keys : IsLive(kd[k]) =>
            /\ Value(k) # Unreadable
            /\ disk[kd[k].file][kd[k].pos].ord = kd[k].ord

\* NothingLost: what a get answers is the last write whose call returned, or a
\* later one; after a crash, the last one the crash had to spare.
\* The entry it is read by is the record's own (KeydirPointsAtRecord).
NothingLost ==
    /\ mode = "open" => \A k \in Keys : Stands(k, acked[k]) # {}
    /\ KeydirPointsAtRecord

\* BatchAtomic: an atomic batch is visible as a whole or not at all once no
\* call is in progress, crashes included.
BatchAtomic ==
    (mode = "open" /\ Quiet) =>
        \A b \in batches : \A m, n \in b :
            ~ /\ Stands(m[1], 0) \subseteq m[2]..Len(hist[m[1]])
              /\ Stands(n[1], 0) \subseteq 0..(n[2] - 1)

\* OrdsStayAhead: alloc_ord never gives out an ord that a record in the log has.
OrdsStayAhead ==
    mode = "open" => \A f \in present : \A i \in DOMAIN disk[f] :
                        disk[f][i].ord < nextOrd

\* SealedIsDurable: every file but the active one and a merge's output is
\* fsynced, which is what the snapshot's watermarks trust (roll_active).
SealedIsDurable ==
    mode = "open" =>
        \A f \in present \ ({active} \cup IF "out" \in DOMAIN mg THEN {mg.out} ELSE {}) :
            durable[f] = Len(disk[f])

\* HintsMatchData: a hint file with a valid trailer tells recovery the same
\* records as its data file.
HintsMatchData ==
    mode = "open" => \A f \in sealed : hint[f] = RowsFrom(disk[f], 0)

\* RetiredIsUnreferenced: no entry points into a file that waits for its
\* unlink (Cask::merge).
RetiredIsUnreferenced ==
    mode = "open" => \A k \in Keys : IsLive(kd[k]) => kd[k].file \notin Gone
=============================================================================
