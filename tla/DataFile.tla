------------------------------ MODULE DataFile ------------------------------
(***************************************************************************)
(* The life of one active data file: the appends of                        *)
(* src/fileops/data_file.cpp down to the loop of File::pwrite              *)
(* (src/io/posix_file.cpp, win32_file.cpp), its durable watermark, and     *)
(* the fold that recovers it after a crash.  Store.tla takes an append as  *)
(* one step that succeeds; this module is about what that hides.           *)
(*                                                                         *)
(* A file is a sequence of cells, a record is one or more of them.  The    *)
(* first cell of a record is its header, which tells the record's size;    *)
(* a CRC over all its cells is right only when they are all there.         *)
(* Batch headers are the subject of LogFold.tla.                           *)
(***************************************************************************)
EXTENDS Integers, Sequences

CONSTANTS
    Sizes,        \* sizes of records, in cells
    MaxRecords,   \* bound on the number of records written
    FlushAt,      \* kBatchFlushBytes, in cells
    AppendMode,   \* O_APPEND makes pwrite ignore its offset (Linux); FALSE: Windows
    Fails,        \* system calls that may fail: subset of {"put", "batch", "fsync"}
    Torn,         \* TRUE: a failing write may have written a part
    CkptBeside    \* TRUE: a checkpoint runs beside the writer; FALSE: at close

ASSUME DataFileConstants ==
    /\ Sizes \subseteq Nat \ {0} /\ MaxRecords \in Nat /\ FlushAt \in Nat \ {0}
    /\ AppendMode \in BOOLEAN /\ Torn \in BOOLEAN /\ CkptBeside \in BOOLEAN
    /\ Fails \subseteq {"put", "batch", "fsync"}

VARIABLES
    file,         \* the file as the kernel shows it
    stable,       \* the cells a power loss spares
    cur,          \* current_offset_
    batch,        \* batch_buf_
    durable,      \* *durable_, what durable_bytes() answers
    dsync,        \* durable_writes_: the file was opened with O_DSYNC
    io,           \* the pwrite in progress
    pw,           \* the results write_buffered has returned to put_batch
    ck,           \* a checkpoint between its stat and its fdatasync
    wm,           \* the watermark the last checkpoint captured, 0: none
    written,      \* how many records were handed to the file
    acked,        \* the records a call has reported written: where, how long
    promised,     \* the acked records a power loss must spare
    mode,         \* "open", "crashed", "recovered"
    found         \* what the recovery's fold found

vars == <<file, stable, cur, batch, durable, dsync, io, pw, ck, wm, written, acked,
          promised, mode, found>>

Idle  == [for |-> "idle"]
NoCkpt == -1

Init ==
    /\ file = <<>> /\ stable = <<>> /\ cur = 0 /\ batch = <<>> /\ durable = 0
    /\ dsync \in BOOLEAN
    /\ io = Idle /\ pw = <<>> /\ ck = NoCkpt /\ wm = 0
    /\ written = 0 /\ acked = {} /\ promised = {} /\ mode = "open" /\ found = {}

Cell(r, i, n) == [rec |-> r, part |-> i, size |-> n]
Cells(r, n) == [i \in 1..n |-> Cell(r, i, n)]
Hole == Cell(0, 0, 0)

Loc(r, off, n) == [rec |-> r, off |-> off, size |-> n]

(***************************************************************************)
(* File::pwrite: write what the kernel takes until nothing is left.        *)
(***************************************************************************)
\* f with cells at position at, which may lie before or behind its end
WrittenAt(f, at, cells) ==
    [i \in 1..(IF at + Len(cells) > Len(f) THEN at + Len(cells) ELSE Len(f)) |->
        IF i \in (at + 1)..(at + Len(cells)) THEN cells[i - at]
        ELSE IF i <= Len(f) THEN f[i] ELSE Hole]

\* Where the kernel puts a write that asks for position off
Place(off) == IF AppendMode THEN Len(file) ELSE off

Pwrite(for, off, cells) == [for |-> for, off |-> off, left |-> cells, first |-> TRUE]

PwriteSome ==
    /\ mode = "open" /\ io.for # "idle" /\ io.left # <<>>
    /\ \E m \in 1..Len(io.left) :
          /\ file' = WrittenAt(file, Place(io.off), SubSeq(io.left, 1, m))
          /\ io' = [io EXCEPT !.off = @ + m, !.first = FALSE,
                              !.left = SubSeq(@, m + 1, Len(@))]
    /\ stable' = IF dsync THEN file' ELSE stable
    /\ UNCHANGED <<cur, batch, durable, dsync, pw, ck, wm, written, acked, promised,
                   mode, found>>

\* The call returns its error; batch_buf_ and current_offset_ stay as they are.
PwriteError ==
    /\ mode = "open" /\ io.for # "idle" /\ io.left # <<>>
    /\ (IF io.for = "put" THEN "put" ELSE "batch") \in Fails
    /\ Torn \/ io.first
    /\ io' = Idle /\ pw' = <<>>
    /\ UNCHANGED <<file, stable, cur, batch, durable, dsync, ck, wm, written, acked,
                   promised, mode, found>>

\* What durable_writes_ makes of a write that has ended at offset end
DurableAfterWrite(end) == IF dsync THEN end ELSE durable
PromisedAfter(locs) == IF dsync THEN promised \cup locs ELSE promised

(***************************************************************************)
(* write_encoded: a put, or a group of them                                *)
(***************************************************************************)
Ready == mode = "open" /\ io.for = "idle"          \* write_mu_ is free

WriteEncoded ==
    /\ Ready /\ pw = <<>> /\ written < MaxRecords
    /\ \E n \in Sizes : io' = Pwrite("put", cur, Cells(written + 1, n))
    /\ written' = written + 1
    /\ UNCHANGED <<file, stable, cur, batch, durable, dsync, pw, ck, wm, acked,
                   promised, mode, found>>

WriteEncodedDone ==
    /\ mode = "open" /\ io.for = "put" /\ io.left = <<>>
    /\ LET put == Loc(written, cur, io.off - cur)
       IN /\ acked' = acked \cup {put}
          /\ promised' = PromisedAfter({put})
    /\ cur' = io.off /\ durable' = DurableAfterWrite(io.off)
    /\ io' = Idle
    /\ UNCHANGED <<file, stable, batch, dsync, pw, ck, wm, written, mode, found>>

(***************************************************************************)
(* put_batch: write_buffered for every record, then flush_batch            *)
(***************************************************************************)
\* flush_batch: batch_buf_ belongs in front of current_offset_.
FlushOffset(b, end) == end - Len(b)

AfterBuffered_Unmoved(n) == cur
AfterBuffered(n) == cur + n

WriteBuffered ==
    /\ Ready /\ written < MaxRecords
    /\ \E n \in Sizes :
          LET buf == batch \o Cells(written + 1, n)
          IN /\ batch' = buf /\ cur' = AfterBuffered(n)
             /\ pw' = Append(pw, Loc(written + 1, cur, n))
             /\ io' = IF Len(buf) >= FlushAt
                      THEN Pwrite("full", FlushOffset(buf, AfterBuffered(n)), buf) ELSE Idle
    /\ written' = written + 1
    /\ UNCHANGED <<file, stable, durable, dsync, ck, wm, acked, promised, mode, found>>

\* write_buffered over its threshold
FullDone ==
    /\ mode = "open" /\ io.for = "full" /\ io.left = <<>>
    /\ batch' = <<>> /\ durable' = DurableAfterWrite(cur) /\ io' = Idle
    /\ UNCHANGED <<file, stable, cur, dsync, pw, ck, wm, written, acked, promised,
                   mode, found>>

FlushBatch ==
    /\ Ready /\ pw # <<>>
    /\ io' = Pwrite("commit", FlushOffset(batch, cur), batch)
    /\ UNCHANGED <<file, stable, cur, batch, durable, dsync, pw, ck, wm, written, acked,
                   promised, mode, found>>

FlushBatchDone ==
    /\ mode = "open" /\ io.for = "commit" /\ io.left = <<>>
    /\ LET all == {pw[i] : i \in DOMAIN pw}
       IN acked' = acked \cup all /\ promised' = PromisedAfter(all)
    /\ batch' = <<>> /\ pw' = <<>> /\ io' = Idle
    /\ durable' = IF batch = <<>> THEN durable ELSE DurableAfterWrite(cur)
    /\ UNCHANGED <<file, stable, cur, dsync, ck, wm, written, mode, found>>

(***************************************************************************)
(* sync, and the checkpoint's sync_fd_only on another thread               *)
(***************************************************************************)
Sync ==
    /\ Ready /\ pw = <<>>
    /\ io' = Pwrite("sync", FlushOffset(batch, cur), batch)
    /\ UNCHANGED <<file, stable, cur, batch, durable, dsync, pw, ck, wm, written, acked,
                   promised, mode, found>>

Fsynced(mark) == stable' = file /\ durable' = mark
SyncDone ==
    /\ mode = "open" /\ io.for = "sync" /\ io.left = <<>>
    /\ batch' = <<>> /\ io' = Idle
    /\ \/ Fsynced(cur) /\ promised' = acked
       \/ "fsync" \in Fails /\ UNCHANGED <<stable, durable, promised>>
    /\ UNCHANGED <<file, cur, dsync, pw, ck, wm, written, acked, mode, found>>

\* collect_snapshot_watermarks: the size of the file first
Stat ==
    /\ mode = "open" /\ ck = NoCkpt /\ ck' = Len(file)
    /\ CkptBeside \/ (Ready /\ pw = <<>>)
    /\ UNCHANGED <<file, stable, cur, batch, durable, dsync, io, pw, wm, written, acked,
                   promised, mode, found>>

\* The CAS loop of sync_fd_only
Raised_Cursor(sz) == IF cur > durable THEN cur ELSE durable
Raised(sz) == IF sz > durable THEN sz ELSE durable

Clamped(sz, d) == IF sz < d THEN sz ELSE d

SyncFdOnly ==
    /\ mode = "open" /\ ck # NoCkpt
    /\ CkptBeside \/ ck = Len(file)
    /\ \/ Fsynced(Raised(ck))
       \/ "fsync" \in Fails /\ UNCHANGED <<stable, durable>>
    /\ wm' = Clamped(ck, durable')
    /\ ck' = NoCkpt
    /\ UNCHANGED <<file, cur, batch, dsync, io, pw, written, acked, promised, mode, found>>

(***************************************************************************)
(* A crash, and the fold of the recovery                                   *)
(***************************************************************************)
\* A power loss spares what is stable and any longer part of the file; a
\* cell that was written over since may be the old or the new one.
AfterPowerLoss ==
    UNION {{f \in [1..n -> {file[i] : i \in 1..n} \cup {stable[i] : i \in DOMAIN stable}] :
               \A i \in 1..n : f[i] = file[i] \/ (i <= Len(stable) /\ f[i] = stable[i])} :
           n \in Len(stable)..Len(file)}

Crash ==
    /\ mode = "open" /\ mode' = "crashed"
    /\ \/ UNCHANGED <<file, promised>> /\ acked' = acked
       \/ file' \in AfterPowerLoss /\ acked' = promised /\ UNCHANGED promised
    /\ io' = Idle /\ pw' = <<>> /\ batch' = <<>> /\ ck' = NoCkpt
    /\ UNCHANGED <<stable, cur, durable, dsync, wm, written, found>>

\* Is a whole record at offset p of f?
WholeAt(f, p) ==
    LET n == f[p + 1].size
    IN \A i \in 1..n : f[p + i] = Cell(f[p + 1].rec, i, n)

\* Does the record whose header is at p end inside the file?
Fits_Strictly(f, p) == p + f[p + 1].size < Len(f)
Fits(f, p) == p + f[p + 1].size <= Len(f)

\* DataFile::fold from an offset: the records it delivers and the end of the
\* last one.  Between two records it meets a length that leads past the end.
FoldFrom(f, start) ==
    LET fold[p \in 0..Len(f)] ==
            IF p = Len(f) \/ f[p + 1].part # 1 \/ ~Fits(f, p)
            THEN [recs |-> {}, lve |-> 0]
            ELSE LET n    == f[p + 1].size
                     rest == fold[p + n]
                 IN IF WholeAt(f, p)
                    THEN [recs |-> rest.recs \cup {Loc(f[p + 1].rec, p, n)},
                          lve  |-> IF rest.lve = 0 THEN p + n ELSE rest.lve]
                    ELSE rest                           \* tolerate_crc_errors
    IN [fold[start] EXCEPT !.lve = IF @ = 0 THEN start ELSE @]

\* fold_one from the start or from a snapshot's watermark; the torn tail goes.
Recover ==
    /\ mode = "crashed" /\ mode' = "recovered"
    /\ \E start \in {0, wm} :
          LET got == FoldFrom(file, start)
          IN /\ found' = {l \in acked : l.off + l.size <= start} \cup got.recs
             /\ file' = SubSeq(file, 1, got.lve)
    /\ UNCHANGED <<stable, cur, batch, durable, dsync, io, pw, ck, wm, written, acked,
                   promised>>

Ended == mode = "recovered" /\ UNCHANGED vars

Next ==
    \/ WriteEncoded \/ WriteEncodedDone
    \/ WriteBuffered \/ FullDone \/ FlushBatch \/ FlushBatchDone
    \/ PwriteSome \/ PwriteError
    \/ Sync \/ SyncDone \/ Stat \/ SyncFdOnly
    \/ Crash \/ Recover \/ Ended

Spec == Init /\ [][Next]_vars

(***************************************************************************)
(* Properties                                                              *)
(***************************************************************************)
\* l lies in the file f, whole and where it should be.
Holds(f, l) == /\ l.off + l.size <= Len(f)
               /\ \A i \in 1..l.size : f[l.off + i] = Cell(l.rec, i, l.size)

\* OffsetsHold: a record is where the call that wrote it said (put, put_batch,
\* merge: the keydir keeps that offset and get reads there).
OffsetsHold ==
    mode = "open" => \A l \in acked : Holds(file, l)

\* DurableIsStable: durable_bytes() never claims a byte a power loss may take.
DurableIsStable ==
    mode = "open" => /\ durable <= Len(stable) /\ durable <= Len(file)
                     /\ \A i \in 1..durable : stable[i] = file[i]

\* SnapshotIsStable: what a snapshot may refer to, the records in front of its
\* watermark, survives a power loss (collect_snapshot_watermarks).
SnapshotIsStable ==
    mode = "open" => \A l \in acked : l.off + l.size <= wm => Holds(stable, l)

\* DurableNeverShrinks: sync's store and sync_fd_only's CAS-max on another
\* thread never take back a durable byte.
DurableNeverShrinks == [][durable' >= durable]_durable

\* AckedIsFound: recovery finds every record the crash had to spare, by a fold
\* from the start, or from a watermark with the records that end before it.
AckedIsFound == mode = "recovered" => acked \subseteq found
=============================================================================
