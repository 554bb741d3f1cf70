---------------------------- MODULE OrderedIndex ----------------------------
(***************************************************************************)
(* The ordered key index (src/fileops/oki_state.cpp) as the authority of a *)
(* keydir that keeps only a part of its keys in memory ("Level B",         *)
(* keydir_cache_entries > 0): its memory delta, its runs and its manifest, *)
(* the look-up through hash, delta and runs, eviction and warm fill        *)
(* (src/keydir/keydir.cpp), the flushes that checkpoint, merge and the     *)
(* write path make (src/cask/cask.cpp), and recovery after a crash.        *)
(*                                                                         *)
(* The log is the sequence of records ever written; a record's ord is its  *)
(* place in it, from 1.  A row says of a key: the ord of its last record,  *)
(* whether that is a tombstone, and where it is: "o", where it was first   *)
(* written, or "m", the copy a merge made of it.  All keys share a shard.  *)
(* A writer's append, hash update and delta row are one action (write_mu_, *)
(* then the shard lock); their order beside a crash is Store's subject.    *)
(***************************************************************************)
EXTENDS Integers, Sequences, FiniteSets, FiniteSetsExt

CONSTANTS
    Keys,
    Budget,      \* keydir_cache_entries, of the one shard
    RunLimit,    \* kCompactRunLimit
    MaxLog,      \* bound: records
    MaxFile,     \* bound: data files the writer rolls through
    MaxJobs,     \* bound: flushes, checkpoints and merges started
    MaxCrash     \* bound: crashes

OrderedIndexAssumption ==
    /\ IsFiniteSet(Keys) /\ Budget \in Nat \ {0} /\ RunLimit \in Nat \ {0}
    /\ {MaxLog, MaxFile, MaxJobs, MaxCrash} \subseteq Nat

VARIABLES
    log,      \* the records written that have not been lost: [key, tomb, file]
    disk,     \* how many of them are durable, which have a copy, which originals
              \* are unlinked; the manifest with its runs, and keydir.snap
    hash,     \* the entries in memory
    oki,      \* delta_, the published runs, wm_
    job,      \* the checkpoint, merge or threshold flush in progress
    retired,  \* originals in retired_files_
    reader,   \* one call of KeyDir::locate
    used      \* jobs and crashes so far

vars == <<log, disk, hash, oki, job, retired, reader, used>>

NoRow  == [ord |-> 0, tomb |-> TRUE, loc |-> "none"]
NoRun  == [k \in Keys |-> NoRow]
NoSnap == [rows |-> NoRun, next |-> 1, upto |-> 0, copies |-> {}]
Idle   == [who |-> "none", pc |-> "idle", upto |-> 0, active |-> 0, copies |-> {}, n |-> 0,
           inputs |-> {}, todo |-> {}, unlink |-> FALSE]
NoRead == [pc |-> "idle", key |-> CHOOSE k \in Keys : TRUE, clean |-> FALSE,
           row |-> NoRow, truths |-> {}]

Init ==
    /\ log = <<>>
    /\ disk = [durable |-> 0, copies |-> {}, gone |-> {}, active |-> 1,
               runs |-> <<>>, wm |-> 1, snap |-> NoSnap]
    /\ hash = NoRun
    /\ oki = [delta |-> <<>>, runs |-> <<>>, wm |-> 1]
    /\ job = Idle /\ retired = {} /\ reader = NoRead
    /\ used = [jobs |-> 0, crashes |-> 0]

\* The last record of a key, 0 if it has none or is removed.
LastOf(l, k) == Max({0} \union {i \in DOMAIN l : l[i].key = k})
Truth(l, k) == IF LastOf(l, k) = 0 \/ l[LastOf(l, k)].tomb THEN 0 ELSE LastOf(l, k)

Row(l, i, copies) ==
    [ord |-> i, tomb |-> l[i].tomb,
     loc |-> IF l[i].tomb THEN "none" ELSE IF i \in copies THEN "m" ELSE "o"]

-----------------------------------------------------------------------------
(* The look-up: delta, then the runs from the newest.                      *)

\* index_row_locked: the greatest ord, of equal ords the latest to arrive.
Winner(rows, k) ==
    LET mine == {i \in DOMAIN rows : rows[i].key = k}
        w == CHOOSE i \in mine : \A j \in mine :
                 rows[i].ord > rows[j].ord \/ (rows[i].ord = rows[j].ord /\ i >= j)
    IN  IF mine = {} THEN NoRow
        ELSE [ord |-> rows[w].ord, tomb |-> rows[w].tomb, loc |-> rows[w].loc]

InRuns(runs, k) ==
    LET has == {g \in DOMAIN runs : runs[g][k] # NoRow}
    IN  IF has = {} THEN NoRow ELSE runs[Max(has)][k]

Cold(o, k) == IF Winner(o.delta, k) # NoRow THEN Winner(o.delta, k) ELSE InRuns(o.runs, k)

\* KeyDir::locate: a live row of the hash decides; a tombstone does not.
Locate(k) == IF ~hash[k].tomb THEN hash[k] ELSE Cold(oki, k)

\* append, with its watermark gate, and append_update, without.
Keyed(k, row) == [key |-> k, ord |-> row.ord, tomb |-> row.tomb, loc |-> row.loc]
NoteRow(o, k, row) == [o EXCEPT !.delta = Append(@, Keyed(k, row))]
Note(o, k, row) == IF row.ord < o.wm THEN o ELSE NoteRow(o, k, row)

-----------------------------------------------------------------------------
(* Writers.                                                                *)

Cached(h) == {k \in Keys : h[k] # NoRow}

\* maybe_evict_locked: sampling may choose any victim but the entry just made.
Shrunk(h, keep) ==
    LET over == Max({0, Cardinality(Cached(h)) - Budget})
    IN  {[k \in Keys |-> IF k \in out THEN NoRow ELSE h[k]] :
            out \in kSubset(over, Cached(h) \ {keep})}

\* The reader's call sees the write, and so does its shard's count of writes.
Seen(l, k) ==
    reader' = [reader EXCEPT !.clean = FALSE,
                  !.truths = IF reader.pc # "idle" /\ reader.key = k
                             THEN @ \union {Truth(l, k)} ELSE @]

Writable == job.who # "threshold" /\ Len(log) < MaxLog

Put(k) ==
    LET l == log \o <<[key |-> k, tomb |-> FALSE, file |-> disk.active]>>
        row == Row(l, Len(l), {})
    IN  /\ Writable
        /\ log' = l
        /\ oki' = Note(oki, k, row)
        /\ hash' \in Shrunk([hash EXCEPT ![k] = row], k)
        /\ Seen(l, k)
        /\ UNCHANGED <<disk, job, retired, used>>

\* A remove of a key the hash does not know leaves only the delta's row.
Remove(k) ==
    LET l == log \o <<[key |-> k, tomb |-> TRUE, file |-> disk.active]>>
        row == Row(l, Len(l), {})
    IN  /\ Writable
        /\ log' = l
        /\ oki' = Note(oki, k, row)
        /\ hash' = IF hash[k].tomb THEN hash ELSE [hash EXCEPT ![k] = row]
        /\ Seen(l, k)
        /\ UNCHANGED <<disk, job, retired, used>>

\* The active file is sealed with an fsync, and the next one begun.
Roll ==
    /\ Writable /\ disk.active < MaxFile /\ \E i \in DOMAIN log : log[i].file = disk.active
    /\ disk' = [disk EXCEPT !.durable = Len(log), !.active = @ + 1]
    /\ UNCHANGED <<log, hash, oki, job, retired, reader, used>>

-----------------------------------------------------------------------------
(* KeyDir::locate, beside all of this.                                     *)

Begin(k) ==
    /\ reader.pc = "idle"
    /\ reader' = [pc |-> "probe", key |-> k, clean |-> TRUE, row |-> NoRow,
                  truths |-> {Truth(log, k)}]
    /\ UNCHANGED <<log, disk, hash, oki, job, retired, used>>

ReadStep(pc, next) ==
    /\ reader.pc = pc
    /\ reader' = next
    /\ UNCHANGED <<log, disk, hash, oki, job, retired, used>>

GoOn(pc, row) == [reader EXCEPT !.pc = pc, !.row = row]

Probe == LET row == hash[reader.key]
         IN  ReadStep("probe", IF row.tomb THEN GoOn("delta", NoRow) ELSE NoRead)
ReadDelta == LET row == Winner(oki.delta, reader.key)
             IN  ReadStep("delta", GoOn(IF row = NoRow THEN "runs" ELSE "cold", row))
ReadRuns == ReadStep("runs", GoOn("cold", InRuns(oki.runs, reader.key)))

\* cache_fill, when the second-hit gate lets a live row through.
MayFill == ~reader.row.tomb /\ reader.clean /\ hash[reader.key] = NoRow

Fill ==
    /\ reader.pc = "cold" /\ MayFill
    /\ hash' \in Shrunk([hash EXCEPT ![reader.key] = reader.row], reader.key)
    /\ reader' = NoRead
    /\ UNCHANGED <<log, disk, oki, job, retired, used>>

NoFill == ReadStep("cold", NoRead)

-----------------------------------------------------------------------------
(* Checkpoint, merge and the write path's threshold flush: one at a time.  *)

Sealed == {i \in DOMAIN log : log[i].file < disk.active} \ disk.gone
Goto(pc) == job' = [job EXCEPT !.pc = pc]

\* drain_retired_files, then checkpoint() or merge().
Start ==
    /\ job.who = "none" /\ used.jobs < MaxJobs
    /\ retired' = {}
    /\ used' = [used EXCEPT !.jobs = @ + 1]

StartCheckpoint ==
    /\ Start
    /\ disk' = [disk EXCEPT !.gone = @ \union retired]
    /\ job' = [Idle EXCEPT !.who = "checkpoint", !.pc = "capture"]
    /\ UNCHANGED <<log, hash, oki, reader>>

\* The write path, which holds write_mu_: sync, then a flush that holds back
\* nothing.
StartThreshold ==
    /\ job.who = "none" /\ used.jobs < MaxJobs /\ oki.delta # <<>>
    /\ disk' = [disk EXCEPT !.durable = Len(log)]
    /\ job' = [Idle EXCEPT !.who = "threshold", !.pc = "copy", !.upto = Len(log)]
    /\ used' = [used EXCEPT !.jobs = @ + 1]
    /\ UNCHANGED <<log, hash, oki, retired, reader>>

\* run_merge: every sealed file, what is live of it copied and synced.
StartMerge ==
    /\ Start
    /\ LET inputs == Sealed \ retired
           live == {i \in inputs : Locate(log[i].key) = [ord |-> i, tomb |-> FALSE, loc |-> "o"]}
       IN  /\ inputs # {}
           /\ disk' = [disk EXCEPT !.gone = @ \union retired, !.copies = @ \union live]
           /\ job' = [Idle EXCEPT !.who = "merge", !.pc = "relocate", !.inputs = inputs,
                                  !.todo = live]
    /\ UNCHANGED <<log, hash, oki, reader>>

\* The put that moves a key, on the old location: in the hash, or in the cold
\* view of a key the hash does not hold.
Relocate(i) ==
    LET k == log[i].key
        old == [ord |-> i, tomb |-> FALSE, loc |-> "o"]
        new == [old EXCEPT !.loc = "m"]
        warm == hash[k] = old
        cold == hash[k] = NoRow /\ Cold(oki, k) = old
    IN  /\ job.pc = "relocate" /\ i \in job.todo
        /\ job' = [job EXCEPT !.todo = @ \ {i}]
        /\ hash' = IF warm THEN [hash EXCEPT ![k] = new] ELSE hash
        /\ oki' = IF warm \/ cold THEN NoteRow(oki, k, new) ELSE oki
        /\ reader' = [reader EXCEPT !.clean = FALSE]
        /\ UNCHANGED <<log, disk, retired, used>>

\* collect_snapshot_watermarks: the active file's is what it could sync, all of
\* it (a call that fails at the operating system is not modelled).
Capture ==
    /\ job.pc = "capture" \/ (job.pc = "relocate" /\ job.todo = {})
    /\ disk' = [disk EXCEPT !.durable = Len(log)]
    /\ job' = [job EXCEPT !.upto = Len(log), !.active = disk.active, !.copies = disk.copies,
                          !.unlink = job.pc = "relocate",
                          !.pc = IF job.pc = "relocate" THEN "copy" ELSE "save"]
    /\ UNCHANGED <<log, hash, oki, retired, reader, used>>

\* Does the record lie beyond the watermark of its file?  A file the
\* watermarks do not name has none.
Beyond(row) == row.loc = "o" /\ log[row.ord].file <= job.active /\ row.ord > job.upto

SaveSnapshot ==
    /\ job.pc = "save"
    /\ disk' = [disk EXCEPT !.snap =
                  [rows |-> [k \in Keys |-> IF hash[k].tomb \/ Beyond(hash[k]) THEN NoRow
                                            ELSE hash[k]],
                   next |-> Len(log) + 1, upto |-> job.upto, copies |-> job.copies]]
    /\ Goto("copy")
    /\ UNCHANGED <<log, hash, oki, retired, reader, used>>

-----------------------------------------------------------------------------
(* OkiState::flush.                                                        *)

\* flush_mu_ is taken and delta_ copied.
CopyPrefix ==
    /\ job.pc = "copy"
    /\ job' = [job EXCEPT !.n = Len(oki.delta), !.pc = "write"]
    /\ UNCHANGED <<log, disk, hash, oki, retired, reader, used>>

Prefix == SubSeq(oki.delta, 1, job.n)
Flushed == SelectSeq(Prefix, LAMBDA row : ~Beyond(row))
Held == SelectSeq(Prefix, Beyond)

NewRun == [k \in Keys |-> Winner(Flushed, k)]
Cover_TooFar(ords) == Max(ords) + 2
Cover(ords) == Max(ords) + 1

\* flush returns.  merge() goes on to retire its inputs, if the flush succeeded,
\* and to the snapshot of write_keydir_snapshot.
EndFlush(ok) ==
    /\ job' = IF job.unlink THEN [job EXCEPT !.pc = "capture", !.unlink = FALSE] ELSE Idle
    /\ retired' = IF job.unlink /\ ok THEN retired \union job.inputs ELSE retired

\* The run is written, the manifest replaced (the commit point), the list of
\* runs published and the watermark raised.
Commit ==
    /\ job.pc = "write" /\ Flushed # <<>>
    /\ LET runs == oki.runs \o <<NewRun>>
           wm == Max({oki.wm, Cover({Flushed[i].ord : i \in DOMAIN Flushed})})
       IN  /\ disk' = [disk EXCEPT !.runs = runs, !.wm = wm]
           /\ oki' = [oki EXCEPT !.runs = runs, !.wm = wm]
    /\ Goto("drop")
    /\ UNCHANGED <<log, hash, retired, reader, used>>

\* Nothing to write, or an error on the way to the manifest.
FlushNothing ==
    /\ job.pc = "write"
    /\ EndFlush(Flushed = <<>>)
    /\ UNCHANGED <<log, disk, hash, oki, reader, used>>

\* What the run holds leaves the delta; rows held back and rows that came in
\* the meantime stay, in their order.
Left == Held \o SubSeq(oki.delta, job.n + 1, Len(oki.delta))

DropPrefix ==
    /\ job.pc = "drop"
    /\ oki' = [oki EXCEPT !.delta = Left]
    /\ IF Len(oki.runs) > RunLimit THEN Goto("compact") /\ UNCHANGED retired
                                   ELSE EndFlush(TRUE)
    /\ UNCHANGED <<log, disk, hash, reader, used>>

\* compact_all_locked: of a key's rows the one with the greatest ord, of equal
\* ords the newest run's; tombstones go.
Merged(runs, k) ==
    LET has == {g \in DOMAIN runs : runs[g][k] # NoRow}
        win == CHOOSE g \in has : \A h \in has :
                   runs[g][k].ord > runs[h][k].ord \/ (runs[g][k].ord = runs[h][k].ord /\ g >= h)
    IN  IF has = {} \/ runs[win][k].tomb THEN NoRow ELSE runs[win][k]

Compact ==
    /\ job.pc = "compact"
    /\ LET runs == <<[k \in Keys |-> Merged(oki.runs, k)]>>
       IN  /\ disk' = [disk EXCEPT !.runs = runs]
           /\ oki' = [oki EXCEPT !.runs = runs]
    /\ EndFlush(TRUE)
    /\ UNCHANGED <<log, hash, reader, used>>

CompactFails ==
    /\ job.pc = "compact"
    /\ EndFlush(TRUE)
    /\ UNCHANGED <<log, disk, hash, oki, reader, used>>

-----------------------------------------------------------------------------
(* A crash, and the open that follows.                                     *)

\* The records the fold replays: all that are on disk, or those beyond the
\* snapshot's watermarks.
OnTail(l, useSnap) ==
    {i \in DOMAIN l : /\ i \in disk.gone => i \in disk.copies
                      /\ useSnap => i > disk.snap.upto \/ i \in disk.copies \ disk.snap.copies}

\* The snapshot's entry, overtaken by the tail.  put_insert refuses a record
\* that the runs know to be old.
Recovered(l, k, useSnap, runs) ==
    LET s == IF useSnap THEN disk.snap.rows[k] ELSE NoRow
        mine == {i \in OnTail(l, useSnap) : l[i].key = k}
        last == Max({0} \union mine)
    IN  IF mine = {} \/ last < s.ord \/ (s = NoRow /\ ~l[last].tomb /\ InRuns(runs, k).ord > last)
        THEN s ELSE Row(l, last, disk.copies)

\* A subset snapshot is good only where the index covers it.
SnapshotCovered == disk.snap.next <= disk.wm

\* The tail's rows, through append.
Replayed(l, useSnap) ==
    LET tail == OnTail(l, useSnap)
    IN  SelectSeq([i \in DOMAIN l |-> Keyed(l[i].key, Row(l, i, disk.copies))],
                  LAMBDA row : row.ord \in tail /\ row.ord >= disk.wm)

\* The manifest is found as it was left, or it is not found and the index is
\* built again from the whole of the hash (finish_oki_recovery).
Crash ==
    /\ used.crashes < MaxCrash
    /\ \E n \in disk.durable..Len(log), lost \in BOOLEAN :
          LET l == SubSeq(log, 1, n)
              useSnap == ~lost /\ SnapshotCovered
              runs == IF lost THEN <<>> ELSE disk.runs
              full == [k \in Keys |-> Recovered(l, k, useSnap, runs)]
              live == [k \in Keys |-> IF full[k].tomb THEN NoRow ELSE full[k]]
              o == IF lost
                   THEN [delta |-> <<>>, wm |-> n + 1,
                         runs |-> IF live = NoRun THEN <<>> ELSE <<live>>]
                   ELSE [delta |-> Replayed(l, useSnap), wm |-> disk.wm, runs |-> runs]
          IN  /\ log' = l
              /\ oki' = o
              /\ disk' = [disk EXCEPT !.durable = n, !.active = @ + 1, !.runs = o.runs,
                                      !.wm = o.wm]
              /\ hash' \in Shrunk(full, CHOOSE k \in Keys : TRUE)
    /\ job' = Idle /\ retired' = {} /\ reader' = NoRead
    /\ used' = [used EXCEPT !.crashes = @ + 1]

Next ==
    \/ \E k \in Keys : Put(k) \/ Remove(k) \/ Begin(k)
    \/ Roll \/ Probe \/ ReadDelta \/ ReadRuns \/ Fill \/ NoFill
    \/ StartCheckpoint \/ StartThreshold \/ StartMerge
    \/ \E i \in job.todo : Relocate(i)
    \/ Capture \/ SaveSnapshot \/ CopyPrefix \/ Commit \/ FlushNothing \/ DropPrefix
    \/ Compact \/ CompactFails \/ Crash

Spec == Init /\ [][Next]_vars

-----------------------------------------------------------------------------
(* Properties.                                                             *)

Rows == [ord : 0..MaxLog, tomb : BOOLEAN, loc : {"none", "o", "m"}]

\* The variables have their types.
TypeOK ==
    /\ log \in Seq([key : Keys, tomb : BOOLEAN, file : 1..(MaxFile + MaxCrash)])
    /\ disk.durable \in 0..Len(log) /\ disk.copies \union disk.gone \subseteq DOMAIN log
    /\ hash \in [Keys -> Rows]
    /\ oki.delta \in Seq([key : Keys, ord : 1..MaxLog, tomb : BOOLEAN, loc : {"none", "o", "m"}])
    /\ oki.runs \in Seq([Keys -> Rows]) /\ oki.wm \in 1..(MaxLog + 1)
    /\ job.pc \in {"idle", "relocate", "capture", "save", "copy", "write", "drop", "compact"}
    /\ retired \subseteq DOMAIN log
    /\ reader.pc \in {"idle", "probe", "delta", "runs", "cold"}
    /\ used \in [jobs : 0..MaxJobs, crashes : 0..MaxCrash]

Readable(row) == row.tomb \/ row.loc = "m" \/ row.ord \notin disk.gone
Live(row) == IF row.tomb THEN 0 ELSE row.ord

\* Delta and runs together know, of every key, what the log says of it, and
\* where: with the hash empty nothing would be lost (keydir.cpp, evict; the
\* flush publishes the runs before it drops the prefix).
ColdIsTruth ==
    \A k \in Keys : LET row == Cold(oki, k)
                    IN  Live(row) = Truth(log, k) /\ Readable(row)

\* An entry in memory is the truth: no fill from the cold side puts back what a
\* writer has replaced (keydir.cpp, cache_fill), no replay does.
HashIsTruth ==
    \A k \in Keys : hash[k] # NoRow => Live(hash[k]) = Truth(log, k) /\ Readable(hash[k])

\* A look-up answers what was true at some moment of the call, whatever flush,
\* eviction, merge and writers did between its steps.
AnswersCurrent ==
    LET answer == IF reader.pc = "cold" THEN reader.row ELSE hash[reader.key]
    IN  reader.pc = "cold" \/ (reader.pc = "probe" /\ ~answer.tomb)
           => Live(answer) \in reader.truths

\* The watermark stays within what the log will still hold after a crash, so
\* that no ord is given out below it (oki_state.hpp, flush: held rows have the
\* highest ords).
WatermarkDurable == oki.wm <= disk.durable + 1
=============================================================================
