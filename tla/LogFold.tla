------------------------------ MODULE LogFold ------------------------------
(***************************************************************************)
(* What a data file holds, what a fold of it finds, and what the keydir    *)
(* does with one record: the pure part of src/fileops/data_file.cpp,       *)
(* src/fileops/hint_file.cpp and src/keydir/keydir.cpp that the Store      *)
(* module is built from.                                                   *)
(*                                                                         *)
(* A data file is a sequence of records; an offset is a position in it.    *)
(* KeyDir.tla shows that a put or a remove takes effect at one point, so   *)
(* here each is one step on a keydir that maps every key to one entry.     *)
(* A value is known by its version: the h-th write of its key.             *)
(***************************************************************************)
EXTENDS Integers, Sequences, FiniteSets

Larger(a, b) == IF a < b THEN b ELSE a

(***************************************************************************)
(* Records: RecordType::kDoc, kTombstone and kBatchHeader                  *)
(***************************************************************************)
IsPut(r)  == r.kind = "put"
IsTomb(r) == r.kind = "tomb"
IsHead(r) == r.kind = "head"

\* A batch header declares how many records follow it (span_bytes).
BatchHeader(o, n) == [kind |-> "head", ord |-> o, span |-> n]

\* A batch is whole when the file holds every member its header declares.
IsCutShort(log, i) == IsHead(log[i]) /\ i + log[i].span > Len(log)

\* out_last_valid_end of a fold that starts after position from
LastValidEnd_AnyBatch(log, from) == Larger(from, Len(log))
LastValidEnd(log, from) ==
    LET cut == {i \in (from + 1)..Len(log) : IsCutShort(log, i)}
    IN IF cut = {} THEN Larger(from, Len(log))
       ELSE (CHOOSE i \in cut : \A j \in cut : i <= j) - 1

\* What the fold's callback receives, as hint rows: a position and a record
Row(log, i) == [pos |-> i, kind |-> log[i].kind, key |-> log[i].key,
                ord |-> log[i].ord, ts |-> log[i].ts]
Ascending(S) == [n \in 1..Cardinality(S) |->
                    CHOOSE x \in S : Cardinality({y \in S : y < x}) = n - 1]
RowsFrom(log, from) ==
    LET found == Ascending({i \in (from + 1)..LastValidEnd(log, from) : ~IsHead(log[i])})
    IN [n \in DOMAIN found |-> Row(log, found[n])]

(***************************************************************************)
(* Keydir entries.  A sentinel tombstone keeps the ord of its remove.      *)
(***************************************************************************)
NoEntry == [st |-> "none", file |-> 0, pos |-> 0, ts |-> 0, ord |-> 0]
Live(f, p, t, o) == [st |-> "live", file |-> f, pos |-> p, ts |-> t, ord |-> o]
Dead(o) == [st |-> "tomb", file |-> 0, pos |-> 0, ts |-> 0, ord |-> o]

IsLive(e) == e.st = "live"
IsDead(e) == e.st = "tomb"
PointsTo(e, f, p) == IsLive(e) /\ e.file = f /\ e.pos = p

\* put with newest_put: the write path
NewestAccepted(f, biggest) == f >= biggest

\* "Is the new entry newer than the current one?", newest_put = false
IsNewer(e, f, p, t) ==
    e.ts < t \/ e.file < f \/ (e.file = f /\ e.pos < p)

\* put with newest_put = false and no expected position: recovery
RecoveredAccepted(e, f, p, t, o) ==
    \/ e.st = "none"
    \/ IsDead(e) /\ (e.ord = 0 \/ o > e.ord)          \* the resurrection gate
    \/ IsLive(e) /\ IsNewer(e, f, p, t)

RecoveredPut(e, f, p, t, o) ==
    IF RecoveredAccepted(e, f, p, t, o) THEN Live(f, p, t, o) ELSE e

\* put with newest_put = false and an expected position: merge's move
MoveAccepted_Insert(e, f, p, t, oldFile, oldPos) ==
    ~IsLive(e) \/ PointsTo(e, oldFile, oldPos)
MoveAccepted(e, f, p, t, oldFile, oldPos) ==
    /\ IsLive(e) /\ (PointsTo(e, oldFile, oldPos) \/ e.file = f)
    /\ IsNewer(e, f, p, t)

\* remove: a live entry becomes a sentinel, a sentinel keeps the larger ord
Removed(e, o, insertIfAbsent) ==
    CASE IsLive(e)     -> Dead(o)
      [] IsDead(e)     -> Dead(Larger(e.ord, o))
      [] e.st = "none" -> IF insertIfAbsent THEN Dead(o) ELSE e

\* sweep_tombstones_locked may erase sentinels; which ones depends on the
\* size of their shard and on its cursor.
Sweeps(kd) == {[k \in DOMAIN kd |-> IF k \in gone THEN NoEntry ELSE kd[k]] :
                  gone \in SUBSET {k \in DOMAIN kd : IsDead(kd[k])}}
=============================================================================
