--------------------------- MODULE DataFileProofs ---------------------------
(***************************************************************************)
(* Proofs about DataFile, for records of every size, any number of them    *)
(* and any threshold of the batch buffer, on either platform: as long as a *)
(* failing write writes nothing and no batch write fails, the offsets a    *)
(* data file hands out hold, what it calls durable is stable, and a        *)
(* snapshot refers to stable records only.  DataFileTornPut and            *)
(* DataFileStaleBatch show that the offsets need both conditions.          *)
(***************************************************************************)
EXTENDS DataFile, SequenceTheorems, TLAPS

WritesAllOrNothing == ~Torn /\ "batch" \notin Fails

CellSet == [rec : Nat, part : Nat, size : Nat]
LocSet  == [rec : Nat, off : Nat, size : Nat]
IoSet   == [for : {"put", "full", "commit", "sync"}, off : Nat, left : Seq(CellSet),
            first : BOOLEAN]

(***************************************************************************)
(* The inductive invariant.  Whole is the file as it will be when the      *)
(* write in progress, or the flush of the buffer, has ended; a step of a   *)
(* pwrite does not change it.                                              *)
(***************************************************************************)
Rest  == IF io.for = "idle" THEN batch ELSE io.left
Whole == file \o Rest

Types ==
    /\ file \in Seq(CellSet) /\ stable \in Seq(CellSet) /\ batch \in Seq(CellSet)
    /\ cur \in Nat /\ durable \in Nat /\ wm \in Nat /\ written \in Nat
    /\ ck \in Nat \cup {NoCkpt}
    /\ io = Idle \/ io \in IoSet
    /\ pw \in Seq(LocSet) /\ acked \in SUBSET LocSet

\* Where the file, the buffer and the cursor stand to each other
Aligned ==
    /\ io.for = "idle" => Len(file) + Len(batch) = cur
    /\ io.for # "idle" => io.off = Len(file)
    /\ io.for \in {"full", "commit", "sync"} => Len(file) + Len(io.left) = cur
    /\ io.for = "put" => cur <= Len(file) /\ (io.first => cur = Len(file))
    /\ io.for = "sync" => io.left = <<>>
    /\ (pw = <<>> /\ io.for = "idle") \/ io.for \in {"put", "sync"} => batch = <<>> /\ pw = <<>>

\* The record a put is writing
PutHolds == io.for = "put" => Holds(Whole, Loc(written, cur, Len(Whole) - cur))
AckedHold == \A l \in acked : Holds(file, l)
PendingHold == \A i \in 1..Len(pw) : Holds(Whole, pw[i])

Prefix(s, f) == Len(s) <= Len(f) /\ \A i \in 1..Len(s) : s[i] = f[i]
Stability ==
    /\ Prefix(stable, file) /\ (dsync => stable = file)
    /\ durable <= Len(stable) /\ ck <= Len(file) /\ wm <= durable

IInv == mode = "open" => /\ Types /\ Aligned /\ PutHolds /\ AckedHold /\ PendingHold
                         /\ Stability

(***************************************************************************)
(* Sequences of cells                                                      *)
(***************************************************************************)
\* A write at the end of a file appends.
LEMMA WrittenAtEnd ==
    ASSUME NEW f \in Seq(CellSet), NEW c \in Seq(CellSet)
    PROVE  WrittenAt(f, Len(f), c) = f \o c
<1>1. /\ f \o c \in Seq(CellSet) /\ Len(f \o c) = Len(f) + Len(c)
      /\ \A i \in 1..(Len(f) + Len(c)) :
            (f \o c)[i] = IF i <= Len(f) THEN f[i] ELSE c[i - Len(f)]
  BY ConcatProperties
<1>2. \A i \in 1..(Len(f) + Len(c)) : WrittenAt(f, Len(f), c)[i] = (f \o c)[i]
  BY <1>1 DEF WrittenAt
<1>3. WrittenAt(f, Len(f), c) = [i \in 1..(Len(f) + Len(c)) |-> WrittenAt(f, Len(f), c)[i]]
  BY DEF WrittenAt
<1>4. f \o c = [i \in 1..(Len(f) + Len(c)) |-> (f \o c)[i]]
  BY <1>1, LenProperties
<1> QED
  BY <1>2, <1>3, <1>4

\* What holds in a file holds in a longer one.
LEMMA HoldsLonger ==
    ASSUME NEW f \in Seq(CellSet), NEW c \in Seq(CellSet), NEW l \in LocSet,
           Holds(f, l)
    PROVE  Holds(f \o c, l)
  BY DEF Holds, LocSet

\* Writing the first m of the remaining cells leaves the whole as it was.
LEMMA WholeKept ==
    ASSUME NEW f \in Seq(CellSet), NEW s \in Seq(CellSet), NEW m \in 1..Len(s)
    PROVE  (f \o SubSeq(s, 1, m)) \o SubSeq(s, m + 1, Len(s)) = f \o s
<1> DEFINE a == SubSeq(s, 1, m)
           b == SubSeq(s, m + 1, Len(s))
<1>1. a \in Seq(CellSet) /\ b \in Seq(CellSet)
  BY LenProperties, ElementOfSeq, SubSeqProperties
<1>2. a \o b = s
  BY ConcatAdjacentSubSeq, SubSeqFull
<1> HIDE DEF a, b
<1>3. (f \o a) \o b = f \o (a \o b)
  BY <1>1
<1> QED
  BY <1>2, <1>3 DEF a, b

\* A record's cells
LEMMA CellsType ==
    ASSUME NEW r \in Nat, NEW n \in Nat
    PROVE  /\ Cells(r, n) \in Seq(CellSet) /\ Len(Cells(r, n)) = n
           /\ \A i \in 1..n : Cells(r, n)[i] = Cell(r, i, n)
  BY DEF Cells, Cell, CellSet

\* A record appended to a file is where the file ended.
LEMMA AppendedHolds ==
    ASSUME NEW f \in Seq(CellSet), NEW r \in Nat, NEW n \in Nat
    PROVE  Holds(f \o Cells(r, n), Loc(r, Len(f), n))
  BY CellsType DEF Holds, Loc

(***************************************************************************)
(* The parts of IInv that most actions leave alone                         *)
(***************************************************************************)
Contents == <<file, stable, cur, batch, durable, dsync, io, pw, ck, wm, written, acked>>

\* A step that touches none of this keeps the invariant.
LEMMA Untouched ==
    ASSUME IInv, UNCHANGED Contents, mode' = mode
    PROVE  IInv'
  BY ZenonT(20) DEF IInv, Types, Aligned, PutHolds, AckedHold, PendingHold, Stability, Rest,
         Whole, Contents, Holds, Loc, Prefix

LEMMA InitIInv == Init => IInv
<1> SUFFICES ASSUME Init PROVE IInv
  OBVIOUS
<1> USE DEF Init, Idle, NoCkpt
<1>1. Types
  BY DEF Types
<1>2. Aligned /\ PutHolds /\ AckedHold /\ PendingHold
  BY DEF Aligned, PutHolds, AckedHold, PendingHold
<1>3. Stability
  BY DEF Stability, Prefix
<1> QED
  BY <1>1, <1>2, <1>3 DEF IInv

LEMMA WriteEncodedKeeps ==
    ASSUME IInv, WriteEncoded PROVE IInv'
<1> mode = "open" /\ Types /\ Aligned /\ AckedHold /\ Stability /\ pw = <<>>
  BY DEF WriteEncoded, Ready, IInv
<1>1. PICK n \in Sizes : io' = Pwrite("put", cur, Cells(written + 1, n))
  BY DEF WriteEncoded
<1>2. n \in Nat /\ written + 1 \in Nat /\ n > 0
  BY DataFileConstants DEF Types
<1>3. Cells(written + 1, n) \in Seq(CellSet) /\ Len(Cells(written + 1, n)) = n
  BY <1>2, CellsType
<1>4. io.for = "idle" /\ batch = <<>> /\ cur = Len(file)
  BY DEF WriteEncoded, Ready, Aligned, Types
<1>5. /\ io' \in IoSet /\ io'.for = "put" /\ io'.off = cur /\ io'.first
      /\ io'.left = Cells(written + 1, n)
  BY <1>1, <1>3 DEF Pwrite, IoSet, Types
<1>6. /\ UNCHANGED <<file, stable, cur, batch, durable, dsync, pw, ck, wm, acked, mode>>
      /\ written' = written + 1
  BY DEF WriteEncoded
<1>7. Types'
  BY <1>5, <1>6, <1>2 DEF Types
<1>8. Aligned'
  BY <1>4, <1>5, <1>6 DEF Aligned
<1>9. PutHolds'
  <2>1. Holds(file \o Cells(written + 1, n), Loc(written + 1, Len(file), n))
    BY <1>2, AppendedHolds DEF Types
  <2>2. Whole' = file \o Cells(written + 1, n)
    BY <1>5, <1>6 DEF Whole, Rest
  <2>3. Len(Whole') - cur = n
    BY <2>2, <1>3, <1>4, ConcatProperties DEF Types
  <2> QED
    BY <2>1, <2>2, <2>3, <1>4, <1>6 DEF PutHolds
<1>10. AckedHold'
  BY <1>6 DEF AckedHold, Holds
<1>11. PendingHold'
  BY <1>6 DEF PendingHold
<1>12. Stability'
  BY <1>6 DEF Stability, Prefix
<1> QED
  BY <1>7, <1>8, <1>9, <1>10, <1>11, <1>12 DEF IInv

LEMMA PwriteSomeKeeps ==
    ASSUME IInv, PwriteSome PROVE IInv'
<1> mode = "open" /\ Types /\ Aligned /\ PutHolds /\ AckedHold /\ PendingHold /\ Stability
  BY DEF PwriteSome, IInv
<1>1. io.for # "idle" /\ io \in IoSet /\ io.left # <<>> /\ io.off = Len(file)
  BY DEF PwriteSome, Types, Idle, Aligned
<1>2. PICK m \in 1..Len(io.left) :
         /\ file' = WrittenAt(file, Place(io.off), SubSeq(io.left, 1, m))
         /\ io' = [io EXCEPT !.off = @ + m, !.first = FALSE,
                             !.left = SubSeq(@, m + 1, Len(@))]
  BY DEF PwriteSome
<1> DEFINE a == SubSeq(io.left, 1, m)
           b == SubSeq(io.left, m + 1, Len(io.left))
<1>3. io.left \in Seq(CellSet) /\ file \in Seq(CellSet) /\ m \in Nat /\ m > 0
  BY <1>1 DEF IoSet, Types
<1>4. /\ a \in Seq(CellSet) /\ Len(a) = m
      /\ b \in Seq(CellSet) /\ Len(b) = Len(io.left) - m
  BY <1>3, LenProperties, ElementOfSeq, SubSeqProperties
<1>5. (file \o a) \o b = file \o io.left
  BY <1>3, WholeKept
<1>6. io'.left = b /\ io'.off = io.off + m /\ io'.for = io.for /\ io'.first = FALSE
  BY <1>1, <1>2 DEF IoSet
<1> HIDE DEF a, b
<1>7. Place(io.off) = Len(file)
  BY <1>1 DEF Place
<1>8. file' = file \o a
  BY <1>2, <1>3, <1>4, <1>7, WrittenAtEnd DEF a
<1>9. file' \in Seq(CellSet) /\ Len(file') = Len(file) + m
  BY <1>3, <1>4, <1>8, ConcatProperties
<1>10. Whole' = Whole
  BY <1>1, <1>5, <1>6, <1>8 DEF Whole, Rest
<1>11. /\ UNCHANGED <<cur, batch, durable, dsync, pw, ck, wm, written, acked, mode>>
       /\ stable' = IF dsync THEN file' ELSE stable
  BY DEF PwriteSome
<1>12. io' \in IoSet
  <2>1. io' = [for |-> io.for, off |-> io.off + m, left |-> b, first |-> FALSE]
    BY <1>1, <1>2 DEF IoSet, b
  <2> QED
    BY <2>1, <1>1, <1>3, <1>4 DEF IoSet
<1>13. Types'
  BY <1>9, <1>11, <1>12 DEF Types
<1>14. Aligned'
  <2>2. io.for # "sync"
    BY <1>1 DEF Aligned
  <2>3. Len(file) \in Nat /\ Len(io.left) \in Nat /\ cur \in Nat
    BY <1>3, LenProperties DEF Types
  <2>4. /\ io'.for = io.for /\ io.for \in {"put", "full", "commit", "sync"}
        /\ io'.first = FALSE
    BY <1>1, <1>6 DEF IoSet
  <2>5. io'.off = Len(file')
    BY <1>1, <1>6, <1>9
  <2>6. Len(file') + Len(io'.left) = Len(file) + Len(io.left)
    <3> DEFINE left == io.left
    <3>1. Len(left) \in Nat /\ Len(b) = Len(left) - m
      BY <2>3, <1>4
    <3> HIDE DEF left
    <3>2. Len(file') + Len(b) = Len(file) + Len(left)
      BY <3>1, <2>3, <1>3, <1>9
    <3> QED
      BY <3>2, <1>6 DEF left
  <2>7. io.for = "put" => cur' <= Len(file') /\ batch' = <<>> /\ pw' = <<>>
    <3>1. Len(file) <= Len(file')
      BY <2>3, <1>3, <1>9
    <3> QED
      BY <3>1, <2>3, <1>9, <1>11, LenProperties DEF Aligned
  <2> QED
    BY <2>2, <2>4, <2>5, <2>6, <2>7, <1>11 DEF Aligned
<1>15. PutHolds'
  BY <1>6, <1>10, <1>11 DEF PutHolds, Holds, Loc
<1>16. AckedHold'
  <2> SUFFICES ASSUME NEW l \in acked PROVE Holds(file', l)
    BY <1>11 DEF AckedHold
  <2> QED
    BY <1>3, <1>4, <1>8, HoldsLonger DEF AckedHold, Types
<1>17. PendingHold'
  BY <1>10, <1>11 DEF PendingHold, Holds
<1>18. Stability'
  <2>1. Len(file) \in Nat /\ Len(stable) \in Nat
    BY LenProperties DEF Types
  <2>2. \A i \in 1..Len(file) : file'[i] = file[i]
    BY <1>3, <1>4, <1>8, <2>1, ConcatProperties
  <2>3. CASE dsync
    <3>1. stable' = file' /\ stable = file
      BY <2>3, <1>11 DEF Stability
    <3> QED
      BY <3>1, <2>1, <1>3, <1>9, <1>11 DEF Stability, Prefix, Types, NoCkpt
  <2>4. CASE ~dsync
    <3>1. stable' = stable
      BY <2>4, <1>11
    <3>2. Prefix(stable', file')
      BY <3>1, <2>1, <2>2, <1>3, <1>9 DEF Stability, Prefix
    <3> QED
      BY <3>1, <3>2, <2>4, <2>1, <1>3, <1>9, <1>11 DEF Stability, Types, NoCkpt
  <2> QED
    BY <2>3, <2>4
<1> QED
  BY <1>13, <1>14, <1>15, <1>16, <1>17, <1>18 DEF IInv

LEMMA PwriteErrorKeeps ==
    ASSUME WritesAllOrNothing, IInv, PwriteError PROVE IInv'
<1> mode = "open" /\ Types /\ Aligned /\ AckedHold /\ Stability
  BY DEF PwriteError, IInv
<1>1. io.for = "put" /\ io.first
  BY DEF PwriteError, WritesAllOrNothing
<1>2. batch = <<>> /\ cur = Len(file)
  BY <1>1 DEF Aligned
<1>3. /\ UNCHANGED <<file, stable, cur, batch, durable, dsync, ck, wm, written, acked, mode>>
      /\ io' = Idle /\ pw' = <<>>
  BY DEF PwriteError
<1>4. Types'
  BY <1>3 DEF Types
<1>5. Aligned' /\ PutHolds' /\ PendingHold'
  BY <1>2, <1>3 DEF Aligned, PutHolds, PendingHold, Idle, Types
<1>6. AckedHold' /\ Stability'
  BY <1>3 DEF AckedHold, Stability, Holds, Prefix
<1> QED
  BY <1>4, <1>5, <1>6 DEF IInv

LEMMA WriteEncodedDoneKeeps ==
    ASSUME IInv, WriteEncodedDone PROVE IInv'
<1> mode = "open" /\ Types /\ Aligned /\ PutHolds /\ AckedHold /\ Stability
  BY DEF WriteEncodedDone, IInv
<1> DEFINE put == Loc(written, cur, io.off - cur)
<1>1. io.for = "put" /\ io.left = <<>> /\ io.off = Len(file) /\ cur <= Len(file)
  BY DEF WriteEncodedDone, Aligned
<1>2. batch = <<>> /\ pw = <<>>
  BY <1>1 DEF Aligned
<1>3. Len(file) \in Nat /\ io.off - cur \in Nat
  BY <1>1, LenProperties DEF Types
<1>4. Whole = file
  BY <1>1, ConcatEmptySeq DEF Whole, Rest, Types
<1>5. Holds(file, put) /\ put \in LocSet
  BY <1>1, <1>3, <1>4 DEF PutHolds, Loc, LocSet, Types
<1> HIDE DEF put
<1>6. /\ UNCHANGED <<file, stable, batch, dsync, pw, ck, wm, written, mode>>
      /\ acked' = acked \cup {put} /\ cur' = io.off /\ io' = Idle
      /\ durable' = IF dsync THEN io.off ELSE durable
  BY DEF WriteEncodedDone, DurableAfterWrite, put
<1>7. Types'
  BY <1>1, <1>3, <1>5, <1>6 DEF Types
<1>8. Aligned' /\ PutHolds' /\ PendingHold'
  BY <1>1, <1>2, <1>3, <1>6 DEF Aligned, PutHolds, PendingHold, Idle
<1>9. AckedHold'
  BY <1>5, <1>6 DEF AckedHold
<1>10. Stability'
  <2>1. durable <= durable' /\ durable' <= Len(stable)
    BY <1>1, <1>3, <1>6, LenProperties DEF Stability, Types
  <2>2. wm <= durable'
    BY <2>1, <1>6, <1>7 DEF Stability, Types
  <2> QED
    BY <2>1, <2>2, <1>6 DEF Stability, Prefix
<1> QED
  BY <1>7, <1>8, <1>9, <1>10 DEF IInv

LEMMA WriteBufferedKeeps ==
    ASSUME IInv, WriteBuffered PROVE IInv'
<1> mode = "open" /\ Types /\ Aligned /\ AckedHold /\ PendingHold /\ Stability
  BY DEF WriteBuffered, Ready, IInv
<1> DEFINE r == written + 1
<1>1. PICK n \in Sizes :
         /\ batch' = batch \o Cells(r, n) /\ cur' = cur + n
         /\ pw' = Append(pw, Loc(r, cur, n))
         /\ io' = IF Len(batch') >= FlushAt
                  THEN Pwrite("full", FlushOffset(batch', cur + n), batch') ELSE Idle
  BY DEF WriteBuffered, AfterBuffered
<1>2. n \in Nat /\ r \in Nat
  BY DataFileConstants DEF Types
<1>3. Cells(r, n) \in Seq(CellSet) /\ Len(Cells(r, n)) = n
  BY <1>2, CellsType
<1>4. io.for = "idle" /\ cur = Len(file) + Len(batch) /\ Whole = file \o batch
  BY DEF WriteBuffered, Ready, Aligned, Whole, Rest
<1>5. /\ UNCHANGED <<file, stable, durable, dsync, ck, wm, acked, mode>>
      /\ written' = r
  BY DEF WriteBuffered
<1>6. /\ Len(file) \in Nat /\ Len(batch) \in Nat
      /\ batch' \in Seq(CellSet) /\ Len(batch') = Len(batch) + n
  BY <1>1, <1>2, <1>3, ConcatProperties, LenProperties DEF Types
<1>7. io' = Idle \/ io' = Pwrite("full", Len(file), batch')
  <2>1. FlushOffset(batch', cur + n) = Len(file)
    BY <1>2, <1>4, <1>6 DEF FlushOffset
  <2> QED
    BY <1>1, <2>1
<1>8. io' = Idle \/ io' \in IoSet
  <2>1. Pwrite("full", Len(file), batch') \in IoSet
    BY <1>6 DEF Pwrite, IoSet
  <2> QED
    BY <1>7, <2>1
<1>9. Loc(r, cur, n) \in LocSet
  BY <1>2 DEF Loc, LocSet, Types
<1> HIDE DEF r
<1>10. pw' \in Seq(LocSet) /\ pw' # <<>>
  BY <1>1, <1>9 DEF Types
<1>11. Types'
  BY <1>1, <1>2, <1>5, <1>6, <1>8, <1>10 DEF Types
<1>12. Aligned'
  <2>1. Len(file') + Len(batch') = cur'
    BY <1>1, <1>2, <1>4, <1>5, <1>6
  <2>2. CASE io' = Idle
    BY <2>1, <2>2, <1>10 DEF Aligned, Idle
  <2>3. CASE io' = Pwrite("full", Len(file), batch')
    <3>1. io'.for = "full" /\ io'.off = Len(file') /\ io'.left = batch'
      BY <2>3, <1>5 DEF Pwrite
    <3> QED
      BY <3>1, <2>1 DEF Aligned
  <2> QED
    BY <2>2, <2>3, <1>7
<1>13. PutHolds'
  BY <1>7 DEF PutHolds, Idle, Pwrite
<1>14. Whole' = (file \o batch) \o Cells(r, n)
  <2>1. Whole' = file \o batch'
    BY <1>5, <1>7 DEF Whole, Rest, Idle, Pwrite
  <2>2. file \o (batch \o Cells(r, n)) = (file \o batch) \o Cells(r, n)
    BY <1>3 DEF Types
  <2> QED
    BY <2>1, <2>2, <1>1
<1>15. PendingHold'
  <2>1. file \o batch \in Seq(CellSet) /\ Len(file \o batch) = cur
    BY <1>4, ConcatProperties DEF Types
  <2>2. Holds(Whole', Loc(r, cur, n))
    BY <2>1, <1>2, <1>14, AppendedHolds
  <2>3. \A i \in 1..Len(pw) : Holds(Whole', pw[i])
    <3> SUFFICES ASSUME NEW i \in 1..Len(pw) PROVE Holds(Whole', pw[i])
      OBVIOUS
    <3>1. pw[i] \in LocSet /\ Holds(file \o batch, pw[i])
      BY <1>4, ElementOfSeq DEF PendingHold, Types
    <3> QED
      BY <3>1, <2>1, <1>3, <1>14, HoldsLonger
  <2>4. \A i \in 1..Len(pw') : pw'[i] = IF i <= Len(pw) THEN pw[i] ELSE Loc(r, cur, n)
    BY <1>1, <1>9 DEF Types
  <2> QED
    BY <2>2, <2>3, <2>4, <1>1, <1>10, LenProperties DEF PendingHold, Types
<1>16. AckedHold' /\ Stability'
  BY <1>5 DEF AckedHold, Stability, Holds, Prefix
<1> QED
  BY <1>11, <1>12, <1>13, <1>15, <1>16 DEF IInv

\* A step that ends a write of the buffer empties it.
LEMMA FullDoneKeeps ==
    ASSUME IInv, FullDone PROVE IInv'
<1> mode = "open" /\ Types /\ Aligned /\ AckedHold /\ PendingHold /\ Stability
  BY DEF FullDone, IInv
<1>1. io.for = "full" /\ io.left = <<>> /\ Len(file) = cur
  <2>1. io.for = "full" /\ io.left = <<>>
    BY DEF FullDone
  <2>2. Len(file) + Len(io.left) = cur
    BY <2>1 DEF Aligned
  <2>3. Len(io.left) = 0
    BY <2>1
  <2> QED
    BY <2>1, <2>2, <2>3, LenProperties DEF Types
<1>2. /\ UNCHANGED <<file, stable, cur, dsync, pw, ck, wm, written, acked, mode>>
      /\ batch' = <<>> /\ io' = Idle /\ durable' = IF dsync THEN cur ELSE durable
  BY DEF FullDone, DurableAfterWrite
<1>3. Whole' = file /\ Whole = file
  BY <1>1, <1>2, ConcatEmptySeq DEF Whole, Rest, Types, Idle
<1>4. Types'
  BY <1>2 DEF Types
<1>5. Aligned' /\ PutHolds'
  BY <1>1, <1>2 DEF Aligned, PutHolds, Idle, Types
<1>6. PendingHold' /\ AckedHold'
  BY <1>2, <1>3 DEF PendingHold, AckedHold, Holds
<1>7. Stability'
  BY <1>1, <1>2, LenProperties DEF Stability, Prefix, Types
<1> QED
  BY <1>4, <1>5, <1>6, <1>7 DEF IInv

LEMMA FlushBatchKeeps ==
    ASSUME IInv, FlushBatch PROVE IInv'
<1> mode = "open" /\ Types /\ Aligned /\ AckedHold /\ PendingHold /\ Stability
  BY DEF FlushBatch, Ready, IInv
<1>1. io.for = "idle" /\ cur = Len(file) + Len(batch) /\ Whole = file \o batch
  BY DEF FlushBatch, Ready, Aligned, Whole, Rest
<1>2. Len(file) \in Nat /\ Len(batch) \in Nat
  BY LenProperties DEF Types
<1>3. /\ UNCHANGED <<file, stable, cur, batch, durable, dsync, pw, ck, wm, written, acked, mode>>
      /\ io' = Pwrite("commit", Len(file), batch)
  <2>1. FlushOffset(batch, cur) = Len(file)
    BY <1>1, <1>2 DEF FlushOffset
  <2> QED
    BY <2>1 DEF FlushBatch
<1>4. /\ io' \in IoSet /\ io'.for = "commit" /\ io'.off = Len(file) /\ io'.left = batch
  BY <1>2, <1>3 DEF Pwrite, IoSet, Types
<1>5. Whole' = Whole
  BY <1>1, <1>3, <1>4 DEF Whole, Rest
<1>6. Types'
  BY <1>3, <1>4 DEF Types
<1>7. Aligned' /\ PutHolds'
  BY <1>1, <1>3, <1>4 DEF Aligned, PutHolds
<1>8. PendingHold' /\ AckedHold' /\ Stability'
  BY <1>3, <1>5 DEF PendingHold, AckedHold, Stability, Holds, Prefix
<1> QED
  BY <1>6, <1>7, <1>8 DEF IInv

LEMMA FlushBatchDoneKeeps ==
    ASSUME IInv, FlushBatchDone PROVE IInv'
<1> mode = "open" /\ Types /\ Aligned /\ AckedHold /\ PendingHold /\ Stability
  BY DEF FlushBatchDone, IInv
<1> DEFINE all == {pw[i] : i \in DOMAIN pw}
<1>1. io.for = "commit" /\ io.left = <<>> /\ Len(file) = cur
  <2>1. io.for = "commit" /\ io.left = <<>>
    BY DEF FlushBatchDone
  <2>2. Len(file) + Len(io.left) = cur
    BY <2>1 DEF Aligned
  <2>3. Len(io.left) = 0
    BY <2>1
  <2> QED
    BY <2>1, <2>2, <2>3, LenProperties DEF Types
<1>2. Whole = file
  BY <1>1, ConcatEmptySeq DEF Whole, Rest, Types
<1>3. \A l \in all : l \in LocSet /\ Holds(file, l)
  BY <1>2, ElementOfSeq, LenProperties, SMTT(20) DEF PendingHold, Types
<1> HIDE DEF all
<1>4. /\ UNCHANGED <<file, stable, cur, dsync, ck, wm, written, mode>>
      /\ acked' = acked \cup all /\ batch' = <<>> /\ pw' = <<>> /\ io' = Idle
      /\ durable' = durable \/ (dsync /\ durable' = cur)
  BY DEF FlushBatchDone, DurableAfterWrite, all
<1>5. Types'
  BY <1>3, <1>4 DEF Types
<1>6. Aligned' /\ PutHolds' /\ PendingHold'
  BY <1>1, <1>4 DEF Aligned, PutHolds, PendingHold, Idle, Types
<1>7. AckedHold'
  BY <1>3, <1>4 DEF AckedHold
<1>8. Stability'
  BY <1>1, <1>4, LenProperties DEF Stability, Prefix, Types
<1> QED
  BY <1>5, <1>6, <1>7, <1>8 DEF IInv

LEMMA SyncKeeps ==
    ASSUME IInv, Sync PROVE IInv'
<1> mode = "open" /\ Types /\ Aligned /\ AckedHold /\ PendingHold /\ Stability
  BY DEF Sync, Ready, IInv
<1>1. io.for = "idle" /\ pw = <<>> /\ batch = <<>> /\ cur = Len(file)
  BY LenProperties DEF Sync, Ready, Aligned, Types
<1>2. /\ UNCHANGED <<file, stable, cur, batch, durable, dsync, pw, ck, wm, written, acked, mode>>
      /\ io' = Pwrite("sync", Len(file), <<>>)
  <2>1. FlushOffset(batch, cur) = Len(file)
    BY <1>1 DEF FlushOffset, Types
  <2> QED
    BY <1>1, <2>1 DEF Sync
<1>3. io' \in IoSet /\ io'.for = "sync" /\ io'.off = Len(file) /\ io'.left = <<>>
  BY <1>2, LenProperties DEF Pwrite, IoSet, Types
<1>4. Types'
  BY <1>2, <1>3 DEF Types
<1>5. Aligned'
  <2>1. Len(file) + Len(io'.left) = cur
    BY <1>1, <1>3, LenProperties DEF Types
  <2> QED
    BY <2>1, <1>1, <1>2, <1>3 DEF Aligned
<1>6. PutHolds' /\ PendingHold'
  BY <1>1, <1>2, <1>3 DEF PutHolds, PendingHold
<1>7. AckedHold' /\ Stability'
  BY <1>2 DEF AckedHold, Stability, Holds, Prefix
<1> QED
  BY <1>4, <1>5, <1>6, <1>7 DEF IInv

LEMMA SyncDoneKeeps ==
    ASSUME IInv, SyncDone PROVE IInv'
<1> mode = "open" /\ Types /\ Aligned /\ AckedHold /\ PendingHold /\ Stability
  BY DEF SyncDone, IInv
<1>1. io.for = "sync" /\ io.left = <<>> /\ Len(file) = cur /\ pw = <<>>
  <2>1. io.for = "sync" /\ io.left = <<>>
    BY DEF SyncDone
  <2>2. Len(file) + Len(io.left) = cur /\ pw = <<>>
    BY <2>1 DEF Aligned
  <2>3. Len(io.left) = 0
    BY <2>1
  <2> QED
    BY <2>1, <2>2, <2>3, LenProperties DEF Types
<1>2. /\ UNCHANGED <<file, cur, dsync, pw, ck, wm, written, acked, mode>>
      /\ batch' = <<>> /\ io' = Idle
      /\ (stable' = file /\ durable' = cur) \/ UNCHANGED <<stable, durable>>
  BY DEF SyncDone, Fsynced
<1>3. Types'
  BY <1>2 DEF Types
<1>4. Aligned' /\ PutHolds' /\ PendingHold'
  BY <1>1, <1>2 DEF Aligned, PutHolds, PendingHold, Idle, Types
<1>5. AckedHold'
  BY <1>2 DEF AckedHold, Holds
<1>6. Stability'
  <2>1. CASE stable' = file /\ durable' = cur
    BY <2>1, <1>1, <1>2, LenProperties DEF Stability, Prefix, Types
  <2>2. CASE UNCHANGED <<stable, durable>>
    BY <2>2, <1>2 DEF Stability, Prefix
  <2> QED
    BY <2>1, <2>2, <1>2
<1> QED
  BY <1>3, <1>4, <1>5, <1>6 DEF IInv

\* The checkpoint's two steps disturb nothing but what is durable.
LEMMA CheckpointKeeps ==
    ASSUME IInv, Stat \/ SyncFdOnly PROVE IInv'
<1> mode = "open" /\ Types /\ Aligned /\ PutHolds /\ AckedHold /\ PendingHold /\ Stability
  BY DEF Stat, SyncFdOnly, IInv
<1>1. UNCHANGED <<file, cur, batch, dsync, io, pw, written, acked, mode>>
  BY DEF Stat, SyncFdOnly
<1>2. Len(file) \in Nat /\ Len(stable) \in Nat
  BY LenProperties DEF Types
<1>3. stable' \in Seq(CellSet) /\ durable' \in Nat /\ wm' \in Nat /\ ck' \in Nat \cup {NoCkpt}
  BY <1>2 DEF Stat, SyncFdOnly, Fsynced, Raised, Clamped, Types
<1>4. Stability'
  <2>1. CASE Stat
    BY <2>1, <1>2 DEF Stat, Stability, Prefix, Types
  <2>2. CASE SyncFdOnly
    <3>1. ck \in Nat /\ ck <= Len(file) /\ ck' = NoCkpt
      BY <2>2 DEF SyncFdOnly, Stability, Types
    <3>2. wm' <= durable'
      BY <2>2, <3>1, <1>3 DEF SyncFdOnly, Clamped
    <3>3. CASE stable' = file /\ durable' = Raised(ck)
      BY <3>1, <3>2, <3>3, <1>1, <1>2 DEF Raised, Stability, Prefix, NoCkpt, Types
    <3>4. CASE UNCHANGED <<stable, durable>>
      BY <3>1, <3>2, <3>4, <1>1, <1>2 DEF Stability, Prefix, NoCkpt, Types
    <3> QED
      BY <2>2, <3>3, <3>4 DEF SyncFdOnly, Fsynced
  <2> QED
    BY <2>1, <2>2
<1>5. Types'
  BY <1>1, <1>3 DEF Types
<1>6. Aligned' /\ PutHolds' /\ AckedHold' /\ PendingHold'
  BY <1>1, ZenonT(20) DEF Aligned, PutHolds, AckedHold, PendingHold, Holds, Whole, Rest, Loc
<1> QED
  BY <1>4, <1>5, <1>6 DEF IInv

(***************************************************************************)
(* The theorems                                                            *)
(***************************************************************************)
LEMMA StepKeeps ==
    ASSUME WritesAllOrNothing, IInv, [Next]_vars PROVE IInv'
<1>1. CASE WriteEncoded      BY <1>1, WriteEncodedKeeps
<1>2. CASE WriteEncodedDone  BY <1>2, WriteEncodedDoneKeeps
<1>3. CASE WriteBuffered     BY <1>3, WriteBufferedKeeps
<1>4. CASE FullDone          BY <1>4, FullDoneKeeps
<1>5. CASE FlushBatch        BY <1>5, FlushBatchKeeps
<1>6. CASE FlushBatchDone    BY <1>6, FlushBatchDoneKeeps
<1>7. CASE PwriteSome        BY <1>7, PwriteSomeKeeps
<1>8. CASE PwriteError       BY <1>8, PwriteErrorKeeps
<1>9. CASE Sync              BY <1>9, SyncKeeps
<1>10. CASE SyncDone         BY <1>10, SyncDoneKeeps
<1>11. CASE Stat \/ SyncFdOnly  BY <1>11, CheckpointKeeps
<1>12. CASE Crash \/ Recover
  BY <1>12 DEF Crash, Recover, IInv
<1>13. CASE Ended \/ UNCHANGED vars
  BY <1>13, Untouched DEF Ended, vars, Contents
<1> QED
  BY <1>1, <1>2, <1>3, <1>4, <1>5, <1>6, <1>7, <1>8, <1>9, <1>10, <1>11, <1>12, <1>13
  DEF Next

LEMMA AlwaysIInv == ASSUME WritesAllOrNothing PROVE Spec => []IInv
  BY InitIInv, StepKeeps, PTL DEF Spec

\* The offset a put, a put_batch or a merge hands to the keydir leads to the
\* record it wrote, whole, however many short writes it took.
THEOREM OffsetsAlwaysHold == ASSUME WritesAllOrNothing PROVE Spec => []OffsetsHold
<1>1. IInv => OffsetsHold
  BY DEF IInv, AckedHold, OffsetsHold
<1> QED
  BY <1>1, AlwaysIInv, PTL

\* durable_bytes() claims only what a power loss spares: the plain store of
\* sync, the CAS-max of sync_fd_only and the O_DSYNC shortcut all keep that.
THEOREM DurableAlwaysStable == ASSUME WritesAllOrNothing PROVE Spec => []DurableIsStable
<1>1. IInv => DurableIsStable
  <2> SUFFICES ASSUME IInv, mode = "open" PROVE DurableIsStable
    BY DEF DurableIsStable
  <2>1. Types /\ Stability
    BY DEF IInv
  <2> QED
    BY <2>1, LenProperties DEF Types, Stability, Prefix, DurableIsStable
<1> QED
  BY <1>1, AlwaysIInv, PTL

\* A record in front of the watermark a checkpoint captured survives a power
\* loss, so that a snapshot never refers to one that is gone.
THEOREM SnapshotAlwaysStable == ASSUME WritesAllOrNothing PROVE Spec => []SnapshotIsStable
<1>1. IInv => SnapshotIsStable
  <2> SUFFICES ASSUME IInv, mode = "open", NEW l \in acked, l.off + l.size <= wm
               PROVE  Holds(stable, l)
    BY DEF SnapshotIsStable
  <2>1. Types /\ Stability /\ AckedHold
    BY DEF IInv
  <2>2. l \in LocSet /\ Holds(file, l)
    BY <2>1 DEF Types, AckedHold
  <2>3. l.off \in Nat /\ l.size \in Nat /\ Len(stable) \in Nat /\ Len(file) \in Nat
    BY <2>1, <2>2, LenProperties DEF LocSet, Types
  <2>4. l.off + l.size <= Len(stable)
    BY <2>1, <2>3 DEF Types, Stability
  <2>5. \A i \in 1..l.size : stable[l.off + i] = file[l.off + i]
    <3> DEFINE off == l.off
               size == l.size
               n == Len(stable)
    <3>1. /\ off \in Nat /\ size \in Nat /\ n \in Nat /\ off + size <= n
          /\ \A i \in 1..n : stable[i] = file[i]
      BY <2>1, <2>3, <2>4 DEF Stability, Prefix
    <3> HIDE DEF off, size, n
    <3>2. \A i \in 1..size : off + i \in 1..n
      BY <3>1
    <3> QED
      BY <3>1, <3>2 DEF off, size
  <2> QED
    BY <2>2, <2>4, <2>5 DEF Holds
<1> QED
  BY <1>1, AlwaysIInv, PTL
=============================================================================
