---------------------------- MODULE StoreProofs ----------------------------
(***************************************************************************)
(* Proofs about Store, for any number of keys, files, writes, recovering   *)
(* threads and crashes.                                                    *)
(***************************************************************************)
EXTENDS Store, LogFoldProofs

(***************************************************************************)
(* Types                                                                   *)
(***************************************************************************)
Item   == [kind : {"put", "tomb"}, key : Keys, ord : Nat, ts : Nat, ver : Nat]
Header == [kind : {"head"}, ord : Nat, span : Nat]
Log    == Seq(Item \cup Header)

Cell == [st : {"none", "live", "tomb"}, file : 0..MaxFile, pos : Nat, ts : Nat, ord : Nat]
Marks == UNION {[S -> Nat] : S \in SUBSET Files}
Saved == [kd : [Keys -> Cell], biggest : 0..MaxFile, nextOrd : Nat, wms : Marks]

Asking == [key : Keys, tomb : BOOLEAN, ts : Nat, ver : Nat]
Place  == [file : Files, pos : Nat, ord : Nat]
Call   == [pc : {"sync", "apply", "rewrite", "return"},
           kind : {"group", "remove", "batch", "atomic"}, recs : Seq(Asking),
           locs : Seq(Place), i : Nat, try : Nat, lost : SUBSET Nat]
Move    == [pos : Nat, rec : Item]
Copying == [pc : {"fold", "move"}, left : SUBSET Files, out : Files, pos : Nat,
            moves : Seq(Move), ins : SUBSET Files,
            stuck : SUBSET Files]
Saving  == [pc : {"save"}, wms : Marks]
Work    == {NoWork} \cup [file : Files, rows : Seq(Row0) \ {<<>>}]

Writing == wr.pc # "idle"
Copies  == mg.pc \in {"fold", "move"}

DiskTypes ==
    /\ disk \in [Files -> Log] /\ present \in SUBSET Files
    /\ durable \in [Files -> Nat] /\ hint \in [Files -> Seq(Row0)]
    /\ sealed \in SUBSET Files
    /\ snap = <<>> \/ \E s \in Saved : snap = <<s>>
IndexTypes ==
    /\ mode \in {"open", "closed", "recovering"}
    /\ kd \in [Keys -> Cell] /\ biggest \in 0..MaxFile /\ nextOrd \in Nat
    /\ active \in 0..MaxFile /\ retired \in Seq(Files)
CallTypes ==
    \/ wr = Idle
    \/ /\ wr \in Call /\ active \in Files
       /\ Len(wr.locs) = Len(wr.recs) /\ wr.i \in 1..Len(wr.recs)
MergeTypes ==
    \/ mg = Idle \/ mg = [pc |-> "drain"] \/ mg = [pc |-> "capture"]
    \/ mg \in Saving
    \/ mg \in Copying /\ (mg.pc = "move" => mg.left # {})
CkptTypes == ck = Idle \/ ck = [pc |-> "drain"] \/ ck \in Saving
RecoveryTypes == rc \in [todo : SUBSET Files, wms : Marks, work : [Workers -> Work]]
HistoryTypes == hist \in [Keys -> Seq(BOOLEAN)] /\ used \in [Budget -> Nat]

Types == /\ DiskTypes /\ IndexTypes /\ CallTypes /\ MergeTypes /\ CkptTypes
         /\ RecoveryTypes /\ HistoryTypes

(***************************************************************************)
(* Where the files are                                                     *)
(***************************************************************************)
Out == IF Copies THEN {mg.out} ELSE {}

Places ==
    /\ sealed \subseteq present
    /\ \A f \in Files \ present : disk[f] = <<>> /\ hint[f] = <<>> /\ durable[f] = 0
    /\ \A f \in Files : durable[f] <= Len(disk[f])
    /\ \A f \in sealed \cup Out : durable[f] = Len(disk[f])
    /\ active \in present \cup {0} /\ active \notin sealed
    /\ mode = "open" => \A f \in present : f <= biggest
    /\ mode = "recovering" => \A f \in present : f \in rc.todo \/ f <= biggest
    /\ mode # "open" => /\ wr = Idle /\ mg = Idle /\ ck = Idle
                        /\ active = 0 /\ retired = <<>>
    /\ mode = "closed" => biggest = 0
    /\ Copies => /\ retired = <<>> /\ mg.out \in present \ (sealed \cup {active})
                 /\ mg.ins \subseteq present \ {active, mg.out} /\ mg.left \subseteq mg.ins
    /\ \A f \in Gone : f <= biggest /\ f # active

\* Only the active file has records that a power loss may take.
PowerOnly == "process" \notin CrashKinds
Durables  == PowerOnly => \A f \in Files \ {active} : durable[f] = Len(disk[f])

(***************************************************************************)
(* Hints                                                                   *)
(***************************************************************************)
\* A call's group is not larger than one put when merges overlap the writer.
Tidy == Overlap => MaxGroup = 1

\* A group has records in the active file whose hints are still to come.
Unhinted == wr.pc = "apply" /\ wr.kind = "group" /\ wr.try = 0
Hinted   == Len(disk[active]) - (Len(wr.recs) - wr.i + 1)

Calm ==
    /\ ~Overlap /\ Writing =>
          /\ mg = Idle /\ ck = Idle /\ wr.pc # "rewrite" /\ wr.try = 0
          /\ wr.kind # "remove" =>
                active = biggest /\ \A j \in DOMAIN wr.locs : wr.locs[j].file = active
    /\ Writing =>
          /\ wr.kind = "remove" => \A j \in DOMAIN wr.recs : wr.recs[j].tomb
          /\ wr.kind = "group" => /\ Len(wr.recs) <= MaxGroup /\ wr.pc # "sync"
                                  /\ \A j \in DOMAIN wr.recs : ~wr.recs[j].tomb

Hints ==
    /\ \A f \in sealed \cup Out : Whole(disk[f]) /\ hint[f] = RowsFrom(disk[f], 0)
    /\ active # 0 => Whole(disk[active])
    /\ active # 0 /\ ~Unhinted => hint[active] = RowsFrom(disk[active], 0)
    /\ Unhinted =>
          /\ Hinted >= 0
          /\ Whole(SubSeq(disk[active], 1, Hinted))
          /\ hint[active] = RowsFrom(SubSeq(disk[active], 1, Hinted), 0)
          /\ \A j \in wr.i..Len(wr.recs) :
                /\ wr.locs[j].pos = Hinted + (j - wr.i + 1)
                /\ disk[active][wr.locs[j].pos] = Record(wr.recs[j], wr.locs[j].ord)

(***************************************************************************)
(* Ords                                                                    *)
(***************************************************************************)
\* A batch header is followed by a record with a larger ord.
Batches ==
    \A f \in Files : \A i \in DOMAIN disk[f] : IsHead(disk[f][i]) =>
        /\ disk[f][i].span >= 1
        /\ i < Len(disk[f]) => /\ ~IsHead(disk[f][i + 1])
                               /\ disk[f][i].ord < disk[f][i + 1].ord

\* What a watermark covers: files that exist, and what a growing one holds
Covers(wms) ==
    \A f \in DOMAIN wms : f \in {active} \cup Out => wms[f] <= Len(disk[f])

Marked(wms) == Covers(wms) /\ \A f \in DOMAIN wms : f <= biggest

\* The ord counter is past everything that is in use.
OrdsInUse ==
    /\ mode = "open" => \A f \in Files : \A i \in DOMAIN disk[f] : disk[f][i].ord < nextOrd
    /\ Writing => \A j \in DOMAIN wr.locs : wr.locs[j].ord < nextOrd
    /\ Copies => \A j \in DOMAIN mg.moves : mg.moves[j].rec.ord < nextOrd

\* Watermarks stay in front of what is still to be written.
MarksInUse == /\ mg.pc = "save" => Marked(mg.wms)
              /\ ck.pc = "save" => Marked(ck.wms)

\* The snapshot's counters are past everything under its watermarks.
OrdsSaved ==
    \A s \in Saved : snap = <<s>> =>
        /\ \A f \in DOMAIN s.wms :
              /\ f <= s.biggest
              /\ \A i \in DOMAIN disk[f] : i <= s.wms[f] => disk[f][i].ord < s.nextOrd
        /\ Covers(s.wms)
        /\ mode # "closed" => s.biggest <= biggest /\ s.nextOrd <= nextOrd

\* Recovery has seen the ords of the files it took, or holds a row that has one.
OrdsRecovering ==
    mode = "recovering" =>
        /\ rc.wms = IF snap = <<>> THEN <<>> ELSE snap[1].wms
        /\ \A f \in Files \ rc.todo : \A i \in DOMAIN disk[f] :
              \/ disk[f][i].ord < nextOrd
              \/ \E w \in Workers : \E j \in DOMAIN rc.work[w].rows :
                    rc.work[w].rows[j].ord >= disk[f][i].ord

Ords == OrdsInUse /\ MarksInUse /\ OrdsSaved /\ OrdsRecovering

(***************************************************************************)
(* The data                                                                *)
(***************************************************************************)
LEMMA Records ==
    /\ \A r \in Item \cup Header : r.ord \in Nat /\ (IsHead(r) <=> r \in Header)
                                   /\ (IsHead(r) => r.span \in Nat)
                                   /\ (~IsHead(r) => r \in Item)
                                   /\ (IsPut(r) => ~IsHead(r))
    /\ \A q \in Asking, o \in Nat : Record(q, o) \in Item /\ Record(q, o).ord = o
                                    /\ ~IsHead(Record(q, o))
                                    /\ Record(q, o).kind = (IF q.tomb THEN "tomb" ELSE "put")
    /\ \A o \in Nat, n \in Nat : /\ BatchHeader(o, n) \in Header /\ IsHead(BatchHeader(o, n))
                                 /\ BatchHeader(o, n).ord = o /\ BatchHeader(o, n).span = n
BY DEF Item, Header, Asking, Record, BatchHeader, IsHead, IsPut

LEMMA RowType ==
    ASSUME NEW log \in Log, NEW i \in DOMAIN log, ~IsHead(log[i])
    PROVE  Row(log, i) \in Row0 /\ Row(log, i).ord = log[i].ord
<1>1. log[i] \in Item /\ i \in Nat
  BY Records DEF Log
<1> QED BY <1>1 DEF Row, Row0, Item

LEMMA RowsType ==
    ASSUME NEW log \in Log, NEW from \in Nat
    PROVE  /\ RowsFrom(log, from) \in Seq(Row0)
           /\ \A i \in Found(log, from) : i \in DOMAIN log /\ ~IsHead(log[i])
<1>1. \A i \in Found(log, from) : i \in DOMAIN log /\ ~IsHead(log[i])
  <2>1. Found(log, from) \subseteq DOMAIN log
    BY FoundType DEF Log
  <2> QED BY <2>1 DEF Found
<1>2. {Row(log, i) : i \in Found(log, from)} \subseteq Row0
  BY <1>1, RowType
<1>3. RowsFrom(log, from) \in Seq({Row(log, i) : i \in Found(log, from)})
  BY RowsAreRecords DEF Log
<1>4. RowsFrom(log, from) \in Seq(Row0)
  BY <1>2, <1>3, SeqMonotonic
<1> QED BY <1>1, <1>4

LEMMA Cells ==
    /\ NoEntry \in Cell /\ ~IsLive(NoEntry) /\ ~IsDead(NoEntry)
    /\ \A f \in 0..MaxFile, p, t, o \in Nat : Live(f, p, t, o) \in Cell /\ IsLive(Live(f, p, t, o))
    /\ \A e \in Cell, o \in Nat, b \in BOOLEAN : Removed(e, o, b) \in Cell
                                                /\ ~IsLive(Removed(e, o, b))
    /\ \A e \in Cell, f \in 0..MaxFile, p, t, o \in Nat : RecoveredPut(e, f, p, t, o) \in Cell
<1>1. 0 \in 0..MaxFile
  BY StoreConstants
<1> QED BY <1>1 DEF Cell, NoEntry, Live, Dead, IsLive, IsDead, Removed, RecoveredPut, Larger

\* A sweep only takes sentinels away.
LEMMA SweepsKeep ==
    ASSUME NEW before \in [Keys -> Cell], NEW after \in Sweeps(before)
    PROVE  /\ after \in [Keys -> Cell]
           /\ \A k \in Keys : after[k] = before[k] \/ (IsDead(before[k]) /\ after[k] = NoEntry)
           /\ \A k \in Keys : IsLive(after[k]) <=> IsLive(before[k])
           /\ \A k \in Keys : IsLive(after[k]) => after[k] = before[k]
<1>1. PICK gone \in SUBSET {k \in DOMAIN before : IsDead(before[k])} :
         after = [k \in DOMAIN before |-> IF k \in gone THEN NoEntry ELSE before[k]]
  BY DEF Sweeps
<1>2. DOMAIN before = Keys
  OBVIOUS
<1>3. \A k \in Keys : after[k] = IF k \in gone THEN NoEntry ELSE before[k]
  BY <1>1, <1>2
<1>4. \A k \in Keys : k \in gone => IsDead(before[k])
  BY <1>1, <1>2
<1>5. after \in [Keys -> Cell]
  BY <1>1, <1>2, Cells
<1>6. \A k \in Keys : after[k] = before[k] \/ (IsDead(before[k]) /\ after[k] = NoEntry)
  BY <1>3, <1>4
<1>7. \A e : IsDead(e) => ~IsLive(e)
  BY DEF IsDead, IsLive
<1> QED BY <1>5, <1>6, <1>7, Cells

LEMMA Numbers ==
    /\ MaxFile \in Nat /\ FileCap \in Nat /\ MaxGroup \in Nat /\ MaxGroup >= 1
    /\ 0 \in 0..MaxFile /\ Files \subseteq Nat /\ 0 \notin Files
    /\ \A f \in Files : f \in 0..MaxFile
BY StoreConstants DEF Files

\* The elements of a set, put in order, are its elements.
LEMMA RangeOfAscending ==
    ASSUME NEW S \in SUBSET Files
    PROVE  /\ Ascending(S) \in Seq(Files)
           /\ \A n \in DOMAIN Ascending(S) : Ascending(S)[n] \in S
           /\ \A x \in S : \E n \in DOMAIN Ascending(S) : Ascending(S)[n] = x
<1>1. IsFiniteSet(S) /\ S \in SUBSET Nat
  <2>1. IsFiniteSet(Files)
    BY StoreConstants, FS_Interval DEF Files
  <2> QED BY <2>1, FS_Subset, Numbers
<1>2. Ascending(S) \in [1..Cardinality(S) -> S] /\ Ascending(S) \in Seq(S)
  BY <1>1, AscendingType
<1>3. Ascending(S) \in Seq(Files)
  BY <1>2, SeqMonotonic
<1>4. \A x \in S : \E n \in 1..Cardinality(S) : Ascending(S)[n] = x
  BY <1>1, AscendingOnto
<1> QED BY <1>2, <1>3, <1>4

(***************************************************************************)
(* What the writer's steps do                                              *)
(***************************************************************************)
Kinds == {"group", "remove", "batch", "atomic"}
Wish  == [key : Keys, tomb : BOOLEAN]

LEMMA ShortLists ==
    \A x, y \in Wish :
        /\ <<x>> \in Seq(Wish) /\ Len(<<x>>) = 1 /\ \A j \in DOMAIN <<x>> : <<x>>[j] = x
        /\ <<x, y>> \in Seq(Wish) /\ Len(<<x, y>>) = 2
        /\ \A j \in DOMAIN <<x, y>> : <<x, y>>[j] = x \/ <<x, y>>[j] = y
OBVIOUS

LEMMA RequestType ==
    ASSUME NEW q \in Requests
    PROVE  /\ q[1] \in Kinds /\ q[2] \in Seq(Wish) /\ Len(q[2]) \in Nat \ {0}
           /\ q[1] = "remove" => \A j \in DOMAIN q[2] : q[2][j].tomb
           /\ q[1] = "group" => /\ Len(q[2]) <= MaxGroup
                                /\ \A j \in DOMAIN q[2] : ~q[2][j].tomb
           /\ q[1] = "batch" => \A j \in DOMAIN q[2] : ~q[2][j].tomb
<1>1. \A k \in Keys, b \in BOOLEAN : Asked(k, b) \in Wish /\ (Asked(k, b).tomb <=> b)
  BY DEF Asked, Wish
<1> DEFINE of(n, ks) == [i \in 1..n |-> Asked(ks[i], FALSE)]
           two(k, l, b) == <<Asked(k, FALSE), Asked(l, b)>>
           pair(k, l) == <<Asked(k, FALSE), Asked(l, FALSE)>>
<1>2. CASE \E n \in 1..MaxGroup, ks \in [1..MaxGroup -> Keys] : q = <<"group", of(n, ks)>>
  <2>1. PICK n \in 1..MaxGroup, ks \in [1..MaxGroup -> Keys] : q = <<"group", of(n, ks)>>
    BY <1>2
  <2>2. \A i \in 1..n : Asked(ks[i], FALSE) \in Wish /\ ~Asked(ks[i], FALSE).tomb
    <3>1. \A i \in 1..n : ks[i] \in Keys
      BY Numbers
    <3>2. FALSE \in BOOLEAN
      OBVIOUS
    <3> QED BY <1>1, <3>1, <3>2
  <2>3. of(n, ks) \in [1..n -> Wish] /\ \A i \in 1..n : ~of(n, ks)[i].tomb
    BY <2>2
  <2> HIDE DEF of
  <2>4. n \in Nat \ {0} /\ n <= MaxGroup
    BY Numbers
  <2>5. of(n, ks) \in Seq(Wish) /\ Len(of(n, ks)) = n /\ DOMAIN of(n, ks) = 1..n
    BY <2>3, <2>4
  <2>6. q[1] = "group" /\ q[2] = of(n, ks)
    BY <2>1
  <2> QED BY <2>3, <2>4, <2>5, <2>6 DEF Kinds
<1>3. CASE \E k \in Keys : q = <<"remove", <<Asked(k, TRUE)>>>>
  <2>1. PICK k \in Keys : q = <<"remove", <<Asked(k, TRUE)>>>>
    BY <1>3
  <2>2. PICK x : x = Asked(k, TRUE)
    OBVIOUS
  <2>3. x \in Wish /\ x.tomb
    BY <1>1, <2>2
  <2>4. q[1] = "remove" /\ q[2] = <<x>>
    BY <2>1, <2>2
  <2>5. q[2] \in Seq(Wish) /\ Len(q[2]) = 1 /\ \A j \in DOMAIN q[2] : q[2][j] = x
    BY <2>3, <2>4, ShortLists
  <2> QED BY <2>3, <2>4, <2>5 DEF Kinds
<1>4. CASE \E k \in Keys, l \in Keys : q = <<"batch", <<Asked(k, FALSE), Asked(l, FALSE)>>>>
  <2>1. PICK k, l \in Keys : q = <<"batch", <<Asked(k, FALSE), Asked(l, FALSE)>>>>
    BY <1>4
  <2>2. PICK x, y : x = Asked(k, FALSE) /\ y = Asked(l, FALSE)
    OBVIOUS
  <2>3. x \in Wish /\ y \in Wish /\ ~x.tomb /\ ~y.tomb
    BY <1>1, <2>2
  <2>4. q[1] = "batch" /\ q[2] = <<x, y>>
    BY <2>1, <2>2
  <2>5. /\ q[2] \in Seq(Wish) /\ Len(q[2]) = 2
        /\ \A j \in DOMAIN q[2] : q[2][j] = x \/ q[2][j] = y
    BY <2>3, <2>4, ShortLists
  <2> QED BY <2>3, <2>4, <2>5 DEF Kinds
<1>5. CASE \E k \in Keys, l \in Keys, b \in BOOLEAN : q = <<"atomic", <<Asked(k, FALSE), Asked(l, b)>>>>
  <2>1. PICK k \in Keys, l \in Keys, b \in BOOLEAN :
           q = <<"atomic", <<Asked(k, FALSE), Asked(l, b)>>>>
    BY <1>5
  <2>2. PICK x, y : x = Asked(k, FALSE) /\ y = Asked(l, b)
    OBVIOUS
  <2>3. x \in Wish /\ y \in Wish
    BY <1>1, <2>2
  <2>4. q[1] = "atomic" /\ q[2] = <<x, y>>
    BY <2>1, <2>2
  <2>5. q[2] \in Seq(Wish) /\ Len(q[2]) = 2
    BY <2>3, <2>4, ShortLists
  <2> QED BY <2>4, <2>5 DEF Kinds
<1> DEFINE A1 == {<<"group", of(n, ks)>> : n \in 1..MaxGroup, ks \in [1..MaxGroup -> Keys]}
           A2 == {<<"remove", <<Asked(k, TRUE)>>>> : k \in Keys}
           A3 == {<<"batch", pair(k, l)>> : k \in Keys, l \in Keys}
           A4 == {<<"atomic", two(k, l, b)>> : k \in Keys, l \in Keys, b \in BOOLEAN}
<1>6. Requests \subseteq A1 \cup A2 \cup A3 \cup A4
  <2>1. Requests = (IF "put" \in Calls THEN A1 ELSE {})
                   \cup (IF "remove" \in Calls THEN A2 ELSE {})
                   \cup (IF "batch" \in Calls THEN A3 ELSE {})
                   \cup (IF "atomic" \in Calls THEN A4 ELSE {})
    BY DEF Requests
  <2> HIDE DEF A1, A2, A3, A4
  <2> QED BY <2>1
<1>7. q \in A1 => \E n \in 1..MaxGroup, ks \in [1..MaxGroup -> Keys] : q = <<"group", of(n, ks)>>
  <2> HIDE DEF of
  <2> QED OBVIOUS
<1>8. q \in A2 => \E k \in Keys : q = <<"remove", <<Asked(k, TRUE)>>>>
  OBVIOUS
<1>9. q \in A3 => \E k \in Keys, l \in Keys : q = <<"batch", pair(k, l)>>
  <2> HIDE DEF pair
  <2> QED OBVIOUS
<1>10. q \in A4 => \E k \in Keys, l \in Keys, b \in BOOLEAN : q = <<"atomic", two(k, l, b)>>
  <2> HIDE DEF two
  <2> QED OBVIOUS
<1> HIDE DEF A1, A2, A3, A4
<1> QED BY <1>2, <1>3, <1>4, <1>5, <1>6, <1>7, <1>8, <1>9, <1>10

\* A call begins: n records, behind a header if head is 1, appended to file.
Starts(kind, file, head, n) ==
    /\ mode = "open" /\ wr = Idle /\ Alone
    /\ kind \in Kinds /\ file \in Files /\ head \in 0..1 /\ n \in Nat \ {0}
    /\ kind = "atomic" <=> head = 1
    /\ \/ Roll /\ file = NextFile
       \/ Stay /\ file = active /\ (kind # "remove" => ~(active < biggest))
    /\ \E more \in Log :
          /\ disk' = [disk EXCEPT ![file] = more]
          /\ Extends(more, disk[file], head, n)
          /\ head = 1 => more[Len(disk[file]) + 1] = BatchHeader(nextOrd, n)
          /\ \A j \in 1..n :
                /\ wr'.locs[j] = [file |-> file, pos |-> Len(disk[file]) + head + j,
                                  ord |-> nextOrd + head + j - 1]
                /\ more[Len(disk[file]) + head + j]
                      = Record(wr'.recs[j], nextOrd + head + j - 1)
          /\ hint' = IF kind = "group" THEN hint
                     ELSE [hint EXCEPT ![file] = hint[file] \o
                              [j \in 1..n |-> Row(more, Len(disk[file]) + head + j)]]
    /\ wr' \in Call /\ wr'.kind = kind /\ wr'.i = 1 /\ wr'.try = 0
    /\ Len(wr'.recs) = n /\ Len(wr'.locs) = n
    /\ wr'.pc \in {"sync", "apply"} /\ (wr'.pc = "sync" => kind # "group")
    /\ kind = "remove" => \A j \in DOMAIN wr'.recs : wr'.recs[j].tomb
    /\ kind = "group" => n <= MaxGroup /\ \A j \in DOMAIN wr'.recs : ~wr'.recs[j].tomb
    /\ nextOrd' = nextOrd + head + n
    /\ UNCHANGED <<snap, mode, kd, mg, ck, retired, rc>>

LEMMA CountType ==
    ASSUME NEW reqs \in Seq(Wish), NEW i \in DOMAIN reqs
    PROVE  Cardinality({j \in 1..i : reqs[j].key = reqs[i].key}) \in Nat \ {0}
<1> DEFINE B == {j \in 1..i : reqs[j].key = reqs[i].key}
<1>1. i \in Nat /\ i \in B
  OBVIOUS
<1>2. IsFiniteSet(1..i)
  BY <1>1, FS_Interval
<1>3. B \in SUBSET (1..i)
  OBVIOUS
<1>4. IsFiniteSet(B)
  BY <1>2, <1>3, FS_Subset
<1> HIDE DEF B
<1>5. Cardinality(B) \in Nat /\ Cardinality(B) # 0
  BY <1>1, <1>4, FS_CardinalityType, FS_EmptySet
<1> QED BY <1>5 DEF B

LEMMA BeginShape ==
    ASSUME Types, NEW kind \in Kinds, NEW reqs \in Seq(Wish), Len(reqs) \in Nat \ {0},
           kind = "remove" => \A j \in DOMAIN reqs : reqs[j].tomb,
           kind = "group" => /\ Len(reqs) <= MaxGroup
                             /\ \A j \in DOMAIN reqs : ~reqs[j].tomb,
           NEW t \in Nat, Begin(kind, reqs, t)
    PROVE  \E file, head, n : Starts(kind, file, head, n)
<1> DEFINE n == Len(reqs)
           head == IF kind = "atomic" THEN 1 ELSE 0
           roll == MustRoll(kind, IF kind = "group" THEN 1 ELSE head + n)
           file == IF roll THEN NextFile ELSE active
           locs == Slots(file, head, n)
           recs == [i \in 1..n |-> [key |-> reqs[i].key, tomb |-> reqs[i].tomb,
                                     ts |-> t, ver |-> Version(reqs, i)]]
           log  == disk[file] \o (IF head = 1 THEN <<BatchHeader(nextOrd, n)>> ELSE <<>>)
                     \o [i \in 1..n |-> Record(recs[i], locs[i].ord)]
<1>1. /\ n = Len(reqs)
      /\ head = IF kind = "atomic" THEN 1 ELSE 0
      /\ roll = MustRoll(kind, IF kind = "group" THEN 1 ELSE head + n)
      /\ file = IF roll THEN NextFile ELSE active
      /\ locs = Slots(file, head, n)
      /\ recs = [i \in 1..n |-> [key |-> reqs[i].key, tomb |-> reqs[i].tomb,
                                 ts |-> t, ver |-> Version(reqs, i)]]
      /\ log = disk[file] \o (IF head = 1 THEN <<BatchHeader(nextOrd, n)>> ELSE <<>>)
                 \o [i \in 1..n |-> Record(recs[i], locs[i].ord)]
  OBVIOUS
<1>1a. /\ mode = "open" /\ Quiet /\ Alone
       /\ IF roll THEN Roll ELSE Stay
       /\ disk' = [disk EXCEPT ![file] = log]
       /\ hint' = IF HintedAtOnce(kind)
                  THEN [hint EXCEPT ![file] =
                           hint[file] \o [i \in 1..n |-> Row(log, locs[i].pos)]]
                  ELSE hint
       /\ nextOrd' = nextOrd + head + n
       /\ wr' = [pc |-> IF SyncEach /\ kind \in {"batch", "atomic"}
                        THEN "sync" ELSE "apply",
                 kind |-> kind, recs |-> recs, locs |-> locs, i |-> 1,
                 try |-> 0, lost |-> {}]
       /\ UNCHANGED <<snap, mode, kd, mg, ck, retired, rc>>
  BY DEF Begin
<1> HIDE DEF n, head, roll, file, locs, recs, log
<1>2. n \in Nat \ {0} /\ head \in 0..1 /\ (kind = "atomic" <=> head = 1) /\ nextOrd \in Nat
  BY <1>1 DEF Types, IndexTypes
<1>3. wr = Idle
  BY <1>1a DEF Quiet, Types, CallTypes, Call
<1>4. /\ file \in Files
      /\ \/ Roll /\ file = NextFile
         \/ Stay /\ file = active /\ (kind # "remove" => ~(active < biggest))
  <2>1. CASE roll
    <3>1. Roll /\ file = NextFile
      BY <1>1, <1>1a, <2>1
    <3>2. NextFile \in Files
      BY <3>1, Numbers DEF Roll, NextFile, Files, Types, IndexTypes
    <3> QED BY <3>1, <3>2
  <2>2. CASE ~roll
    <3>1. Stay /\ file = active
      BY <1>1, <1>1a, <2>2
    <3>2. active # 0 /\ (kind # "remove" => ~(active < biggest))
      BY <1>1, <2>2 DEF MustRoll
    <3>3. active \in Files
      BY <3>2 DEF Types, IndexTypes, Files
    <3> QED BY <3>1, <3>2, <3>3
  <2> QED BY <2>1, <2>2
<1>5. disk[file] \in Log /\ Len(disk[file]) \in Nat
  BY <1>4 DEF Types, DiskTypes, Log
<1>6. /\ DOMAIN recs = 1..n
      /\ \A j \in 1..n : recs[j] \in Asking /\ recs[j].tomb = reqs[j].tomb
  <2>1. DOMAIN reqs = 1..n /\ \A j \in 1..n : reqs[j] \in Wish
    BY <1>1
  <2>2. \A k \in Keys : Len(hist[k]) \in Nat
    BY DEF Types, HistoryTypes
  <2>3. ASSUME NEW j \in 1..n PROVE Version(reqs, j) \in Nat
    <3>1. reqs[j].key \in Keys /\ j \in DOMAIN reqs
      BY <2>1 DEF Wish
    <3>2. Cardinality({x \in 1..j : reqs[x].key = reqs[j].key}) \in Nat
      BY <3>1, CountType
    <3> QED BY <2>2, <3>1, <3>2 DEF Version
  <2>4. ASSUME NEW j \in 1..n
        PROVE  recs[j] \in Asking /\ recs[j].tomb = reqs[j].tomb
    <3>1. reqs[j].key \in Keys /\ reqs[j].tomb \in BOOLEAN
      BY <2>1 DEF Wish
    <3>2. recs[j] = [key |-> reqs[j].key, tomb |-> reqs[j].tomb, ts |-> t,
                     ver |-> Version(reqs, j)]
      BY <1>1
    <3> QED BY <2>3, <3>1, <3>2 DEF Asking
  <2>5. DOMAIN recs = 1..n
    BY <1>1
  <2> QED BY <2>4, <2>5
<1>7. /\ DOMAIN locs = 1..n
      /\ \A j \in 1..n :
            /\ locs[j] = [file |-> file, pos |-> Len(disk[file]) + head + j,
                          ord |-> nextOrd + head + j - 1]
            /\ locs[j] \in Place
  <2>1. locs = [j \in 1..n |-> [file |-> file, pos |-> Len(disk[file]) + head + j,
                                ord |-> nextOrd + head + j - 1]]
    BY <1>1 DEF Slots
  <2>2. \A j \in 1..n : /\ Len(disk[file]) + head + j \in Nat
                        /\ nextOrd + head + j - 1 \in Nat
    BY <1>2, <1>5
  <2> QED BY <1>4, <2>1, <2>2 DEF Place
<1> DEFINE front == IF head = 1 THEN <<BatchHeader(nextOrd, n)>> ELSE <<>>
           items == [i \in 1..n |-> Record(recs[i], locs[i].ord)]
           R == Item \cup Header
<1>8. front \in Seq(R) /\ Len(front) = head /\ (head = 1 => front[1] = BatchHeader(nextOrd, n))
  <2>1. BatchHeader(nextOrd, n) \in R
    BY <1>2, Records
  <2> HIDE DEF R
  <2> QED BY <1>2, <2>1
<1>9. /\ items \in Seq(R) /\ Len(items) = n
      /\ \A j \in 1..n : /\ items[j] = Record(recs[j], nextOrd + head + j - 1)
                         /\ ~IsHead(items[j])
  <2>1. \A j \in 1..n : locs[j].ord = nextOrd + head + j - 1 /\ locs[j].ord \in Nat
    BY <1>7 DEF Place
  <2>2. \A j \in 1..n : items[j] = Record(recs[j], nextOrd + head + j - 1)
                        /\ items[j] \in R /\ ~IsHead(items[j])
    BY <1>6, <2>1, Records
  <2>3. items \in [1..n -> R]
    <3>1. items = [j \in 1..n |-> items[j]]
      OBVIOUS
    <3> HIDE DEF items, R
    <3> QED BY <2>2, <3>1
  <2> HIDE DEF items, R
  <2> QED BY <1>2, <2>2, <2>3
<1>10. log = (disk[file] \o front) \o items
  BY <1>1
<1> HIDE DEF front, items
<1>11. disk[file] \o front \in Seq(R) /\ Len(disk[file] \o front) = Len(disk[file]) + head
       /\ \A i \in 1..(Len(disk[file]) + head) : (disk[file] \o front)[i]
             = IF i <= Len(disk[file]) THEN disk[file][i] ELSE front[i - Len(disk[file])]
  <2>1. disk[file] \in Seq(R)
    BY <1>5 DEF Log
  <2> HIDE DEF R
  <2>1a. front \in Seq(R)
    BY <1>8
  <2>2. Len(disk[file] \o front) = Len(disk[file]) + Len(front)
        /\ disk[file] \o front \in Seq(R)
    BY <2>1, <2>1a, ConcatProperties
  <2>3. \A i \in 1..(Len(disk[file]) + Len(front)) : (disk[file] \o front)[i]
             = IF i <= Len(disk[file]) THEN disk[file][i] ELSE front[i - Len(disk[file])]
    BY <1>8, <2>1, ConcatProperties
  <2> QED BY <1>8, <2>2, <2>3
<1>12. log \in Seq(R) /\ Len(log) = Len(disk[file]) + head + n
       /\ \A i \in 1..(Len(disk[file]) + head + n) : log[i]
             = IF i <= Len(disk[file]) + head THEN (disk[file] \o front)[i]
               ELSE items[i - (Len(disk[file]) + head)]
  <2> DEFINE pre == disk[file] \o front
  <2>1. pre \in Seq(R) /\ items \in Seq(R) /\ Len(items) = n
        /\ Len(pre) = Len(disk[file]) + head /\ log = pre \o items
    BY <1>9, <1>10, <1>11
  <2> HIDE DEF R, pre
  <2>2. Len(pre \o items) = Len(pre) + Len(items) /\ pre \o items \in Seq(R)
    BY <2>1, ConcatProperties
  <2>3. \A i \in 1..(Len(pre) + Len(items)) : (pre \o items)[i]
             = IF i <= Len(pre) THEN pre[i] ELSE items[i - Len(pre)]
    BY <2>1, ConcatProperties
  <2>4. \A i \in 1..(Len(disk[file]) + head + n) : log[i]
             = IF i <= Len(disk[file]) + head THEN pre[i]
               ELSE items[i - (Len(disk[file]) + head)]
    BY <2>1, <2>3
  <2> QED BY <2>1, <2>2, <2>4 DEF pre
<1>13. log \in Log
  BY <1>12 DEF Log
<1>14. ASSUME NEW j \in 1..n
       PROVE  log[Len(disk[file]) + head + j] = items[j]
  <2>1. PICK p : p = Len(disk[file]) + head + j
    OBVIOUS
  <2>2. /\ p \in 1..(Len(disk[file]) + head + n) /\ ~(p <= Len(disk[file]) + head)
        /\ p - (Len(disk[file]) + head) = j
    BY <1>2, <1>5, <2>1
  <2> QED BY <1>12, <2>1, <2>2
<1>15. head = 1 => log[Len(disk[file]) + 1] = BatchHeader(nextOrd, n)
  <2>1. SUFFICES ASSUME head = 1 PROVE log[Len(disk[file]) + 1] = BatchHeader(nextOrd, n)
    OBVIOUS
  <2>2. PICK p : p = Len(disk[file]) + 1
    OBVIOUS
  <2>3. /\ p \in 1..(Len(disk[file]) + head + n) /\ p <= Len(disk[file]) + head
        /\ p \in 1..(Len(disk[file]) + head)
        /\ ~(p <= Len(disk[file])) /\ p - Len(disk[file]) = 1
    BY <1>2, <1>5, <2>1, <2>2
  <2>4. log[p] = front[1]
    BY <1>11, <1>12, <2>3
  <2> QED BY <1>8, <2>1, <2>2, <2>4
<1>16. Extends(log, disk[file], head, n)
  <2>1. ASSUME NEW i \in DOMAIN disk[file] PROVE log[i] = disk[file][i]
    <3>1. /\ i \in 1..(Len(disk[file]) + head + n) /\ i <= Len(disk[file])
          /\ i <= Len(disk[file]) + head /\ i \in 1..(Len(disk[file]) + head)
      BY <1>2, <1>5 DEF Log
    <3> QED BY <1>11, <1>12, <3>1
  <2>2. \A j \in 1..n : ~IsHead(log[Len(disk[file]) + head + j])
    BY <1>9, <1>14
  <2>3. head = 1 => IsHead(log[Len(disk[file]) + 1]) /\ log[Len(disk[file]) + 1].span = n
    BY <1>2, <1>15, Records
  <2> QED BY <1>12, <2>1, <2>2, <2>3 DEF Extends
<1>17. /\ wr'.recs = recs /\ wr'.locs = locs /\ wr'.kind = kind /\ wr'.i = 1 /\ wr'.try = 0
       /\ wr'.pc \in {"sync", "apply"} /\ (wr'.pc = "sync" => kind # "group")
       /\ wr' \in Call /\ Len(wr'.recs) = n /\ Len(wr'.locs) = n
  <2>1. recs \in Seq(Asking) /\ Len(recs) = n
    <3>1. recs = [j \in 1..n |-> recs[j]]
      BY <1>1
    <3>2. recs \in [1..n -> Asking]
      BY <1>6, <3>1
    <3> QED BY <1>2, <3>2
  <2>2. locs \in Seq(Place) /\ Len(locs) = n
    <3>1. locs = [j \in 1..n |-> locs[j]]
      BY <1>1 DEF Slots
    <3>2. locs \in [1..n -> Place]
      BY <1>7, <3>1
    <3> QED BY <1>2, <3>2
  <2>3. 1 \in Nat /\ 0 \in Nat /\ {} \in SUBSET Nat
    OBVIOUS
  <2> QED BY <1>1a, <2>1, <2>2, <2>3 DEF Call, Kinds
<1>18. /\ kind = "remove" => \A j \in DOMAIN wr'.recs : wr'.recs[j].tomb
       /\ kind = "group" => n <= MaxGroup /\ \A j \in DOMAIN wr'.recs : ~wr'.recs[j].tomb
  <2>1. DOMAIN reqs = 1..n
    BY <1>1
  <2> QED BY <1>1, <1>6, <1>17, <2>1
<1>19. hint' = IF kind = "group" THEN hint
               ELSE [hint EXCEPT ![file] = hint[file] \o
                        [j \in 1..n |-> Row(log, Len(disk[file]) + head + j)]]
  <2>1. [i \in 1..n |-> Row(log, locs[i].pos)]
          = [j \in 1..n |-> Row(log, Len(disk[file]) + head + j)]
    <3>1. \A j \in 1..n : locs[j].pos = Len(disk[file]) + head + j
      BY <1>7
    <3> QED BY <3>1
  <2> QED BY <1>1a, <2>1 DEF HintedAtOnce, Kinds
<1>20. \A j \in 1..n :
         /\ wr'.locs[j] = [file |-> file, pos |-> Len(disk[file]) + head + j,
                           ord |-> nextOrd + head + j - 1]
         /\ log[Len(disk[file]) + head + j] = Record(wr'.recs[j], nextOrd + head + j - 1)
  BY <1>7, <1>9, <1>14, <1>17
<1>21. /\ mode = "open" /\ Alone /\ disk' = [disk EXCEPT ![file] = log]
       /\ nextOrd' = nextOrd + head + n
       /\ UNCHANGED <<snap, mode, kd, mg, ck, retired, rc>>
  BY <1>1a
<1>22. Starts(kind, file, head, n)
  BY <1>2, <1>3, <1>4, <1>13, <1>15, <1>16, <1>17, <1>18, <1>19, <1>20, <1>21 DEF Starts
<1> QED BY <1>22

LEMMA WriteShape ==
    ASSUME Types, Write
    PROVE  \E kind, file, head, n : Starts(kind, file, head, n)
<1>1. PICK q \in Requests, t \in Stamps : Begin(q[1], q[2], t)
  BY DEF Write
<1>2. t \in Nat
  <2>1. used["write"] \in Nat
    BY DEF Types, HistoryTypes, Budget
  <2> QED BY <2>1 DEF Stamps
<1>3. PICK kind, reqs : kind = q[1] /\ reqs = q[2]
  OBVIOUS
<1>4. /\ kind \in Kinds /\ reqs \in Seq(Wish) /\ Len(reqs) \in Nat \ {0}
      /\ kind = "remove" => \A j \in DOMAIN reqs : reqs[j].tomb
      /\ kind = "group" => /\ Len(reqs) <= MaxGroup
                           /\ \A j \in DOMAIN reqs : ~reqs[j].tomb
  BY <1>3, RequestType
<1>5. Begin(kind, reqs, t)
  BY <1>1, <1>3
<1>6. \E file, head, n : Starts(kind, file, head, n)
  BY <1>2, <1>4, <1>5, BeginShape
<1> QED BY <1>6

(***************************************************************************)
(* Types are kept                                                          *)
(***************************************************************************)
LEMMA CallFacts ==
    ASSUME Types, wr.pc # "idle"
    PROVE  /\ wr \in Call /\ Len(wr.recs) \in Nat \ {0} /\ Len(wr.locs) = Len(wr.recs)
           /\ DOMAIN wr.recs = 1..Len(wr.recs) /\ DOMAIN wr.locs = 1..Len(wr.recs)
           /\ wr.i \in 1..Len(wr.recs) /\ wr.i \in Nat
           /\ \A j \in 1..Len(wr.recs) : wr.recs[j] \in Asking /\ wr.locs[j] \in Place
           /\ Req \in Asking /\ Req.key \in Keys /\ Loc \in Place /\ Loc.file \in Files
           /\ active \in Files
<1>1. wr \in Call /\ Len(wr.locs) = Len(wr.recs) /\ wr.i \in 1..Len(wr.recs)
      /\ active \in Files
  BY DEF Types, CallTypes, Idle
<1>2. wr.recs \in Seq(Asking) /\ wr.locs \in Seq(Place)
  BY <1>1 DEF Call
<1>3. \A j \in 1..Len(wr.recs) : wr.recs[j] \in Asking /\ wr.locs[j] \in Place
  BY <1>1, <1>2
<1>4. Req \in Asking /\ Loc \in Place
  BY <1>1, <1>3 DEF Req, Loc
<1>5. Req.key \in Keys /\ Loc.file \in Files
  BY <1>4 DEF Asking, Place
<1>6. Len(wr.recs) \in Nat \ {0} /\ DOMAIN wr.recs = 1..Len(wr.recs)
      /\ DOMAIN wr.locs = 1..Len(wr.recs)
  BY <1>1, <1>2
<1> QED BY <1>1, <1>3, <1>4, <1>5, <1>6

LEMMA JobFacts ==
    ASSUME Types
    PROVE  /\ Copies => mg \in Copying
           /\ mg.pc = "save" => mg \in Saving
           /\ mg.pc = "idle" => mg = Idle
           /\ mg.pc = "drain" => mg = [pc |-> "drain"]
           /\ mg.pc = "capture" => mg = [pc |-> "capture"]
           /\ ck.pc = "save" => ck \in Saving
           /\ ck.pc = "idle" => ck = Idle
           /\ ck.pc = "drain" => ck = [pc |-> "drain"]
           /\ wr.pc = "idle" => wr = Idle
<1>1. /\ \A x \in Copying : x.pc \in {"fold", "move"}
      /\ \A x \in Saving : x.pc = "save"
      /\ Idle.pc = "idle"
      /\ \A x \in Call : x.pc # "idle"
  BY DEF Copying, Saving, Idle, Call
<1>2. wr.pc = "idle" => wr = Idle
  BY <1>1 DEF Types, CallTypes
<1>3. \A x : x = [pc |-> "drain"] => x.pc = "drain"
  OBVIOUS
<1>4. \A x : x = [pc |-> "capture"] => x.pc = "capture"
  OBVIOUS
<1>5. mg = Idle \/ mg = [pc |-> "drain"] \/ mg = [pc |-> "capture"]
      \/ mg \in Saving \/ mg \in Copying
  BY DEF Types, MergeTypes
<1>6. ck = Idle \/ ck = [pc |-> "drain"] \/ ck \in Saving
  BY DEF Types, CkptTypes
<1> QED BY <1>1, <1>2, <1>3, <1>4, <1>5, <1>6 DEF Copies

\* The file a merge reads
LEMMA InFileFacts ==
    ASSUME Types, Copies, mg.left # {}
    PROVE  /\ InFile \in mg.left /\ InFile \in Files
           /\ disk[InFile] \in Log /\ Len(disk[InFile]) \in Nat
           /\ LastValidEnd(disk[InFile], 0) \in 0..Len(disk[InFile])
<1>1. mg.left \in SUBSET Nat /\ mg.left \in SUBSET Files
  BY JobFacts, Numbers DEF Copying
<1>2. \E f \in mg.left : \A g \in mg.left : f <= g
  BY <1>1, LeastExists
<1>3. InFile \in mg.left
  BY <1>2 DEF InFile
<1>4. disk[InFile] \in Log
  BY <1>1, <1>3 DEF Types, DiskTypes
<1>5. Len(disk[InFile]) \in Nat /\ 0 \in Nat /\ 0 <= Len(disk[InFile])
  BY <1>4 DEF Log
<1>6. /\ LastValidEnd(disk[InFile], 0) \in Nat
      /\ LastValidEnd(disk[InFile], 0) <= Len(disk[InFile])
  BY <1>4, <1>5, EndOfFold DEF Log
<1> QED BY <1>1, <1>3, <1>4, <1>5, <1>6

\* What a flush of a merge appends to its output
LEMMA FlushShape ==
    ASSUME Types, MergeFlush
    PROVE  \E more \in Log, n \in Nat :
             /\ mg.out \in Files /\ Copies
             /\ n = Len(mg.moves)
             /\ disk' = [disk EXCEPT ![mg.out] = more]
             /\ Extends(more, disk[mg.out], 0, n)
             /\ \A j \in 1..n : more[Len(disk[mg.out]) + j] = mg.moves[j].rec
                                /\ mg.moves[j].rec \in Item
             /\ durable' = [durable EXCEPT ![mg.out] = Len(more)]
             /\ hint' = [hint EXCEPT ![mg.out] = hint[mg.out] \o
                            [j \in 1..n |-> Row(more, Len(disk[mg.out]) + j)]]
             /\ mg' = [mg EXCEPT !.pc = "move", !.pos = Len(disk[mg.out]) + 1]
             /\ Len(disk[mg.out]) \in Nat
<1>1. Copies /\ mg \in Copying
  BY JobFacts DEF MergeFlush, Copies
<1>2. mg.out \in Files /\ mg.moves \in Seq(Move)
  BY <1>1 DEF Copying
<1> DEFINE log == disk[mg.out] \o [i \in DOMAIN mg.moves |-> mg.moves[i].rec]
           items == [i \in DOMAIN mg.moves |-> mg.moves[i].rec]
           n == Len(mg.moves)
           old == disk[mg.out]
           R == Item \cup Header
<1>3. n \in Nat /\ DOMAIN mg.moves = 1..n /\ old \in Seq(R) /\ Len(old) \in Nat
  BY <1>2 DEF Types, DiskTypes, Log
<1>4. \A j \in 1..n : items[j] = mg.moves[j].rec /\ items[j] \in Item
  <2>1. \A j \in 1..n : mg.moves[j] \in Move
    BY <1>2, <1>3, ElementOfSeq
  <2> QED BY <1>3, <2>1 DEF Move
<1>5. items \in Seq(R) /\ Len(items) = n
  <2>1. items = [j \in 1..n |-> items[j]]
    BY <1>3
  <2> HIDE DEF items
  <2>2. items \in [1..n -> R]
    BY <1>4, <2>1
  <2> HIDE DEF R
  <2> QED BY <1>3, <2>2
<1>6. log = old \o items
  OBVIOUS
<1>7. /\ disk' = [disk EXCEPT ![mg.out] = log]
      /\ durable' = [durable EXCEPT ![mg.out] = Len(log)]
      /\ hint' = [hint EXCEPT ![mg.out] = @ \o CopyHints(log, Len(old))]
      /\ mg' = [mg EXCEPT !.pc = "move", !.pos = Len(old) + 1]
  BY DEF MergeFlush
<1> HIDE DEF items, log, old, n, R
<1>8. log \in Seq(R) /\ Len(log) = Len(old) + n
      /\ \A i \in 1..(Len(old) + n) : log[i] = IF i <= Len(old) THEN old[i] ELSE items[i - Len(old)]
  BY <1>3, <1>5, <1>6, ConcatProperties
<1>9. ASSUME NEW j \in 1..n PROVE log[Len(old) + j] = items[j]
  <2>1. PICK p : p = Len(old) + j
    OBVIOUS
  <2>2. p \in 1..(Len(old) + n) /\ ~(p <= Len(old)) /\ p - Len(old) = j
    BY <1>3, <2>1
  <2> QED BY <1>8, <2>1, <2>2
<1>10. Extends(log, old, 0, n)
  <2>1. \A i \in DOMAIN old : log[i] = old[i]
    BY <1>3, <1>8
  <2>2. \A j \in 1..n : ~IsHead(log[Len(old) + 0 + j])
    <3>1. \A j \in 1..n : Len(old) + 0 + j = Len(old) + j
      BY <1>3
    <3>2. \A r \in Item : ~IsHead(r)
      BY DEF Item, IsHead
    <3> QED BY <1>4, <1>9, <3>1, <3>2
  <2>3. Len(log) = Len(old) + 0 + n
    BY <1>3, <1>8
  <2> QED BY <2>1, <2>2, <2>3 DEF Extends
<1>11. CopyHints(log, Len(old)) = [j \in 1..n |-> Row(log, Len(old) + j)]
  <2>1. Len(log) - Len(old) = n
    BY <1>3, <1>8
  <2> QED BY <2>1 DEF CopyHints
<1>12. \A j \in 1..n : log[Len(old) + j] = mg.moves[j].rec /\ mg.moves[j].rec \in Item
  BY <1>4, <1>9
<1>13. log \in Log
  BY <1>8 DEF Log, R
<1> QED BY <1>1, <1>2, <1>3, <1>7, <1>10, <1>11, <1>12, <1>13 DEF old, n

\* The steps that leave the files as they are, but for one variable or two
OnlyDurable == UNCHANGED <<disk, present, hint, sealed, snap>>
OnlyHint    == UNCHANGED <<disk, present, durable, sealed, snap>>

LEMMA DurableTypes ==
    ASSUME Types
    PROVE  /\ \A f \in Files : Fsynced(f) \in [Files -> Nat]
           /\ active # 0 => active \in Files /\ Fsynced(active) \in [Files -> Nat]
           /\ DurableIfSealed \in [Files -> Nat]
           /\ SealedAfterRoll \in SUBSET Files
           /\ DurableAfterCapture \in [Files -> Nat]
           /\ Watermarks \in Marks
           /\ Gone \in SUBSET Files
<1>1. \A f \in Files : Len(disk[f]) \in Nat
  BY DEF Types, DiskTypes, Log
<1>2. \A f \in Files : Fsynced(f) \in [Files -> Nat]
  BY <1>1 DEF Fsynced, Types, DiskTypes
<1>3. active # 0 => active \in Files
  BY DEF Types, IndexTypes, Files
<1>4. DurableIfSealed \in [Files -> Nat] /\ DurableAfterCapture \in [Files -> Nat]
  BY <1>2, <1>3 DEF DurableIfSealed, DurableAfterCapture, Types, DiskTypes
<1>5. SealedAfterRoll \in SUBSET Files
  BY <1>3 DEF SealedAfterRoll, Types, DiskTypes
<1>6. Watermarks \in Marks
  <2>1. present \in SUBSET Files
    BY DEF Types, DiskTypes
  <2>2. Watermarks \in [present -> Nat]
    BY <1>1, <2>1 DEF Watermarks
  <2> QED BY <2>1, <2>2 DEF Marks
<1>7. Gone \in SUBSET Files
  BY DEF Gone, Types, IndexTypes
<1> QED BY <1>2, <1>3, <1>4, <1>5, <1>6, <1>7

LEMMA SnapshotType ==
    ASSUME Types, NEW wms \in Marks
    PROVE  Snapshot(wms) \in Saved
<1>1. \A k \in Keys : SnapshotEntry(kd[k], wms) \in Cell
  BY Cells DEF SnapshotEntry, Types, IndexTypes
<1>2. [k \in Keys |-> SnapshotEntry(kd[k], wms)] \in [Keys -> Cell]
  BY <1>1
<1> QED BY <1>2 DEF Snapshot, Saved, Types, IndexTypes

LEMMA RollTypes ==
    ASSUME Types, Roll
    PROVE  /\ NextFile \in Files /\ active' = NextFile /\ biggest' = NextFile
           /\ present' = present \cup {NextFile} /\ present' \in SUBSET Files
           /\ durable' \in [Files -> Nat] /\ sealed' \in SUBSET Files
           /\ active' \in 0..MaxFile /\ biggest' \in 0..MaxFile
<1>1. NextFile \in Files /\ NextFile \in 0..MaxFile
  BY Numbers DEF Roll, NextFile, Files, Types, IndexTypes
<1> QED BY <1>1, DurableTypes DEF Roll, Types, DiskTypes

LEMMA UnlinkTypes ==
    ASSUME Types, DrainOne
    PROVE  /\ Head(retired) \in Files /\ Tail(retired) \in Seq(Files)
           /\ Head(retired) \in Gone
           /\ \A i \in DOMAIN Tail(retired) : Tail(retired)[i] \in Gone
           /\ disk' \in [Files -> Log] /\ present' \in SUBSET Files
           /\ durable' \in [Files -> Nat] /\ hint' \in [Files -> Seq(Row0)]
           /\ sealed' \in SUBSET Files
<1>1. retired \in Seq(Files) /\ retired # <<>>
  BY DEF DrainOne, Types, IndexTypes
<1>2. Head(retired) \in Files /\ Tail(retired) \in Seq(Files)
  BY <1>1
<1>3. <<>> \in Log /\ <<>> \in Seq(Row0) /\ 0 \in Nat
  BY DEF Log
<1>4. Head(retired) = retired[1] /\ 1 \in DOMAIN retired
      /\ \A i \in DOMAIN Tail(retired) : i + 1 \in DOMAIN retired /\ Tail(retired)[i] = retired[i + 1]
  BY <1>1
<1>5. Head(retired) \in Gone /\ \A i \in DOMAIN Tail(retired) : Tail(retired)[i] \in Gone
  BY <1>4 DEF Gone
<1> QED BY <1>2, <1>3, <1>5 DEF DrainOne, Unlink, Types, DiskTypes

\* Rewrite: one record more, in the active file or in the next one
LEMMA RewriteShape ==
    ASSUME Types, Rewrite
    PROVE  \E file \in Files, more \in Log, o \in Nat :
             /\ \/ Roll /\ file = NextFile /\ wr.try = 1
                \/ Stay /\ file = active /\ wr.try # 1
             /\ disk' = [disk EXCEPT ![file] = more]
             /\ Extends(more, disk[file], 0, 1) /\ Len(disk[file]) \in Nat
             /\ more[Len(disk[file]) + 1] = Record(Req, o)
             /\ hint' = [hint EXCEPT ![file] = Append(hint[file], Row(more, Len(disk[file]) + 1))]
             /\ \/ nextOrd' = nextOrd + 1 /\ o = nextOrd
                \/ nextOrd' = nextOrd /\ o = Loc.ord
             /\ wr' = [wr EXCEPT !.pc = "apply", !.try = wr.try + 1,
                         !.locs[wr.i] = [file |-> file, pos |-> Len(disk[file]) + 1, ord |-> o]]
             /\ wr' \in Call /\ Len(wr'.recs) = Len(wr.recs) /\ Len(wr'.locs) = Len(wr.locs)
             /\ wr'.recs = wr.recs /\ wr'.i = wr.i /\ wr'.pc = "apply" /\ wr'.kind = wr.kind
             /\ wr'.try = wr.try + 1
             /\ \A j \in DOMAIN wr.locs : j # wr.i => wr'.locs[j] = wr.locs[j]
             /\ wr'.locs[wr.i] = [file |-> file, pos |-> Len(disk[file]) + 1, ord |-> o]
             /\ UNCHANGED <<snap, kd>>
<1> DEFINE roll  == wr.try = 1
           file  == IF roll THEN NextFile ELSE active
           fresh == roll \/ wr.kind # "group"
           loc   == [Slots(file, 0, 1)[1] EXCEPT !.ord = IF fresh THEN @ ELSE Loc.ord]
           log   == Append(disk[file], Record(Req, loc.ord))
           o     == IF fresh THEN nextOrd ELSE Loc.ord
<1>1. /\ wr.pc = "rewrite"
      /\ IF roll THEN Roll ELSE Stay
      /\ disk' = [disk EXCEPT ![file] = log]
      /\ hint' = [hint EXCEPT ![file] = Append(hint[file], Row(log, loc.pos))]
      /\ nextOrd' = IF fresh THEN nextOrd + 1 ELSE nextOrd
      /\ wr' = [wr EXCEPT !.pc = "apply", !.try = wr.try + 1, !.locs[wr.i] = loc]
      /\ UNCHANGED <<snap, kd>>
  BY DEF Rewrite
<1>2. /\ wr \in Call /\ wr.i \in 1..Len(wr.locs) /\ Req \in Asking /\ Loc.ord \in Nat
      /\ wr.locs \in Seq(Place) /\ wr.try \in Nat /\ DOMAIN wr.locs = 1..Len(wr.locs)
  BY <1>1, CallFacts DEF Place, Call
<1>3. file \in Files
  <2>1. CASE roll
    <3>1. Roll
      BY <1>1, <2>1
    <3> QED BY <2>1, <3>1, RollTypes
  <2>2. CASE ~roll
    <3>1. active \in Files
      BY <1>1, CallFacts
    <3> QED BY <2>2, <3>1
  <2> QED BY <2>1, <2>2
<1>4. disk[file] \in Log /\ Len(disk[file]) \in Nat /\ nextOrd \in Nat
  BY <1>3 DEF Types, DiskTypes, IndexTypes, Log
<1>5. o \in Nat
  BY <1>2, <1>4
<1>6. loc = [file |-> file, pos |-> Len(disk[file]) + 1, ord |-> o]
  <2>1. Slots(file, 0, 1)[1] = [file |-> file, pos |-> Len(disk[file]) + 0 + 1,
                                ord |-> nextOrd + 0 + 1 - 1]
    BY DEF Slots
  <2>2. Slots(file, 0, 1)[1] = [file |-> file, pos |-> Len(disk[file]) + 1, ord |-> nextOrd]
    BY <1>4, <2>1
  <2> QED BY <2>2
<1>7. loc.ord = o /\ loc.pos = Len(disk[file]) + 1 /\ loc \in Place
  <2> HIDE DEF o
  <2> QED BY <1>3, <1>4, <1>5, <1>6 DEF Place
<1>8. log = Append(disk[file], Record(Req, o)) /\ Record(Req, o) \in Item /\ ~IsHead(Record(Req, o))
  BY <1>2, <1>5, <1>7, Records
<1> DEFINE R == Item \cup Header
<1> HIDE DEF loc, o, R, log, file
<1>9. /\ log \in Seq(R) /\ Len(log) = Len(disk[file]) + 1
      /\ \A i \in 1..Len(disk[file]) : log[i] = disk[file][i]
      /\ log[Len(disk[file]) + 1] = Record(Req, o)
  <2>1. disk[file] \in Seq(R) /\ Record(Req, o) \in R
    BY <1>4, <1>8 DEF R, Log
  <2> QED BY <1>4, <1>8, <2>1
<1>10. Extends(log, disk[file], 0, 1)
  <2>1. DOMAIN disk[file] = 1..Len(disk[file])
    BY <1>4 DEF Log
  <2>2. Len(disk[file]) + 0 + 1 = Len(disk[file]) + 1
    BY <1>4
  <2>3. \A j \in 1..1 : ~IsHead(log[Len(disk[file]) + 0 + j])
    BY <1>8, <1>9, <2>2
  <2> QED BY <1>9, <2>1, <2>2, <2>3 DEF Extends
<1>11. log \in Log
  BY <1>9 DEF R, Log
<1>12. /\ wr' \in Call /\ Len(wr'.recs) = Len(wr.recs) /\ Len(wr'.locs) = Len(wr.locs)
       /\ wr'.recs = wr.recs /\ wr'.i = wr.i /\ wr'.pc = "apply" /\ wr'.kind = wr.kind
       /\ wr'.try = wr.try + 1
       /\ \A j \in DOMAIN wr.locs : j # wr.i => wr'.locs[j] = wr.locs[j]
       /\ wr'.locs[wr.i] = loc
  <2> DEFINE ls == [wr.locs EXCEPT ![wr.i] = loc]
  <2>1. ls \in Seq(Place) /\ Len(ls) = Len(wr.locs)
        /\ ls[wr.i] = loc /\ \A j \in DOMAIN wr.locs : j # wr.i => ls[j] = wr.locs[j]
    BY <1>2, <1>7, ExceptSeq
  <2>2. wr' = [wr EXCEPT !.pc = "apply", !.try = wr.try + 1, !.locs = ls]
    BY <1>1
  <2> HIDE DEF ls
  <2>3. wr.try + 1 \in Nat
    BY <1>2
  <2> QED BY <1>2, <2>1, <2>2, <2>3 DEF Call
<1>13. \/ Roll /\ file = NextFile /\ wr.try = 1
       \/ Stay /\ file = active /\ wr.try # 1
  BY <1>1 DEF file
<1>14. \/ nextOrd' = nextOrd + 1 /\ o = nextOrd
       \/ nextOrd' = nextOrd /\ o = Loc.ord
  BY <1>1 DEF o
<1> QED BY <1>1, <1>3, <1>4, <1>5, <1>6, <1>7, <1>9, <1>10, <1>11, <1>12, <1>13, <1>14

\* What a step may do to the files
LEMMA DiskSteps ==
    ASSUME [Next]_vars
    PROVE  \/ UNCHANGED onDisk
           \/ Write
           \/ (SyncBatch \/ Return \/ Sync \/ CkptCapture \/ MergeCapture)
           \/ (ApplyPut \/ ApplyRefused)
           \/ Rewrite
           \/ (CkptDrain \/ MergeDrain)
           \/ (CkptSave \/ MergeSave)
           \/ MergeOpen \/ MergeFlush \/ MergeRetire
           \/ Close
           \/ \E kind \in CrashKinds : Crash(kind)
           \/ \E w \in Workers : TakeFile(w)
<1>1. CASE UNCHANGED vars
  BY <1>1 DEF vars
<1>2. CASE ApplyRemove
  BY <1>2 DEF ApplyRemove, KeepFiles, onDisk
<1>3. CASE Checkpoint \/ Merge \/ MergeNothing \/ MergeFold \/ MergeMove \/ MergeNextFile
           \/ Open \/ Recovered \/ \E w \in Workers : RecoverRow(w)
  BY <1>3 DEF Checkpoint, Merge, MergeNothing, MergeFold, MergeMove, MergeNextFile, Open,
              Recovered, RecoverRow
<1>4. CASE Ended \/ OutOfFiles
  BY <1>4 DEF Ended, OutOfFiles, vars
<1> QED BY <1>1, <1>2, <1>3, <1>4 DEF Next, WriterStep, CkptStep, MergeStep, RecoveryStep

LEMMA HintRowType ==
    ASSUME Types, wr.pc = "apply"
    PROVE  HintRow \in Row0 /\ HintOfGroup \in [Files -> Seq(Row0)]
<1>1. Req \in Asking /\ Loc \in Place /\ active \in Files
  BY CallFacts
<1>2. HintRow \in Row0
  BY <1>1 DEF HintRow, Row0, Asking, Place
<1>3. hint[active] \in Seq(Row0) /\ hint \in [Files -> Seq(Row0)]
  BY <1>1 DEF Types, DiskTypes
<1>4. Append(hint[active], HintRow) \in Seq(Row0)
  BY <1>2, <1>3
<1> QED BY <1>2, <1>3, <1>4 DEF HintOfGroup

\* Rows appended to a hint file
LEMMA MoreRows ==
    ASSUME NEW rows \in Seq(Row0), NEW more \in Log, NEW n \in Nat, NEW base \in Nat,
           \A j \in 1..n : base + j \in DOMAIN more /\ ~IsHead(more[base + j])
    PROVE  rows \o [j \in 1..n |-> Row(more, base + j)] \in Seq(Row0)
<1>1. \A j \in 1..n : Row(more, base + j) \in Row0
  BY RowType
<1>2. [j \in 1..n |-> Row(more, base + j)] \in Seq(Row0)
  BY <1>1, IsASeq
<1> QED BY <1>2

LEMMA ExtendedAt ==
    ASSUME NEW log \in Log, NEW more \in Log, NEW skip \in 0..1, NEW n \in Nat,
           Extends(more, log, skip, n)
    PROVE  /\ Len(log) \in Nat /\ Len(more) = Len(log) + skip + n
           /\ DOMAIN log = 1..Len(log) /\ DOMAIN more = 1..Len(more)
           /\ Len(log) + skip \in Nat
           /\ \A j \in 1..n : /\ Len(log) + skip + j \in DOMAIN more
                              /\ ~IsHead(more[Len(log) + skip + j])
<1>1. Len(log) \in Nat /\ DOMAIN log = 1..Len(log) /\ DOMAIN more = 1..Len(more)
      /\ Len(more) \in Nat
  BY DEF Log
<1>2. Len(more) = Len(log) + skip + n
  BY DEF Extends
<1>3. ASSUME NEW j \in 1..n
      PROVE  Len(log) + skip + j \in DOMAIN more /\ ~IsHead(more[Len(log) + skip + j])
  <2>1. Len(log) + skip + j \in 1..Len(more)
    BY <1>1, <1>2
  <2> QED BY <1>1, <2>1 DEF Extends
<1> QED BY <1>1, <1>2, <1>3

LEMMA TruncatedType ==
    ASSUME NEW log \in Log, NEW n \in 0..Len(log)
    PROVE  /\ SubSeq(log, 1, n) \in Log /\ Len(SubSeq(log, 1, n)) = n
           /\ \A i \in 1..n : SubSeq(log, 1, n)[i] = log[i]
<1>1. Len(log) \in Nat
  BY DEF Log
<1>2. \A i \in 1..n : log[i] \in Item \cup Header
  BY <1>1 DEF Log
<1>3. n \in Int /\ 1 \in Int
  BY <1>1
<1> QED BY <1>2, <1>3, SubSeqProperties DEF Log

LEMMA TailCutType ==
    ASSUME Types, mode = "recovering", NEW f \in Files
    PROVE  /\ TornTailCut(f) \in Log /\ Len(TornTailCut(f)) \in 0..Len(disk[f])
           /\ FoldStart(f) \in Nat /\ RowsOf(f) \in Seq(Row0)
           /\ \A i \in 1..Len(TornTailCut(f)) : TornTailCut(f)[i] = disk[f][i]
           /\ UsesHint(f) => TornTailCut(f) = disk[f] /\ RowsOf(f) = hint[f]
           /\ ~UsesHint(f) => RowsOf(f) = RowsFrom(disk[f], FoldStart(f))
           /\ ~UsesHint(f) =>
                 \/ /\ TornTailCut(f) = disk[f]
                    /\ LastValidEnd(disk[f], FoldStart(f)) > Len(disk[f])
                 \/ Len(TornTailCut(f)) = LastValidEnd(disk[f], FoldStart(f))
<1>1. disk[f] \in Log /\ Len(disk[f]) \in Nat /\ hint[f] \in Seq(Row0)
  BY DEF Types, DiskTypes, Log
<1>2. FoldStart(f) \in Nat
  <2>1. rc.wms \in Marks
    BY DEF Types, RecoveryTypes
  <2>2. f \in DOMAIN rc.wms => rc.wms[f] \in Nat
    BY <2>1 DEF Marks
  <2> QED BY <2>2 DEF FoldStart
<1> DEFINE e == LastValidEnd(disk[f], FoldStart(f))
<1>3. e \in Nat
  BY <1>1, <1>2, EndOfFold DEF Log
<1>4. RowsOf(f) \in Seq(Row0)
  BY <1>1, <1>2, RowsType DEF RowsOf
<1>5. CASE UsesHint(f) \/ e > Len(disk[f])
  BY <1>1, <1>2, <1>4, <1>5 DEF TornTailCut, RowsOf
<1>6. CASE ~(UsesHint(f) \/ e > Len(disk[f]))
  <2>1. TornTailCut(f) = SubSeq(disk[f], 1, e) /\ e \in 0..Len(disk[f])
    BY <1>1, <1>3, <1>6 DEF TornTailCut
  <2> HIDE DEF e
  <2>2. TornTailCut(f) \in Log /\ Len(TornTailCut(f)) = e
        /\ \A i \in 1..e : TornTailCut(f)[i] = disk[f][i]
    BY <1>1, <2>1, TruncatedType
  <2> QED BY <1>2, <1>4, <1>6, <2>1, <2>2 DEF e, RowsOf
<1> QED BY <1>5, <1>6

\* A power loss: every file keeps its durable records, and maybe more.
LEMMA CrashShape ==
    ASSUME Types, NEW kind \in CrashKinds, Crash(kind),
           \A f \in Files : durable[f] <= Len(disk[f])
    PROVE  /\ disk' \in [Files -> Log] /\ durable' \in [Files -> Nat]
           /\ sealed' \subseteq sealed
           /\ \A f \in Files : /\ Len(disk'[f]) \in durable[f]..Len(disk[f])
                               /\ \A i \in 1..Len(disk'[f]) : disk'[f][i] = disk[f][i]
                               /\ durable'[f] >= durable[f]
                               /\ durable'[f] <= Len(disk'[f])
                               /\ kind # "process" => durable'[f] = Len(disk'[f])
                               /\ kind = "process" => disk'[f] = disk[f]
                               /\ durable[f] = Len(disk[f]) => /\ disk'[f] = disk[f]
                                                               /\ durable'[f] = durable[f]
           /\ kind = "process" => UNCHANGED onDisk
           /\ UNCHANGED <<present, hint, snap>>
<1>0. \A f \in Files : disk[f] \in Log /\ Len(disk[f]) \in Nat /\ durable[f] \in Nat
                       /\ DOMAIN disk[f] = 1..Len(disk[f])
  BY DEF Types, DiskTypes, Log
<1>1. CASE kind = "process"
  <2>1. UNCHANGED onDisk
    BY <1>1 DEF Crash
  <2> QED BY <1>0, <1>1, <2>1 DEF onDisk, Types, DiskTypes
<1>2. CASE kind # "process"
  <2>1. PICK cut \in [Loose -> UNION {durable[f]..Len(disk[f]) : f \in Loose}] :
          /\ \A f \in Loose : cut[f] \in durable[f]..Len(disk[f])
          /\ disk' = [f \in Files |-> IF f \in Loose
                                    THEN SubSeq(disk[f], 1, cut[f]) ELSE disk[f]]
          /\ durable' = [f \in Files |-> IF f \in Loose THEN cut[f] ELSE durable[f]]
    BY <1>2 DEF Crash
  <2>2. sealed' \subseteq sealed /\ UNCHANGED <<present, hint, snap>>
    BY <1>2 DEF Crash
  <2>3. ASSUME NEW f \in Files
        PROVE  /\ disk'[f] \in Log /\ durable'[f] \in Nat
               /\ Len(disk'[f]) \in durable[f]..Len(disk[f])
               /\ \A i \in 1..Len(disk'[f]) : disk'[f][i] = disk[f][i]
               /\ durable'[f] >= durable[f] /\ durable'[f] = Len(disk'[f])
               /\ durable[f] = Len(disk[f]) => disk'[f] = disk[f] /\ durable'[f] = durable[f]
    <3>1. CASE f \in Loose
      <4>1. PICK n : n = cut[f]
        OBVIOUS
      <4>2. n \in 0..Len(disk[f]) /\ n >= durable[f] /\ durable[f] < Len(disk[f])
        <5>1. n \in durable[f]..Len(disk[f])
          BY <2>1, <3>1, <4>1
        <5>2. durable[f] \in Nat /\ Len(disk[f]) \in Nat
          BY <1>0
        <5>3. durable[f] < Len(disk[f])
          BY <3>1 DEF Loose
        <5> QED BY <5>1, <5>2, <5>3
      <4>3. disk'[f] = SubSeq(disk[f], 1, n) /\ durable'[f] = n
        BY <2>1, <3>1, <4>1
      <4>4. /\ SubSeq(disk[f], 1, n) \in Log /\ Len(SubSeq(disk[f], 1, n)) = n
            /\ \A i \in 1..n : SubSeq(disk[f], 1, n)[i] = disk[f][i]
        BY <1>0, <4>2, TruncatedType
      <4> QED BY <1>0, <4>2, <4>3, <4>4
    <3>2. CASE f \notin Loose
      <4>1. disk'[f] = disk[f] /\ durable'[f] = durable[f]
        BY <2>1, <3>2
      <4>2. durable[f] = Len(disk[f])
        BY <1>0, <3>2 DEF Loose
      <4> QED BY <1>0, <4>1, <4>2
    <3> QED BY <3>1, <3>2
  <2>4. disk' \in [Files -> Log] /\ durable' \in [Files -> Nat]
    <3>1. disk' = [f \in Files |-> disk'[f]] /\ durable' = [f \in Files |-> durable'[f]]
      BY <2>1
    <3> QED BY <2>3, <3>1
  <2>5. \A f \in Files : Len(disk'[f]) \in Nat /\ durable'[f] \in Nat
    BY <2>3 DEF Log
  <2> QED BY <1>2, <2>2, <2>3, <2>4, <2>5
<1> QED BY <1>1, <1>2

\* A worker takes the oldest file that is left.
LEMMA TakenFile ==
    ASSUME Types, NEW w \in Workers, TakeFile(w)
    PROVE  \E f \in Files :
             /\ f \in rc.todo /\ mode = "recovering" /\ rc.work[w] = NoWork
             /\ rc' = [rc EXCEPT !.todo = rc.todo \ {f},
                         !.work[w] = IF RowsOf(f) = <<>> THEN NoWork
                                     ELSE [file |-> f, rows |-> RowsOf(f)]]
             /\ biggest' = Larger(biggest, f)
             /\ disk' = [disk EXCEPT ![f] = TornTailCut(f)]
             /\ durable' = [durable EXCEPT ![f] = IF durable[f] < Len(TornTailCut(f))
                                                  THEN durable[f] ELSE Len(TornTailCut(f))]
<1>1. rc.todo \in SUBSET Files /\ rc.todo # {}
      /\ rc \in [todo : SUBSET Files, wms : Marks, work : [Workers -> Work]]
  BY DEF TakeFile, Types, RecoveryTypes
<1> DEFINE f == CHOOSE g \in rc.todo : \A h \in rc.todo : g <= h
<1>2. f \in rc.todo
  <2>1. \E g \in rc.todo : \A h \in rc.todo : g <= h
    BY <1>1, Numbers, LeastExists
  <2> QED BY <2>1
<1>3. /\ mode = "recovering" /\ rc.work[w] = NoWork
      /\ rc' = [rc EXCEPT !.todo = @ \ {f},
                      !.work[w] = IF RowsOf(f) = <<>> THEN NoWork
                                  ELSE [file |-> f, rows |-> RowsOf(f)]]
      /\ biggest' = Larger(biggest, f)
      /\ disk' = [disk EXCEPT ![f] = TornTailCut(f)]
      /\ durable' = [durable EXCEPT ![f] = IF @ < Len(TornTailCut(f)) THEN @
                                           ELSE Len(TornTailCut(f))]
  BY DEF TakeFile
<1> HIDE DEF f
<1>4. f \in Files
  BY <1>1, <1>2
<1> QED BY <1>2, <1>3, <1>4

\* One row of a worker's file reaches the keydir.
LEMMA RecoveredRow ==
    ASSUME Types, NEW w \in Workers, RecoverRow(w)
    PROVE  \E f \in Files, r \in Row0 :
             /\ f = rc.work[w].file /\ rc.work[w].rows # <<>> /\ r = rc.work[w].rows[1]
             /\ mode = "recovering" /\ nextOrd' = OrdAfter(r)
             /\ \/ \E o \in Nat :
                     \/ kd' \in Sweeps([kd EXCEPT ![r.key] = Removed(kd[r.key], o, TRUE)])
                     \/ kd' = [kd EXCEPT ![r.key] = Removed(kd[r.key], o, TRUE)]
                \/ kd' \in Sweeps([kd EXCEPT ![r.key] =
                                       RecoveredPut(kd[r.key], f, r.pos, r.ts, r.ord)])
             /\ \/ Len(rc.work[w].rows) = 1 /\ rc' = [rc EXCEPT !.work[w] = NoWork]
                \/ /\ Len(rc.work[w].rows) > 1
                   /\ rc' = [rc EXCEPT !.work[w] = [file |-> f, rows |-> Tail(rc.work[w].rows)]]
<1>1. rc \in [todo : SUBSET Files, wms : Marks, work : [Workers -> Work]]
      /\ rc.work[w] \in Work /\ rc.work[w] # NoWork
  BY DEF RecoverRow, Types, RecoveryTypes
<1>2. PICK f \in Files, rows \in Seq(Row0) :
        f = rc.work[w].file /\ rows = rc.work[w].rows /\ rows # <<>>
  BY <1>1 DEF Work
<1>3. PICK r \in Row0 : r = rows[1] /\ Head(rows) = r
  BY <1>2
<1>4. /\ mode = "recovering" /\ nextOrd' = OrdAfter(r)
      /\ rc' = [rc EXCEPT !.work[w] = IF Len(rows) = 1 THEN NoWork
                                       ELSE [file |-> f, rows |-> Tail(rows)]]
  BY <1>2, <1>3 DEF RecoverRow
<1>5. Len(rows) \in Nat \ {0}
  BY <1>2
<1>6. r.kind = "tomb" =>
        \/ kd' \in Sweeps([kd EXCEPT ![r.key] = Removed(kd[r.key], r.ord, TRUE)])
        \/ kd' = [kd EXCEPT ![r.key] = Removed(kd[r.key], r.ord, TRUE)]
  BY <1>2, <1>3 DEF RecoverRow
<1>7. r.kind # "tomb" => kd' \in Sweeps([kd EXCEPT ![r.key] =
                                 RecoveredPut(kd[r.key], f, r.pos, r.ts, r.ord)])
  BY <1>2, <1>3 DEF RecoverRow
<1>8. r.ord \in Nat
  BY DEF Row0
<1>9. \/ Len(rows) = 1 /\ rc' = [rc EXCEPT !.work[w] = NoWork]
      \/ Len(rows) > 1 /\ rc' = [rc EXCEPT !.work[w] = [file |-> f, rows |-> Tail(rows)]]
  <2>1. CASE Len(rows) = 1
    BY <1>4, <2>1
  <2>2. CASE Len(rows) # 1
    <3>1. Len(rows) > 1
      <4>1. PICK l : l = Len(rows)
        OBVIOUS
      <4>2. l \in Nat \ {0} /\ l # 1
        BY <1>5, <2>2, <4>1
      <4>3. l > 1
        BY <4>2
      <4> QED BY <4>1, <4>3
    <3> QED BY <1>4, <2>2, <3>1
  <2> QED BY <2>1, <2>2
<1>10. \/ \E o \in Nat :
            \/ kd' \in Sweeps([kd EXCEPT ![r.key] = Removed(kd[r.key], o, TRUE)])
            \/ kd' = [kd EXCEPT ![r.key] = Removed(kd[r.key], o, TRUE)]
       \/ kd' \in Sweeps([kd EXCEPT ![r.key] = RecoveredPut(kd[r.key], f, r.pos, r.ts, r.ord)])
  BY <1>6, <1>7, <1>8
<1> QED BY <1>2, <1>3, <1>4, <1>9, <1>10

(***************************************************************************)
(* Every step keeps the types                                              *)
(***************************************************************************)
LEMMA DiskTypesKept ==
    ASSUME Types, Places, [Next]_vars
    PROVE  DiskTypes'
<1>0. /\ disk \in [Files -> Log] /\ present \in SUBSET Files
      /\ durable \in [Files -> Nat] /\ hint \in [Files -> Seq(Row0)]
      /\ sealed \in SUBSET Files
      /\ (snap = <<>> \/ \E s \in Saved : snap = <<s>>)
  BY DEF Types, DiskTypes
<1>1. CASE UNCHANGED onDisk
  <2>1. UNCHANGED <<disk, present, durable, hint, sealed, snap>>
    BY <1>1 DEF onDisk
  <2> QED BY <1>0, <2>1 DEF DiskTypes
<1>2. CASE Write
  <2>1. PICK kind, file, head, n : Starts(kind, file, head, n)
    BY <1>2, WriteShape
  <2>2. /\ file \in Files /\ head \in 0..1 /\ n \in Nat /\ (Roll \/ Stay) /\ snap' = snap
    BY <2>1 DEF Starts
  <2>3. PICK more \in Log :
          /\ disk' = [disk EXCEPT ![file] = more]
          /\ Extends(more, disk[file], head, n)
          /\ hint' = IF kind = "group" THEN hint
                     ELSE [hint EXCEPT ![file] = hint[file] \o
                              [j \in 1..n |-> Row(more, Len(disk[file]) + head + j)]]
    BY <2>1 DEF Starts
  <2>4. disk' \in [Files -> Log]
    BY <1>0, <2>2, <2>3
  <2>5. hint' \in [Files -> Seq(Row0)]
    <3>1. PICK base : base = Len(disk[file]) + head
      OBVIOUS
    <3>2. base \in Nat /\ \A j \in 1..n : base + j \in DOMAIN more /\ ~IsHead(more[base + j])
      BY <1>0, <2>2, <2>3, <3>1, ExtendedAt
    <3>3. hint[file] \o [j \in 1..n |-> Row(more, base + j)] \in Seq(Row0)
      BY <1>0, <2>2, <3>2, MoreRows
    <3>4. hint' = hint \/ hint' = [hint EXCEPT ![file] = hint[file] \o
                                      [j \in 1..n |-> Row(more, base + j)]]
      BY <2>3, <3>1
    <3> QED BY <1>0, <2>2, <3>3, <3>4
  <2>6. present' \in SUBSET Files /\ durable' \in [Files -> Nat] /\ sealed' \in SUBSET Files
    BY <1>0, <2>2, RollTypes DEF Stay
  <2> QED BY <1>0, <2>2, <2>4, <2>5, <2>6 DEF DiskTypes
<1>3. CASE SyncBatch \/ Return \/ Sync \/ CkptCapture \/ MergeCapture
  <2>1. UNCHANGED <<disk, present, hint, sealed, snap>>
    BY <1>3 DEF SyncBatch, Return, Sync, CkptCapture, MergeCapture
  <2>2. durable' \in [Files -> Nat]
    <3>1. CASE SyncBatch
      <4>1. wr.locs[1] \in Place
        BY <3>1, CallFacts DEF SyncBatch
      <4>2. durable' = Fsynced(wr.locs[1].file) /\ wr.locs[1].file \in Files
        BY <3>1, <4>1 DEF SyncBatch, Place
      <4> QED BY <4>2, DurableTypes
    <3>2. CASE Return
      <4>1. durable' = durable \/ (durable' = Fsynced(active) /\ active \in Files)
        BY <3>2, CallFacts DEF Return, DurableAtReturn
      <4> QED BY <1>0, <4>1, DurableTypes
    <3>3. CASE Sync
      <4>1. durable' = durable \/ (durable' = Fsynced(active) /\ active # 0)
        BY <3>3 DEF Sync
      <4> QED BY <1>0, <4>1, DurableTypes
    <3>4. CASE CkptCapture \/ MergeCapture
      BY <3>4, DurableTypes DEF CkptCapture, MergeCapture
    <3> QED BY <1>3, <3>1, <3>2, <3>3, <3>4
  <2> QED BY <1>0, <2>1, <2>2 DEF DiskTypes
<1>4. CASE ApplyPut \/ ApplyRefused
  <2>1. UNCHANGED <<disk, present, durable, sealed, snap>> /\ hint' = HintOfGroup
        /\ wr.pc = "apply"
    BY <1>4 DEF ApplyPut, ApplyRefused, KeepFiles
  <2> QED BY <1>0, <2>1, HintRowType DEF DiskTypes
<1>5. CASE Rewrite
  <2>1. PICK file \in Files, more \in Log, o \in Nat :
          /\ Roll \/ Stay
          /\ disk' = [disk EXCEPT ![file] = more]
          /\ Extends(more, disk[file], 0, 1)
          /\ hint' = [hint EXCEPT ![file] = Append(hint[file], Row(more, Len(disk[file]) + 1))]
    BY <1>5, RewriteShape
  <2>2. snap' = snap
    BY <1>5 DEF Rewrite
  <2>3. Row(more, Len(disk[file]) + 1) \in Row0
    <3>1. disk[file] \in Log /\ Len(disk[file]) + 0 = Len(disk[file])
      BY <1>0 DEF Log
    <3>2. Len(disk[file]) + 0 + 1 \in DOMAIN more /\ ~IsHead(more[Len(disk[file]) + 0 + 1])
      BY <2>1, <3>1, ExtendedAt
    <3> QED BY <3>1, <3>2, RowType
  <2>4. disk' \in [Files -> Log]
    BY <1>0, <2>1
  <2>5. hint' \in [Files -> Seq(Row0)]
    <3>1. PICK r \in Row0 : r = Row(more, Len(disk[file]) + 1)
      BY <2>3
    <3>2. Append(hint[file], r) \in Seq(Row0)
      BY <1>0, <2>1
    <3> QED BY <1>0, <2>1, <3>1, <3>2
  <2>6. present' \in SUBSET Files /\ durable' \in [Files -> Nat] /\ sealed' \in SUBSET Files
    BY <1>0, <2>1, RollTypes DEF Stay
  <2> QED BY <1>0, <2>2, <2>4, <2>5, <2>6 DEF DiskTypes
<1>6. CASE CkptDrain \/ MergeDrain
  <2>1. DrainOne /\ snap' = snap
    BY <1>6 DEF CkptDrain, MergeDrain
  <2> QED BY <1>0, <2>1, UnlinkTypes DEF DiskTypes
<1>7. CASE CkptSave \/ MergeSave
  <2>1. PICK wms \in Marks : SaveSnapshot(wms)
    <3>1. CASE CkptSave
      <4>1. ck \in Saving /\ SaveSnapshot(ck.wms)
        BY <3>1, JobFacts DEF CkptSave
      <4> QED BY <4>1 DEF Saving
    <3>2. CASE MergeSave
      <4>1. mg \in Saving /\ SaveSnapshot(mg.wms)
        BY <3>2, JobFacts DEF MergeSave
      <4> QED BY <4>1 DEF Saving
    <3> QED BY <1>7, <3>1, <3>2
  <2>2. UNCHANGED <<disk, present, durable, hint, sealed>>
    BY <1>7 DEF CkptSave, MergeSave
  <2>3. snap' = snap \/ \E s \in Saved : snap' = <<s>>
    BY <2>1, SnapshotType DEF SaveSnapshot
  <2> QED BY <1>0, <2>2, <2>3 DEF DiskTypes
<1>8. CASE MergeOpen
  <2>1. UNCHANGED <<disk, durable, hint, sealed, snap>> /\ present' = present \cup {NextFile}
        /\ biggest < MaxFile
    BY <1>8 DEF MergeOpen
  <2>2. NextFile \in Files
    BY <2>1, Numbers DEF NextFile, Files, Types, IndexTypes
  <2> QED BY <1>0, <2>1, <2>2 DEF DiskTypes
<1>9. CASE MergeFlush
  <2>1. PICK more \in Log, n \in Nat :
             /\ mg.out \in Files
             /\ disk' = [disk EXCEPT ![mg.out] = more]
             /\ Extends(more, disk[mg.out], 0, n)
             /\ durable' = [durable EXCEPT ![mg.out] = Len(more)]
             /\ hint' = [hint EXCEPT ![mg.out] = hint[mg.out] \o
                            [j \in 1..n |-> Row(more, Len(disk[mg.out]) + j)]]
    BY <1>9, FlushShape
  <2>2. UNCHANGED <<present, sealed, snap>>
    BY <1>9 DEF MergeFlush
  <2>3. disk[mg.out] \in Log /\ Len(disk[mg.out]) \in Nat
        /\ Len(disk[mg.out]) + 0 = Len(disk[mg.out]) /\ Len(more) \in Nat
    BY <1>0, <2>1 DEF Log
  <2>4. \A j \in 1..n : /\ Len(disk[mg.out]) + j \in DOMAIN more
                        /\ ~IsHead(more[Len(disk[mg.out]) + j])
    <3>1. 0 \in 0..1 /\ n \in Nat /\ disk[mg.out] \in Log /\ more \in Log
      BY <2>1, <2>3
    <3>2. \A j \in 1..n : /\ Len(disk[mg.out]) + 0 + j \in DOMAIN more
                          /\ ~IsHead(more[Len(disk[mg.out]) + 0 + j])
      BY <2>1, <3>1, ExtendedAt
    <3> QED BY <2>3, <3>2
  <2>5. PICK rows \in Seq(Row0) : rows = hint[mg.out] \o [j \in 1..n |-> Row(more, Len(disk[mg.out]) + j)]
    <3>1. hint[mg.out] \in Seq(Row0)
      BY <1>0, <2>1
    <3> QED BY <2>1, <2>3, <2>4, <3>1, MoreRows
  <2>6. disk' \in [Files -> Log] /\ durable' \in [Files -> Nat]
    BY <1>0, <2>1, <2>3
  <2>7. hint' \in [Files -> Seq(Row0)]
    BY <1>0, <2>1, <2>5
  <2> QED BY <1>0, <2>2, <2>6, <2>7 DEF DiskTypes
<1>10. CASE MergeRetire
  <2>1. UNCHANGED <<disk, present, durable, hint, snap>> /\ sealed' = sealed \cup {mg.out}
        /\ Copies
    BY <1>10 DEF MergeRetire, Copies
  <2>2. mg.out \in Files
    BY <2>1, JobFacts DEF Copying
  <2> QED BY <1>0, <2>1, <2>2 DEF DiskTypes
<1>11. CASE Close
  <2>1. /\ sealed' = SealedAfterRoll \ Gone /\ present' = present \ Gone
        /\ disk' = [f \in Files |-> IF f \in Gone THEN <<>> ELSE disk[f]]
        /\ hint' = [f \in Files |-> IF f \in Gone THEN <<>> ELSE hint[f]]
        /\ durable' = [f \in Files |-> IF f \in Gone THEN 0 ELSE DurableIfSealed[f]]
        /\ SaveSnapshot([f \in present' |-> Len(disk[f])])
    BY <1>11 DEF Close
  <2>2. [f \in present' |-> Len(disk[f])] \in Marks
    <3>1. present' \in SUBSET Files /\ \A f \in Files : Len(disk[f]) \in Nat
      BY <1>0, <2>1 DEF Log
    <3>2. [f \in present' |-> Len(disk[f])] \in [present' -> Nat]
      BY <3>1
    <3> QED BY <3>1, <3>2 DEF Marks
  <2>3. snap' = snap \/ \E s \in Saved : snap' = <<s>>
    BY <2>1, <2>2, SnapshotType DEF SaveSnapshot
  <2>4. sealed' \in SUBSET Files /\ present' \in SUBSET Files /\ durable' \in [Files -> Nat]
    BY <1>0, <2>1, DurableTypes
  <2>5. <<>> \in Log /\ <<>> \in Seq(Row0)
    BY DEF Log
  <2>6. disk' \in [Files -> Log] /\ hint' \in [Files -> Seq(Row0)]
    BY <1>0, <2>1, <2>5
  <2> QED BY <1>0, <2>3, <2>4, <2>6 DEF DiskTypes
<1>12. ASSUME NEW kind \in CrashKinds, Crash(kind) PROVE DiskTypes'
  <2>1. /\ disk' \in [Files -> Log] /\ durable' \in [Files -> Nat] /\ sealed' \subseteq sealed
        /\ UNCHANGED <<present, hint, snap>>
    BY <1>12, CrashShape DEF Places
  <2> QED BY <1>0, <2>1 DEF DiskTypes
<1>13. ASSUME NEW w \in Workers, TakeFile(w) PROVE DiskTypes'
  <2>1. PICK f \in Files :
          /\ disk' = [disk EXCEPT ![f] = TornTailCut(f)]
          /\ durable' = [durable EXCEPT ![f] = IF durable[f] < Len(TornTailCut(f)) THEN durable[f]
                                               ELSE Len(TornTailCut(f))]
    BY <1>13, TakenFile
  <2>2. UNCHANGED <<present, hint, sealed, snap>> /\ mode = "recovering"
    BY <1>13 DEF TakeFile
  <2>3. TornTailCut(f) \in Log /\ Len(TornTailCut(f)) \in Nat
    BY <2>2, TailCutType DEF Log
  <2>4. disk' \in [Files -> Log] /\ durable' \in [Files -> Nat]
    BY <1>0, <2>1, <2>3
  <2> QED BY <1>0, <2>2, <2>4 DEF DiskTypes
<1> QED BY <1>1, <1>2, <1>3, <1>4, <1>5, <1>6, <1>7, <1>8, <1>9, <1>10, <1>11, <1>12, <1>13, DiskSteps

LEMMA IndexTypesKept ==
    ASSUME Types, [Next]_vars
    PROVE  IndexTypes'
<1>0. /\ mode \in {"open", "closed", "recovering"}
      /\ kd \in [Keys -> Cell] /\ biggest \in 0..MaxFile /\ nextOrd \in Nat
      /\ active \in 0..MaxFile /\ retired \in Seq(Files)
  BY DEF Types, IndexTypes
<1>1. CASE Write
  <2>1. PICK kind, file, head, n : Starts(kind, file, head, n)
    BY <1>1, WriteShape
  <2>2. /\ head \in Nat /\ n \in Nat /\ (Roll \/ Stay) /\ nextOrd' = nextOrd + head + n
        /\ UNCHANGED <<mode, kd, retired>>
    BY <2>1 DEF Starts
  <2> QED BY <1>0, <2>2, RollTypes DEF IndexTypes, Stay
<1>2. CASE SyncBatch \/ Return \/ Sync \/ Checkpoint \/ CkptCapture \/ CkptSave \/ Merge
           \/ MergeNothing \/ MergeFold \/ MergeFlush \/ MergeNextFile \/ MergeCapture
           \/ MergeSave \/ UNCHANGED vars
  <2>1. UNCHANGED <<mode, index, active, retired>>
    BY <1>2 DEF SyncBatch, Return, Sync, Checkpoint, CkptCapture, CkptSave, Merge,
           MergeNothing, MergeFold, MergeFlush, MergeNextFile, MergeCapture, MergeSave, vars
  <2> QED BY <1>0, <2>1 DEF IndexTypes, index
<1>3. CASE ApplyPut \/ ApplyRefused
  <2>1. UNCHANGED <<mode, active, retired, nextOrd>> /\ wr.pc = "apply"
    BY <1>3 DEF ApplyPut, ApplyRefused, KeepFiles, KeepRest
  <2>2. Req \in Asking /\ Loc \in Place /\ active \in Files
    BY <2>1, CallFacts
  <2>3. FileOfApply \in 0..MaxFile
    BY <2>2, Numbers DEF FileOfApply, Place
  <2>4. PICK cell \in Cell : cell = Live(FileOfApply, Loc.pos, Req.ts, Loc.ord)
    BY <2>2, <2>3, Cells DEF Place, Asking
  <2>5. kd' \in [Keys -> Cell]
    <3>1. kd' \in Sweeps(kd) \/ kd' \in Sweeps([kd EXCEPT ![Req.key] = cell])
      BY <1>3, <2>4 DEF ApplyPut, ApplyRefused
    <3>2. PICK before \in [Keys -> Cell] : kd' \in Sweeps(before)
      BY <1>0, <3>1
    <3> QED BY <3>2, SweepsKeep
  <2>6. biggest' \in 0..MaxFile
    BY <1>0, <1>3, <2>3 DEF ApplyPut, ApplyRefused, Larger
  <2> QED BY <1>0, <2>1, <2>5, <2>6 DEF IndexTypes
<1>4. CASE ApplyRemove
  <2>1. UNCHANGED <<mode, active, retired, biggest, nextOrd>> /\ wr.pc = "apply"
    BY <1>4 DEF ApplyRemove, KeepFiles, KeepRest
  <2>2. Req.key \in Keys /\ Loc \in Place
    BY <2>1, CallFacts
  <2>3. PICK cell \in Cell : cell = Removed(kd[Req.key], Loc.ord, FALSE)
    BY <1>0, <2>2, Cells DEF Place
  <2>4. PICK after \in [Keys -> Cell] : after = [kd EXCEPT ![Req.key] = cell]
    BY <1>0, <2>2
  <2>5. kd' \in Sweeps(after) \/ kd' = after
    BY <1>4, <2>3, <2>4 DEF ApplyRemove
  <2>6. kd' \in [Keys -> Cell]
    BY <2>5, SweepsKeep
  <2> QED BY <1>0, <2>1, <2>6 DEF IndexTypes
<1>5. CASE Rewrite
  <2>1. PICK o \in Nat : (Roll \/ Stay) /\ (nextOrd' = nextOrd + 1 \/ nextOrd' = nextOrd)
    BY <1>5, RewriteShape
  <2>2. UNCHANGED <<mode, kd, retired>>
    BY <1>5 DEF Rewrite, KeepRest
  <2>3. nextOrd' \in Nat
    BY <1>0, <2>1
  <2> QED BY <1>0, <2>1, <2>2, <2>3, RollTypes DEF IndexTypes, Stay
<1>6. CASE CkptDrain \/ MergeDrain
  <2>1. DrainOne /\ UNCHANGED <<mode, index, active>> /\ retired' = Tail(retired)
    BY <1>6 DEF CkptDrain, MergeDrain, DrainOne
  <2> QED BY <1>0, <2>1, UnlinkTypes DEF IndexTypes, index
<1>7. CASE MergeOpen
  <2>1. UNCHANGED <<mode, kd, nextOrd, active, retired>> /\ biggest' = NextFile
        /\ biggest < MaxFile
    BY <1>7 DEF MergeOpen
  <2> QED BY <1>0, <2>1, Numbers DEF IndexTypes, NextFile
<1>8. CASE MergeMove
  <2>1. UNCHANGED <<mode, biggest, nextOrd, active, retired>> /\ Copies /\ mg.moves # <<>>
    BY <1>8 DEF MergeMove, Copies
  <2>2. mg.out \in Files /\ mg.pos \in Nat /\ mg.moves \in Seq(Move)
    BY <2>1, JobFacts DEF Copying
  <2>3. Head(mg.moves) \in Move
    <3>1. mg.moves \in Seq(Move) /\ mg.moves # <<>>
      BY <2>1, <2>2
    <3> QED BY <3>1
  <2>4. PICK rec \in Item : rec = Head(mg.moves).rec
    BY <2>3 DEF Move
  <2>5. PICK cell \in Cell : cell = Live(mg.out, mg.pos, rec.ts, rec.ord)
    BY <2>2, Cells, Numbers DEF Item
  <2>6. kd' \in Sweeps(kd) \/ kd' \in Sweeps([kd EXCEPT ![rec.key] = cell])
    BY <1>8, <2>4, <2>5 DEF MergeMove
  <2>7. PICK before \in [Keys -> Cell] : kd' \in Sweeps(before)
    BY <1>0, <2>6
  <2>8. kd' \in [Keys -> Cell]
    BY <2>7, SweepsKeep
  <2> QED BY <1>0, <2>1, <2>8 DEF IndexTypes
<1>9. CASE MergeRetire
  <2>1. UNCHANGED <<mode, index, active>> /\ retired' = retired \o Ascending(RetiredBy(mg))
        /\ Copies
    BY <1>9 DEF MergeRetire, Copies
  <2>2. RetiredBy(mg) \in SUBSET Files
    BY <2>1, JobFacts DEF Copying, RetiredBy
  <2>3. PICK more \in Seq(Files) : more = Ascending(RetiredBy(mg))
    BY <2>2, RangeOfAscending
  <2>4. retired' \in Seq(Files)
    BY <1>0, <2>1, <2>3
  <2> QED BY <1>0, <2>1, <2>4 DEF IndexTypes, index
<1>10. CASE Forget
  <2>1. /\ kd' = [k \in Keys |-> NoEntry] /\ biggest' = 0 /\ nextOrd' = 0
        /\ active' = 0 /\ retired' = <<>> /\ mode' = "closed"
    BY <1>10 DEF Forget
  <2>2. kd' \in [Keys -> Cell] /\ <<>> \in Seq(Files)
    BY <2>1, Cells
  <2> QED BY <2>1, <2>2, Numbers DEF IndexTypes
<1>11. CASE Open
  <2>1. UNCHANGED <<active, retired>> /\ mode' = "recovering"
    BY <1>11 DEF Open
  <2>2. CASE snap = <<>>
    BY <1>0, <1>11, <2>1, <2>2 DEF Open, IndexTypes, index
  <2>3. CASE snap # <<>>
    <3>1. PICK s \in Saved : snap = <<s>>
      BY <2>3 DEF Types, DiskTypes
    <3>2. kd' = s.kd /\ biggest' = s.biggest /\ nextOrd' = s.nextOrd
      BY <1>11, <2>3, <3>1 DEF Open
    <3> QED BY <1>0, <2>1, <3>2 DEF IndexTypes, Saved
  <2> QED BY <2>2, <2>3
<1>12. CASE Recovered
  BY <1>0, <1>12 DEF Recovered, IndexTypes, index
<1>13. ASSUME NEW w \in Workers, TakeFile(w) PROVE IndexTypes'
  <2>1. PICK f \in Files : biggest' = Larger(biggest, f)
    BY <1>13, TakenFile
  <2>2. UNCHANGED <<mode, kd, nextOrd, active, retired>>
    BY <1>13 DEF TakeFile
  <2>3. biggest' \in 0..MaxFile
    BY <1>0, <2>1, Numbers DEF Larger
  <2> QED BY <1>0, <2>2, <2>3 DEF IndexTypes
<1>14. ASSUME NEW w \in Workers, RecoverRow(w) PROVE IndexTypes'
  <2>1. UNCHANGED <<mode, biggest, active, retired>>
    BY <1>14 DEF RecoverRow
  <2>2. PICK f \in Files, r \in Row0 :
          /\ nextOrd' = OrdAfter(r)
          /\ \/ \E o \in Nat : \/ kd' \in Sweeps([kd EXCEPT ![r.key] = Removed(kd[r.key], o, TRUE)])
                               \/ kd' = [kd EXCEPT ![r.key] = Removed(kd[r.key], o, TRUE)]
             \/ kd' \in Sweeps([kd EXCEPT ![r.key] = RecoveredPut(kd[r.key], f, r.pos, r.ts, r.ord)])
    BY <1>14, RecoveredRow
  <2>3. nextOrd' \in Nat
    BY <1>0, <2>2 DEF OrdAfter, Larger, Row0
  <2>4. PICK cell \in Cell : \/ kd' \in Sweeps([kd EXCEPT ![r.key] = cell])
                             \/ kd' = [kd EXCEPT ![r.key] = cell]
    <3>1. r.key \in Keys /\ r.pos \in Nat /\ r.ts \in Nat /\ r.ord \in Nat /\ kd[r.key] \in Cell
          /\ f \in 0..MaxFile
      BY <1>0, <2>2, Numbers DEF Row0
    <3>2. \A o \in Nat : Removed(kd[r.key], o, TRUE) \in Cell
      BY <3>1, Cells
    <3>3. RecoveredPut(kd[r.key], f, r.pos, r.ts, r.ord) \in Cell
      BY <3>1, Cells
    <3> QED BY <2>2, <3>2, <3>3
  <2>5. PICK before \in [Keys -> Cell] : kd' \in Sweeps(before) \/ kd' = before
    BY <1>0, <2>4
  <2>6. kd' \in [Keys -> Cell]
    BY <2>5, SweepsKeep
  <2> QED BY <1>0, <2>1, <2>3, <2>6 DEF IndexTypes
<1>15. CASE Close \/ \E kind \in CrashKinds : Crash(kind)
  BY <1>10, <1>15 DEF Close, Crash
<1>16. CASE Ended \/ OutOfFiles
  BY <1>2, <1>16 DEF Ended, OutOfFiles
<1> QED BY <1>1, <1>2, <1>3, <1>4, <1>5, <1>6, <1>7, <1>8, <1>9, <1>11, <1>12, <1>13, <1>14,
           <1>15, <1>16 DEF Next, WriterStep, CkptStep, MergeStep, RecoveryStep

LEMMA NextRecordType ==
    ASSUME Types, wr.pc # "idle"
    PROVE  /\ NextRecord \in Call /\ NextRecord.locs = wr.locs /\ NextRecord.recs = wr.recs
           /\ NextRecord.kind = wr.kind /\ NextRecord.lost = wr.lost
           /\ NextRecord.i \in 1..Len(wr.recs)
           /\ \/ /\ wr.i < Len(wr.recs) /\ NextRecord.i = wr.i + 1
                 /\ NextRecord.try = 0 /\ NextRecord.pc = "apply"
              \/ /\ wr.i = Len(wr.recs) /\ NextRecord.i = wr.i
                 /\ NextRecord.try = wr.try /\ NextRecord.pc = "return"
<1>1. /\ wr \in Call /\ Len(wr.recs) \in Nat \ {0} /\ wr.i \in 1..Len(wr.recs)
  BY CallFacts
<1>2. CASE wr.i < Len(wr.recs)
  <2>1. NextRecord = [wr EXCEPT !.i = wr.i + 1, !.try = 0, !.pc = "apply"]
    BY <1>2 DEF NextRecord
  <2>2. wr.i + 1 \in 1..Len(wr.recs) /\ wr.i + 1 \in Nat
    BY <1>1, <1>2
  <2> QED BY <1>1, <1>2, <2>1, <2>2 DEF Call
<1>3. CASE ~(wr.i < Len(wr.recs))
  <2>1. NextRecord = [wr EXCEPT !.pc = "return"] /\ wr.i = Len(wr.recs)
    BY <1>1, <1>3 DEF NextRecord
  <2> QED BY <1>1, <2>1 DEF Call
<1> QED BY <1>2, <1>3

LEMMA CallTypesKept ==
    ASSUME Types, [Next]_vars
    PROVE  CallTypes'
<1>1. CASE Write
  <2>1. PICK kind, file, head, n : Starts(kind, file, head, n)
    BY <1>1, WriteShape
  <2>2. /\ wr' \in Call /\ wr'.i = 1 /\ Len(wr'.recs) = n /\ Len(wr'.locs) = n
        /\ n \in Nat \ {0} /\ file \in Files
        /\ (Roll /\ file = NextFile) \/ (Stay /\ file = active)
    BY <2>1 DEF Starts
  <2>3. active' \in Files
    BY <2>2 DEF Roll, Stay
  <2> QED BY <2>2, <2>3 DEF CallTypes
<1>2. CASE SyncBatch \/ ApplyPut \/ ApplyRemove \/ ApplyRefused
  <2>1. wr.pc # "idle" /\ active' = active
    BY <1>2 DEF SyncBatch, ApplyPut, ApplyRemove, ApplyRefused, KeepFiles
  <2>2. /\ wr \in Call /\ Len(wr.recs) \in Nat \ {0} /\ Len(wr.locs) = Len(wr.recs)
        /\ wr.i \in 1..Len(wr.recs) /\ active \in Files
    BY <2>1, CallFacts
  <2>3. NextRecord \in Call /\ NextRecord.locs = wr.locs /\ NextRecord.recs = wr.recs
        /\ NextRecord.i \in 1..Len(wr.recs) /\ NextRecord.lost \in SUBSET Nat
    BY <2>1, NextRecordType DEF Call
  <2>4. /\ wr' \in Call /\ wr'.recs = wr.recs /\ wr'.locs = wr.locs
        /\ wr'.i \in 1..Len(wr.recs)
    <3>1. CASE SyncBatch
      BY <2>2, <3>1 DEF SyncBatch, Call
    <3>2. CASE ApplyPut \/ ApplyRemove
      BY <2>3, <3>2 DEF ApplyPut, ApplyRemove
    <3>3. CASE ApplyRefused
      <4>1. wr.lost \cup {wr.i} \in SUBSET Nat /\ wr.lost \cup (wr.i..Len(wr.recs)) \in SUBSET Nat
        BY <2>2 DEF Call
      <4>2. \/ wr' = [wr EXCEPT !.pc = "rewrite"]
            \/ wr' = [NextRecord EXCEPT !.lost = NextRecord.lost \cup {wr.i}]
            \/ wr' = [wr EXCEPT !.pc = "return", !.lost = wr.lost \cup (wr.i..Len(wr.recs))]
        BY <3>3 DEF ApplyRefused
      <4>3. NextRecord.lost \cup {wr.i} \in SUBSET Nat
        BY <2>2, <2>3
      <4>4. PICK S1 \in SUBSET Nat, S2 \in SUBSET Nat :
              S1 = wr.lost \cup (wr.i..Len(wr.recs)) /\ S2 = NextRecord.lost \cup {wr.i}
        BY <4>1, <4>3
      <4>5. CASE wr' = [wr EXCEPT !.pc = "rewrite"]
        BY <2>2, <4>5 DEF Call
      <4>6. CASE wr' = [NextRecord EXCEPT !.lost = S2]
        <5>1. PICK x \in Call : x = NextRecord
          BY <2>3
        <5>2. wr' = [x EXCEPT !.lost = S2]
          BY <4>6, <5>1
        <5>3. wr' \in Call /\ wr'.recs = x.recs /\ wr'.locs = x.locs /\ wr'.i = x.i
          BY <5>2 DEF Call
        <5> QED BY <2>3, <5>1, <5>3
      <4>7. CASE wr' = [wr EXCEPT !.pc = "return", !.lost = S1]
        BY <2>2, <4>7 DEF Call
      <4> QED BY <4>2, <4>4, <4>5, <4>6, <4>7
    <3> QED BY <1>2, <3>1, <3>2, <3>3
  <2> QED BY <2>1, <2>2, <2>4 DEF CallTypes
<1>3. CASE Rewrite
  <2>1. wr.pc # "idle"
    BY <1>3 DEF Rewrite
  <2>2. /\ wr \in Call /\ Len(wr.recs) \in Nat \ {0} /\ Len(wr.locs) = Len(wr.recs)
        /\ wr.i \in 1..Len(wr.recs) /\ active \in Files
    BY <2>1, CallFacts
  <2>3. /\ wr' \in Call /\ Len(wr'.recs) = Len(wr.recs) /\ Len(wr'.locs) = Len(wr.locs)
        /\ wr'.i = wr.i /\ (Roll \/ Stay)
    BY <1>3, RewriteShape
  <2>4. active' \in Files
    BY <2>2, <2>3, RollTypes DEF Stay
  <2> QED BY <2>2, <2>3, <2>4 DEF CallTypes
<1>4. CASE Return \/ Forget
  BY <1>4 DEF Return, Forget, CallTypes
<1>5. CASE \/ Sync \/ Checkpoint \/ CkptStep \/ Merge \/ MergeStep \/ RecoveryStep
           \/ UNCHANGED vars
  <2>1. UNCHANGED <<wr, active>>
    BY <1>5 DEF Sync, Checkpoint, CkptStep, CkptDrain, CkptCapture, CkptSave,
           Merge, MergeStep, MergeDrain, MergeOpen, MergeNothing, MergeFold, MergeFlush,
           MergeMove, MergeNextFile, MergeRetire, MergeCapture, MergeSave,
           RecoveryStep, Open, TakeFile, RecoverRow, Recovered, vars
  <2> QED BY <2>1 DEF CallTypes, Types
<1>6. CASE Close \/ \E kind \in CrashKinds : Crash(kind)
  BY <1>4, <1>6 DEF Close, Crash
<1>7. CASE Ended \/ OutOfFiles
  BY <1>5, <1>7 DEF Ended, OutOfFiles
<1> QED BY <1>1, <1>2, <1>3, <1>4, <1>5, <1>6, <1>7 DEF Next, WriterStep

\* Moves are left only of a file that is still to be done.
LEMMA MovesHaveInput ==
    ASSUME Types, mg.pc = "move"
    PROVE  mg.left # {}
BY DEF Types, MergeTypes, Idle, Saving

LEMMA MergeTypesKept ==
    ASSUME Types, [Next]_vars
    PROVE  MergeTypes'
<1>1. CASE \/ Write \/ WriterStep \/ Sync \/ Checkpoint \/ CkptStep \/ RecoveryStep
           \/ UNCHANGED vars
  <2>1. mg' = mg
    <3>1. CASE Write
      BY <3>1, WriteShape DEF Starts
    <3>2. CASE WriterStep
      BY <3>2 DEF WriterStep, SyncBatch, ApplyPut, ApplyRemove, ApplyRefused, Rewrite, Return,
             KeepRest
    <3> QED BY <1>1, <3>1, <3>2 DEF Sync, Checkpoint, CkptStep, CkptDrain, CkptCapture,
               CkptSave, RecoveryStep, Open, TakeFile, RecoverRow, Recovered, vars
  <2> QED BY <2>1 DEF MergeTypes, Types
<1>2. CASE Merge \/ MergeNothing \/ MergeRetire \/ MergeSave \/ Forget
  BY <1>2 DEF Merge, MergeNothing, MergeRetire, MergeSave, Forget, MergeTypes
<1>3. CASE MergeDrain
  BY <1>3 DEF MergeDrain, MergeTypes, Types
<1>4. CASE MergeOpen
  <2>1. /\ biggest < MaxFile
        /\ \E S \in MergeSets :
          mg' = [pc |-> "fold", left |-> S, out |-> NextFile, pos |-> 0,
                 moves |-> <<>>, ins |-> S, stuck |-> {}]
    BY <1>4 DEF MergeOpen
  <2>2. NextFile \in Files
    BY <2>1, Numbers DEF NextFile, Files, Types, IndexTypes
  <2>3. PICK S \in SUBSET Files :
          mg' = [pc |-> "fold", left |-> S, out |-> NextFile, pos |-> 0,
                 moves |-> <<>>, ins |-> S, stuck |-> {}]
    BY <2>1 DEF MergeSets, Mergeable, Types, DiskTypes
  <2>4. <<>> \in Seq(Move)
    OBVIOUS
  <2>5. mg' \in Copying
    BY <2>2, <2>3, <2>4 DEF Copying
  <2> QED BY <2>3, <2>5 DEF MergeTypes
<1>5. CASE MergeFold \/ MergeFlush \/ MergeMove \/ MergeNextFile
  <2>1. Copies /\ mg \in Copying
    BY <1>5, JobFacts DEF MergeFold, MergeFlush, MergeMove, MergeNextFile, Copies
  <2>2. mg.pos \in Nat /\ mg.moves \in Seq(Move) /\ mg.out \in Files
    BY <2>1 DEF Copying
  <2>3. CASE MergeFold
    <3>1. mg.left # {} /\ mg.pos < LastValidEnd(disk[InFile], 0)
          /\ LET p == mg.pos + 1
                 r == disk[InFile][p]
             IN mg' = [mg EXCEPT !.pos = p,
                   !.moves = IF MergeKeeps(r, InFile, p)
                             THEN Append(mg.moves, [pos |-> p, rec |-> r]) ELSE mg.moves]
      BY <2>3 DEF MergeFold
    <3>2. PICK p, r : p = mg.pos + 1 /\ r = disk[InFile][p]
      OBVIOUS
    <3>3. r \in Item \cup Header /\ p \in Nat
      <4>1. disk[InFile] \in Seq(Item \cup Header) /\ p \in 1..Len(disk[InFile])
        BY <2>1, <2>2, <3>1, <3>2, InFileFacts DEF Log
      <4> QED BY <3>2, <4>1
    <3>4. MergeKeeps(r, InFile, p) => r \in Item
      BY <3>3, Records DEF MergeKeeps
    <3>5. PICK moves \in Seq(Move) :
            moves = IF MergeKeeps(r, InFile, p) THEN Append(mg.moves, [pos |-> p, rec |-> r])
                    ELSE mg.moves
      <4>1. CASE MergeKeeps(r, InFile, p)
        <5>1. [pos |-> p, rec |-> r] \in Move
          BY <3>3, <3>4, <4>1 DEF Move
        <5>2. Append(mg.moves, [pos |-> p, rec |-> r]) \in Seq(Move)
          BY <2>2, <5>1, AppendProperties
        <5> QED BY <4>1, <5>2
      <4>2. CASE ~MergeKeeps(r, InFile, p)
        BY <2>2, <4>2
      <4> QED BY <4>1, <4>2
    <3>6. mg' = [mg EXCEPT !.pos = p, !.moves = moves]
      BY <3>1, <3>2, <3>5
    <3>7. mg' \in Copying
      BY <2>1, <3>3, <3>5, <3>6 DEF Copying
    <3>8. mg'.pc = "fold"
      BY <2>1, <2>3, <3>6 DEF Copying, MergeFold
    <3> QED BY <3>7, <3>8 DEF MergeTypes
  <2>4. CASE MergeFlush
    <3>1. PICK p \in Nat : mg' = [mg EXCEPT !.pc = "move", !.pos = p]
      <4>1. mg' = [mg EXCEPT !.pc = "move", !.pos = Len(disk[mg.out]) + 1]
            /\ Len(disk[mg.out]) \in Nat
        BY <2>4, FlushShape
      <4>2. Len(disk[mg.out]) + 1 \in Nat
        BY <4>1
      <4> QED BY <4>1, <4>2
    <3>2. mg' \in Copying
      BY <2>1, <3>1 DEF Copying
    <3>3. mg'.left # {}
      BY <2>1, <2>4, <3>1 DEF Copying, MergeFlush
    <3> QED BY <3>2, <3>3 DEF MergeTypes
  <2>5. CASE MergeMove
    <3>1. mg.moves # <<>> /\ \E S \in {mg.stuck, mg.stuck \cup {InFile}} :
             mg' = [mg EXCEPT !.moves = Tail(mg.moves), !.pos = mg.pos + 1, !.stuck = S]
      BY <2>5 DEF MergeMove
    <3>2. PICK S : S \in {mg.stuck, mg.stuck \cup {InFile}} /\
             mg' = [mg EXCEPT !.moves = Tail(mg.moves), !.pos = mg.pos + 1, !.stuck = S]
      BY <3>1
    <3>3. PICK moves \in Seq(Move) : moves = Tail(mg.moves)
      <4>1. Tail(mg.moves) \in Seq(Move)
        BY <2>2, <3>1, HeadTailProperties
      <4> QED BY <4>1
    <3>4. CASE S \in SUBSET Files
      <4>1. mg' \in Copying
        <5>1. mg' = [mg EXCEPT !.moves = moves, !.pos = mg.pos + 1, !.stuck = S]
              /\ mg.pos + 1 \in Nat
          BY <2>2, <3>2, <3>3
        <5>2. PICK q \in Nat : q = mg.pos + 1
          BY <5>1
        <5>3. mg' = [mg EXCEPT !.moves = moves, !.pos = q, !.stuck = S]
          BY <5>1, <5>2
        <5> QED BY <2>1, <3>4, <5>3 DEF Copying
      <4>2. mg'.left # {}
        BY <2>1, <2>5, <3>2, MovesHaveInput DEF Copying, MergeMove
      <4> QED BY <4>1, <4>2 DEF MergeTypes
    <3>5. S \in SUBSET Files
      <4>1. mg.left # {}
        BY <2>5, MovesHaveInput DEF MergeMove
      <4> QED BY <2>1, <3>2, <4>1, InFileFacts DEF Copying
    <3> QED BY <3>4, <3>5
  <2>6. CASE MergeNextFile
    <3>1. mg' = [mg EXCEPT !.pc = "fold", !.pos = 0, !.left = mg.left \ {InFile}]
      BY <2>6 DEF MergeNextFile
    <3>2. mg' \in Copying
      BY <2>1, <3>1 DEF Copying
    <3>3. mg'.pc = "fold"
      BY <2>1, <3>1 DEF Copying
    <3> QED BY <3>2, <3>3 DEF MergeTypes
  <2> QED BY <1>5, <2>3, <2>4, <2>5, <2>6
<1>6. CASE MergeCapture
  <2>1. mg' = [pc |-> "save", wms |-> Watermarks]
    BY <1>6 DEF MergeCapture
  <2>2. PICK W \in Marks : W = Watermarks
    BY DurableTypes
  <2>3. mg' \in Saving
    BY <2>1, <2>2 DEF Saving
  <2> QED BY <2>3 DEF MergeTypes
<1>7. CASE Close \/ \E kind \in CrashKinds : Crash(kind)
  BY <1>2, <1>7 DEF Close, Crash
<1>8. CASE Ended \/ OutOfFiles
  BY <1>1, <1>8 DEF Ended, OutOfFiles
<1> QED BY <1>1, <1>2, <1>3, <1>4, <1>5, <1>6, <1>7, <1>8 DEF Next, MergeStep

LEMMA CkptTypesKept ==
    ASSUME Types, [Next]_vars
    PROVE  CkptTypes'
<1>1. CASE \/ Write \/ WriterStep \/ Sync \/ Merge \/ MergeStep \/ RecoveryStep
           \/ UNCHANGED vars
  <2>1. ck' = ck
    <3>1. CASE Write
      BY <3>1, WriteShape DEF Starts
    <3>2. CASE WriterStep
      BY <3>2 DEF WriterStep, SyncBatch, ApplyPut, ApplyRemove, ApplyRefused, Rewrite, Return,
             KeepRest
    <3>3. CASE MergeStep
      BY <3>3 DEF MergeStep, MergeDrain, MergeOpen, MergeNothing, MergeFold, MergeFlush,
             MergeMove, MergeNextFile, MergeRetire, MergeCapture, MergeSave
    <3> QED BY <1>1, <3>1, <3>2, <3>3 DEF Sync, Merge, RecoveryStep, Open, TakeFile,
               RecoverRow, Recovered, vars
  <2> QED BY <2>1 DEF CkptTypes, Types
<1>2. CASE Checkpoint \/ CkptSave \/ Forget
  BY <1>2 DEF Checkpoint, CkptSave, Forget, CkptTypes
<1>3. CASE CkptDrain
  BY <1>3 DEF CkptDrain, CkptTypes, Types
<1>4. CASE CkptCapture
  <2>1. ck' = [pc |-> "save", wms |-> Watermarks]
    BY <1>4 DEF CkptCapture
  <2>2. PICK W \in Marks : W = Watermarks
    BY DurableTypes
  <2>3. ck' \in Saving
    BY <2>1, <2>2 DEF Saving
  <2> QED BY <2>3 DEF CkptTypes
<1>5. CASE Close \/ \E kind \in CrashKinds : Crash(kind)
  BY <1>2, <1>5 DEF Close, Crash
<1>6. CASE Ended \/ OutOfFiles
  BY <1>1, <1>6 DEF Ended, OutOfFiles
<1> QED BY <1>1, <1>2, <1>3, <1>4, <1>5, <1>6 DEF Next, CkptStep

LEMMA NoRecoveryType ==
    NoRecovery \in [todo : SUBSET Files, wms : Marks, work : [Workers -> Work]]
<1>1. <<>> \in [{} -> Nat]
  OBVIOUS
<1>2. <<>> \in Marks
  BY <1>1 DEF Marks
<1>3. [w \in Workers |-> NoWork] \in [Workers -> Work]
  BY DEF Work
<1> QED BY <1>2, <1>3 DEF NoRecovery

LEMMA RecoveryTypesKept ==
    ASSUME Types, [Next]_vars
    PROVE  RecoveryTypes'
<1>0. rc \in [todo : SUBSET Files, wms : Marks, work : [Workers -> Work]]
  BY DEF Types, RecoveryTypes
<1>1. CASE \/ Write \/ WriterStep \/ Sync \/ Checkpoint \/ CkptStep \/ Merge \/ MergeStep
           \/ UNCHANGED vars
  <2>1. rc' = rc
    <3>1. CASE Write
      BY <3>1, WriteShape DEF Starts
    <3>2. CASE WriterStep
      BY <3>2 DEF WriterStep, SyncBatch, ApplyPut, ApplyRemove, ApplyRefused, Rewrite, Return,
             KeepRest
    <3>3. CASE MergeStep
      BY <3>3 DEF MergeStep, MergeDrain, MergeOpen, MergeNothing, MergeFold, MergeFlush,
             MergeMove, MergeNextFile, MergeRetire, MergeCapture, MergeSave
    <3> QED BY <1>1, <3>1, <3>2, <3>3 DEF Sync, Merge, Checkpoint, CkptStep, CkptDrain,
               CkptCapture, CkptSave, vars
  <2> QED BY <1>0, <2>1 DEF RecoveryTypes
<1>2. CASE Forget \/ Recovered
  BY <1>2, NoRecoveryType DEF Forget, Recovered, RecoveryTypes
<1>3. CASE Open
  <2>1. rc' = [NoRecovery EXCEPT !.todo = present,
                !.wms = IF snap # <<>> THEN snap[1].wms ELSE <<>>]
    BY <1>3 DEF Open
  <2>2. PICK wms \in Marks : wms = IF snap # <<>> THEN snap[1].wms ELSE <<>>
    <3>1. CASE snap = <<>>
      BY <3>1, NoRecoveryType DEF NoRecovery
    <3>2. CASE snap # <<>>
      <4>1. PICK s \in Saved : snap = <<s>>
        BY <3>2 DEF Types, DiskTypes
      <4>2. snap[1].wms \in Marks
        BY <4>1 DEF Saved
      <4> QED BY <3>2, <4>2
    <3> QED BY <3>1, <3>2
  <2>3. PICK p \in SUBSET Files : p = present
    BY DEF Types, DiskTypes
  <2>4. rc' = [NoRecovery EXCEPT !.todo = p, !.wms = wms]
    BY <2>1, <2>2, <2>3
  <2>5. rc' \in [todo : SUBSET Files, wms : Marks, work : [Workers -> Work]]
    <3> HIDE <2>1
    <3> QED BY <2>4, NoRecoveryType
  <2> QED BY <2>5 DEF RecoveryTypes
<1>4. ASSUME NEW w \in Workers, TakeFile(w) PROVE RecoveryTypes'
  <2>1. PICK f \in Files :
          /\ mode = "recovering"
          /\ rc' = [rc EXCEPT !.todo = rc.todo \ {f},
                         !.work[w] = IF RowsOf(f) = <<>> THEN NoWork
                                     ELSE [file |-> f, rows |-> RowsOf(f)]]
    BY <1>4, TakenFile
  <2>2. PICK rows \in Seq(Row0) : rows = RowsOf(f)
    BY <2>1, TailCutType
  <2>3. PICK job \in Work : job = IF rows = <<>> THEN NoWork ELSE [file |-> f, rows |-> rows]
    BY DEF Work
  <2>4. rc' = [rc EXCEPT !.todo = rc.todo \ {f}, !.work[w] = job]
    BY <2>1, <2>2, <2>3
  <2>5. rc' \in [todo : SUBSET Files, wms : Marks, work : [Workers -> Work]]
    BY <1>0, <2>4
  <2> QED BY <2>5 DEF RecoveryTypes
<1>5. ASSUME NEW w \in Workers, RecoverRow(w) PROVE RecoveryTypes'
  <2>1. PICK f \in Files, r \in Row0 :
             /\ f = rc.work[w].file /\ rc.work[w].rows # <<>>
             /\ \/ Len(rc.work[w].rows) = 1 /\ rc' = [rc EXCEPT !.work[w] = NoWork]
                \/ /\ Len(rc.work[w].rows) > 1
                   /\ rc' = [rc EXCEPT !.work[w] = [file |-> f, rows |-> Tail(rc.work[w].rows)]]
    BY <1>5, RecoveredRow
  <2>2. PICK rows \in Seq(Row0) : rows = rc.work[w].rows
    BY <1>0, <2>1 DEF Work, NoWork
  <2>3. CASE rc' = [rc EXCEPT !.work[w] = NoWork]
    <3>1. NoWork \in Work
      BY DEF Work
    <3>2. rc' \in [todo : SUBSET Files, wms : Marks, work : [Workers -> Work]]
      BY <1>0, <2>3, <3>1
    <3> QED BY <3>2 DEF RecoveryTypes
  <2>4. CASE Len(rows) > 1 /\ rc' = [rc EXCEPT !.work[w] = [file |-> f, rows |-> Tail(rows)]]
    <3>1. Len(rows) \in Nat /\ rows # <<>>
      BY <2>1, <2>2
    <3>2. Tail(rows) \in Seq(Row0) /\ Len(Tail(rows)) = Len(rows) - 1
      BY <3>1, HeadTailProperties
    <3>3. Tail(rows) # <<>>
      <4>1. Len(Tail(rows)) > 0
        BY <2>4, <3>1, <3>2
      <4>2. PICK tl : tl = Tail(rows)
        OBVIOUS
      <4>3. Len(tl) > 0
        BY <4>1, <4>2
      <4>4. tl # <<>>
        BY <4>3
      <4> QED BY <4>2, <4>4
    <3>4. PICK tl \in Seq(Row0) \ {<<>>} : tl = Tail(rows)
      BY <3>2, <3>3
    <3>5. PICK job \in Work : job = [file |-> f, rows |-> tl]
      BY DEF Work
    <3>6. rc' = [rc EXCEPT !.work[w] = job]
      BY <2>4, <3>4, <3>5
    <3>7. rc' \in [todo : SUBSET Files, wms : Marks, work : [Workers -> Work]]
      BY <1>0, <3>6
    <3> QED BY <3>7 DEF RecoveryTypes
  <2> QED BY <2>1, <2>2, <2>3, <2>4
<1>6. CASE Close \/ \E kind \in CrashKinds : Crash(kind)
  BY <1>2, <1>6 DEF Close, Crash
<1>7. CASE Ended \/ OutOfFiles
  BY <1>1, <1>7 DEF Ended, OutOfFiles
<1> QED BY <1>1, <1>2, <1>3, <1>4, <1>5, <1>6, <1>7 DEF Next, RecoveryStep

LEMMA Spending ==
    ASSUME Types, NEW b \in Budget, Spend(b)
    PROVE  used' \in [Budget -> Nat]
BY DEF Spend, Types, HistoryTypes

LEMMA TombsType ==
    ASSUME NEW k \in Keys, NEW reqs \in Seq(Wish)
    PROVE  TombsOf(k, reqs) \in Seq(BOOLEAN)
<1> DEFINE S == {i \in DOMAIN reqs : reqs[i].key = k}
           mine == Ascending(S)
<1>1. DOMAIN reqs = 1..Len(reqs) /\ Len(reqs) \in Nat
  OBVIOUS
<1>2. S \in SUBSET Nat /\ IsFiniteSet(S)
  <2>1. IsFiniteSet(1..Len(reqs)) /\ S \subseteq 1..Len(reqs)
    BY <1>1, FS_Interval
  <2> QED BY <1>1, <2>1, FS_Subset
<1>3. \A i \in S : reqs[i].tomb \in BOOLEAN
  <2>1. \A i \in 1..Len(reqs) : reqs[i] \in Wish
    BY ElementOfSeq
  <2>2. \A x \in Wish : x.tomb \in BOOLEAN
    BY DEF Wish
  <2> QED BY <1>1, <2>1, <2>2
<1> HIDE DEF S
<1>4. mine \in Seq(S)
  BY <1>2, AscendingType
<1>5. TombsOf(k, reqs) = [n \in DOMAIN mine |-> reqs[mine[n]].tomb]
  BY DEF TombsOf, S
<1> HIDE DEF mine
<1>6. Len(mine) \in Nat /\ DOMAIN mine = 1..Len(mine) /\ \A n \in 1..Len(mine) : mine[n] \in S
  BY <1>4
<1>7. TombsOf(k, reqs) \in [1..Len(mine) -> BOOLEAN]
  BY <1>3, <1>5, <1>6
<1> QED BY <1>6, <1>7

LEMMA WriteHistory ==
    ASSUME Types, Write
    PROVE  hist' \in [Keys -> Seq(BOOLEAN)] /\ used' \in [Budget -> Nat]
<1>1. PICK q \in Requests, t \in Stamps : Begin(q[1], q[2], t)
  BY DEF Write
<1>2. q[2] \in Seq(Wish)
  BY RequestType
<1>3. Spend("write") /\ hist' = [k \in Keys |-> hist[k] \o TombsOf(k, q[2])]
  BY <1>1 DEF Begin
<1>4. ASSUME NEW k \in Keys PROVE hist[k] \o TombsOf(k, q[2]) \in Seq(BOOLEAN)
  <2>1. hist[k] \in Seq(BOOLEAN)
    BY DEF Types, HistoryTypes
  <2> QED BY <1>2, <2>1, TombsType, ConcatProperties
<1>5. "write" \in Budget
  BY DEF Budget
<1> QED BY <1>3, <1>4, <1>5, Spending

LEMMA HistoryTypesKept ==
    ASSUME Types, [Next]_vars
    PROVE  HistoryTypes'
<1>0. hist \in [Keys -> Seq(BOOLEAN)] /\ used \in [Budget -> Nat]
  BY DEF Types, HistoryTypes
<1>1. CASE Write
  BY <1>1, WriteHistory DEF HistoryTypes
<1>2. CASE Sync \/ Checkpoint \/ Merge \/ Close \/ \E kind \in CrashKinds : Crash(kind)
  <2>1. \E b \in Budget : Spend(b)
    BY <1>2 DEF Sync, Checkpoint, Merge, Close, Crash, Budget
  <2>2. hist' = hist
    BY <1>2 DEF Sync, Checkpoint, Merge, Close, Crash, promise
  <2> QED BY <1>0, <2>1, <2>2, Spending DEF HistoryTypes
<1>3. CASE WriterStep \/ CkptStep \/ MergeStep \/ RecoveryStep \/ UNCHANGED vars
  <2>1. UNCHANGED <<hist, used>>
    <3>1. CASE WriterStep
      BY <3>1 DEF WriterStep, SyncBatch, ApplyPut, ApplyRemove, ApplyRefused, Rewrite, Return,
             KeepRest, promise
    <3>2. CASE MergeStep
      BY <3>2 DEF MergeStep, MergeDrain, MergeOpen, MergeNothing, MergeFold, MergeFlush,
             MergeMove, MergeNextFile, MergeRetire, MergeCapture, MergeSave, promise
    <3> QED BY <1>3, <3>1, <3>2 DEF CkptStep, CkptDrain, CkptCapture, CkptSave, vars,
               RecoveryStep, Open, TakeFile, RecoverRow, Recovered, promise
  <2> QED BY <1>0, <2>1 DEF HistoryTypes
<1>4. CASE Ended \/ OutOfFiles
  BY <1>3, <1>4 DEF Ended, OutOfFiles
<1> QED BY <1>1, <1>2, <1>3, <1>4 DEF Next

LEMMA TypesInit == Init => Types
<1> SUFFICES ASSUME Init PROVE Types
  OBVIOUS
<1>1. <<>> \in Log /\ <<>> \in Seq(Row0) /\ <<>> \in Seq(Files) /\ <<>> \in Seq(BOOLEAN)
  BY DEF Log
<1>2. DiskTypes
  BY <1>1 DEF Init, DiskTypes
<1>3. IndexTypes
  BY <1>1, Cells, Numbers DEF Init, IndexTypes
<1>4. CallTypes /\ MergeTypes /\ CkptTypes
  BY DEF Init, CallTypes, MergeTypes, CkptTypes
<1>5. RecoveryTypes
  BY NoRecoveryType DEF Init, RecoveryTypes
<1>6. HistoryTypes
  BY <1>1 DEF Init, HistoryTypes
<1> QED BY <1>2, <1>3, <1>4, <1>5, <1>6 DEF Types

LEMMA TypesKept ==
    ASSUME Types, Places, [Next]_vars
    PROVE  Types'
BY DiskTypesKept, IndexTypesKept, CallTypesKept, MergeTypesKept, CkptTypesKept,
   RecoveryTypesKept, HistoryTypesKept DEF Types

(***************************************************************************)
(* Every step keeps the files in their places                              *)
(***************************************************************************)
LEMMA EmptyLength == Len(<<>>) = 0
OBVIOUS

\* Steps that leave the data files where they are
LEMMA QuietPlaces ==
    ASSUME Types, Places, UNCHANGED <<disk, present, sealed, active, retired, mode>>,
           biggest' >= biggest, mode = "closed" => biggest' = biggest, biggest' \in Nat,
           \A f \in Files : durable'[f] = durable[f] \/ durable'[f] = Len(disk[f]),
           \A f \in Files \ present : hint'[f] = hint[f],
           rc'.todo = rc.todo,
           mode # "open" => UNCHANGED <<wr, mg, ck>>,
           Copies' => Copies /\ mg'.out = mg.out /\ mg'.ins = mg.ins /\ mg'.left \subseteq mg.left
    PROVE  Places'
<1>0. /\ \A f \in Files : Len(disk[f]) \in Nat /\ durable[f] \in Nat /\ f \in Nat
      /\ biggest \in Nat /\ present \in SUBSET Files /\ sealed \in SUBSET Files
      /\ Gone' = Gone /\ Gone \in SUBSET Files
  BY DurableTypes, Numbers DEF Types, DiskTypes, IndexTypes, Log, Gone
<1>1. Out' \subseteq Out /\ Out \subseteq Files
  BY JobFacts DEF Out, Copying
<1>2. \A f \in Files : durable'[f] <= Len(disk'[f])
  BY <1>0 DEF Places
<1>3. \A f \in (sealed \cup Out)' : durable'[f] = Len(disk'[f])
  BY <1>0, <1>1 DEF Places
<1>4. \A f \in Files \ present' : disk'[f] = <<>> /\ hint'[f] = <<>> /\ durable'[f] = 0
  BY <1>0, EmptyLength DEF Places
<1>5. \A f \in Gone' : f <= biggest' /\ f # active'
  BY <1>0 DEF Places
<1>6. \A f \in present : f <= biggest => f <= biggest'
  BY <1>0
<1> QED BY <1>2, <1>3, <1>4, <1>5, <1>6 DEF Places

LEMMA QuietSteps ==
    ASSUME Types, Places,
           \/ SyncBatch \/ ApplyPut \/ ApplyRemove \/ ApplyRefused \/ Return \/ Sync
           \/ Checkpoint \/ CkptCapture \/ CkptSave
           \/ Merge \/ MergeNothing \/ MergeFold \/ MergeMove \/ MergeNextFile
           \/ MergeCapture \/ MergeSave \/ \E w \in Workers : RecoverRow(w)
           \/ UNCHANGED vars
    PROVE  Places'
<1>0. /\ \A f \in Files : Len(disk[f]) \in Nat /\ durable[f] \in Nat
      /\ biggest \in Nat /\ rc.work \in [Workers -> Work] /\ durable \in [Files -> Nat]
      /\ hint \in [Files -> Seq(Row0)] /\ biggest >= biggest
      /\ rc \in [todo : SUBSET Files, wms : Marks, work : [Workers -> Work]]
  BY Numbers DEF Types, DiskTypes, IndexTypes, Log, RecoveryTypes
<1>1. \A g \in Files : \A f \in Files : \/ Fsynced(g)[f] = durable[f]
                                        \/ Fsynced(g)[f] = Len(disk[f])
  BY <1>0 DEF Fsynced
<1>2. active # 0 => active \in Files /\ active \in present
  BY Numbers DEF Places, Types, IndexTypes, Files
<1>3. Copies => mg \in Copying /\ mode = "open"
  BY JobFacts DEF Places, Copies, Idle
<1>4. wr.pc # "idle" => mode = "open"
  BY DEF Places, Idle
<1>5. ck.pc # "idle" => mode = "open"
  BY DEF Places, Idle
<1>6. mg.pc # "idle" => mode = "open"
  BY DEF Places, Idle
<1>7. CASE SyncBatch \/ Return \/ Sync \/ CkptCapture \/ MergeCapture
  <2>1. UNCHANGED <<disk, present, hint, sealed, active, retired, mode, rc, biggest>>
    BY <1>7 DEF SyncBatch, Return, Sync, CkptCapture, MergeCapture, index
  <2>2. \A f \in Files : durable'[f] = durable[f] \/ durable'[f] = Len(disk[f])
    <3>1. CASE SyncBatch
      <4>1. wr.locs[1] \in Place
        BY <3>1, CallFacts DEF SyncBatch
      <4>2. durable' = Fsynced(wr.locs[1].file) /\ wr.locs[1].file \in Files
        BY <3>1, <4>1 DEF SyncBatch, Place
      <4> QED BY <1>1, <4>2
    <3>2. CASE Return
      <4>1. durable' = durable \/ (durable' = Fsynced(active) /\ active \in Files)
        BY <3>2, CallFacts DEF Return, DurableAtReturn
      <4> QED BY <1>1, <4>1
    <3>3. CASE Sync \/ CkptCapture \/ MergeCapture
      <4>1. durable' = durable \/ (durable' = Fsynced(active) /\ active # 0)
        BY <3>3 DEF Sync, CkptCapture, MergeCapture, DurableAfterCapture
      <4> QED BY <1>1, <1>2, <4>1
    <3> QED BY <1>7, <3>1, <3>2, <3>3
  <2>3. mode # "open" => UNCHANGED <<wr, mg, ck>>
    BY <1>4, <1>5, <1>6, <1>7 DEF SyncBatch, Return, Sync, CkptCapture, MergeCapture
  <2>4. Copies' => mg' = mg
    <3>1. CASE SyncBatch \/ Return \/ Sync \/ CkptCapture
      BY <3>1 DEF SyncBatch, Return, Sync, CkptCapture
    <3>2. CASE MergeCapture
      <4>1. mg'.pc = "save"
        BY <3>2 DEF MergeCapture
      <4> QED BY <4>1 DEF Copies
    <3> QED BY <1>7, <3>1, <3>2
  <2>5. Copies' => Copies /\ mg'.out = mg.out /\ mg'.ins = mg.ins /\ mg'.left \subseteq mg.left
    BY <2>4 DEF Copies
  <2> QED BY <1>0, <2>1, <2>2, <2>3, <2>5, QuietPlaces
<1>8. CASE ApplyPut \/ ApplyRemove \/ ApplyRefused
  <2>1. UNCHANGED <<disk, present, durable, sealed, active, retired, mode, rc, mg, ck>>
        /\ wr.pc = "apply" /\ mode = "open"
    BY <1>4, <1>8 DEF ApplyPut, ApplyRemove, ApplyRefused, KeepFiles, KeepRest
  <2>2. active \in Files /\ Loc.file \in Files
    BY <2>1, CallFacts
  <2>3. biggest' >= biggest /\ biggest' \in Nat
    <3>1. PICK g \in Nat : g = FileOfApply
      BY <2>2, Numbers DEF FileOfApply
    <3>2. biggest' = biggest \/ biggest' = Larger(biggest, g)
      BY <1>8, <3>1 DEF ApplyPut, ApplyRemove, ApplyRefused
    <3> QED BY <1>0, <3>2 DEF Larger
  <2>4. \A f \in Files \ present : hint'[f] = hint[f]
    BY <1>0, <1>2, <1>8, <2>2, Numbers DEF ApplyPut, ApplyRemove, ApplyRefused, HintOfGroup
  <2>5. Copies' => Copies /\ mg'.out = mg.out /\ mg'.ins = mg.ins /\ mg'.left \subseteq mg.left
    BY <2>1 DEF Copies
  <2> QED BY <1>0, <2>1, <2>3, <2>4, <2>5, QuietPlaces
<1>9. CASE Checkpoint \/ CkptSave \/ Merge \/ MergeNothing \/ MergeSave \/ UNCHANGED vars
  <2>1. UNCHANGED <<disk, present, durable, hint, sealed, active, retired, mode, rc, biggest>>
    BY <1>9 DEF Checkpoint, CkptSave, Merge, MergeNothing, MergeSave, vars, onDisk, index
  <2>2. mode # "open" => UNCHANGED <<wr, mg, ck>>
    BY <1>5, <1>6, <1>9 DEF Checkpoint, CkptSave, Merge, MergeNothing, MergeSave, vars
  <2>3. Copies' => mg' = mg
    BY <1>9 DEF Checkpoint, CkptSave, Merge, MergeNothing, MergeSave, vars, Idle, Copies
  <2>4. Copies' => Copies /\ mg'.out = mg.out /\ mg'.ins = mg.ins /\ mg'.left \subseteq mg.left
    BY <2>3 DEF Copies
  <2> QED BY <1>0, <2>1, <2>2, <2>4, QuietPlaces
<1>10. CASE MergeFold \/ MergeMove \/ MergeNextFile
  <2>1. UNCHANGED <<disk, present, durable, hint, sealed, active, retired, mode, rc, biggest,
                    wr, ck>> /\ Copies
    BY <1>10 DEF MergeFold, MergeMove, MergeNextFile, onDisk, index, Copies
  <2>2. /\ mg'.out = mg.out /\ mg'.ins = mg.ins /\ mg'.left \subseteq mg.left
    <3>1. mg \in Copying
      BY <1>3, <2>1
    <3>2. CASE MergeFold
      <4>1. \E p, moves : mg' = [mg EXCEPT !.pos = p, !.moves = moves]
        BY <3>2 DEF MergeFold
      <4> QED BY <3>1, <4>1 DEF Copying
    <3>3. CASE MergeMove
      <4>1. \E p, moves, s : mg' = [mg EXCEPT !.moves = moves, !.pos = p, !.stuck = s]
        BY <3>3 DEF MergeMove
      <4> QED BY <3>1, <4>1 DEF Copying
    <3>4. CASE MergeNextFile
      <4>1. mg' = [mg EXCEPT !.pc = "fold", !.pos = 0, !.left = mg.left \ {InFile}]
        BY <3>4 DEF MergeNextFile
      <4> QED BY <3>1, <4>1 DEF Copying
    <3> QED BY <1>10, <3>2, <3>3, <3>4
  <2>3. mode = "open"
    BY <1>3, <2>1
  <2> QED BY <1>0, <2>1, <2>2, <2>3, QuietPlaces
<1>11. ASSUME NEW w \in Workers, RecoverRow(w) PROVE Places'
  <2>1. UNCHANGED <<disk, present, durable, hint, sealed, active, retired, mode, biggest,
                    wr, mg, ck>>
    BY <1>11 DEF RecoverRow, onDisk
  <2>2. rc'.todo = rc.todo
    BY <1>0, <1>11, RecoveredRow
  <2>3. Copies' => Copies /\ mg'.out = mg.out /\ mg'.ins = mg.ins /\ mg'.left \subseteq mg.left
    BY <2>1 DEF Copies
  <2> QED BY <1>0, <2>1, <2>2, <2>3, QuietPlaces
<1> QED BY <1>7, <1>8, <1>9, <1>10, <1>11

\* A record more in the active file, which may be a new one
LEMMA AppendPlaces ==
    ASSUME Types, Places, mode = "open", NEW file \in Files, NEW more \in Log,
           (Roll /\ file = NextFile) \/ (Stay /\ file = active),
           disk' = [disk EXCEPT ![file] = more], Len(more) >= Len(disk[file]),
           \A f \in Files \ {file} : hint'[f] = hint[f],
           UNCHANGED <<mode, mg, retired, rc>>
    PROVE  Places'
<1>0. /\ \A f \in Files : Len(disk[f]) \in Nat /\ durable[f] \in Nat /\ f \in Nat
      /\ biggest \in Nat /\ present \in SUBSET Files /\ sealed \in SUBSET Files
      /\ Gone' = Gone /\ Gone \in SUBSET Files /\ Out' = Out /\ 0 \notin Files
      /\ disk \in [Files -> Log] /\ durable \in [Files -> Nat] /\ Copies' = Copies
      /\ Len(more) \in Nat /\ active \in 0..MaxFile
  <2>1. /\ biggest \in Nat /\ present \in SUBSET Files /\ sealed \in SUBSET Files
        /\ disk \in [Files -> Log] /\ durable \in [Files -> Nat] /\ active \in 0..MaxFile
    BY Numbers DEF Types, DiskTypes, IndexTypes
  <2>2. Gone' = Gone /\ Out' = Out /\ Copies' = Copies
    BY DEF Gone, Out, Copies
  <2>3. Gone \in SUBSET Files
    BY DEF Types, IndexTypes, Gone
  <2>4. 0 \notin Files /\ \A f \in Files : f \in Nat
    BY Numbers
  <2>5. /\ \A f \in Files : Len(disk[f]) \in Nat /\ durable[f] \in Nat
        /\ Len(more) \in Nat
    BY <2>1 DEF Log
  <2> QED BY <2>1, <2>2, <2>3, <2>4, <2>5
<1>1. Out \subseteq present \ (sealed \cup {active}) /\ Out \subseteq Files
  BY JobFacts DEF Out, Copying, Places
<1>2. \A f \in present : f <= biggest
  BY DEF Places
<1>3. \A f \in Files \ {file} : disk'[f] = disk[f]
  BY <1>0
<1>4. disk'[file] = more
  BY <1>0
<1>5. CASE Stay /\ file = active
  <2>1. UNCHANGED <<active, biggest, present, durable, sealed>>
    BY <1>5 DEF Stay
  <2>2. active \in present /\ active \notin sealed /\ active \notin Out
    BY <1>0, <1>1, <1>5 DEF Places
  <2>3. \A f \in Files : durable'[f] <= Len(disk'[f])
    BY <1>0, <1>3, <1>4, <2>1, <1>5 DEF Places
  <2>4. \A f \in (sealed \cup Out)' : durable'[f] = Len(disk'[f])
    BY <1>0, <1>1, <1>3, <1>5, <2>1, <2>2 DEF Places
  <2>5. \A f \in Files \ present' : disk'[f] = <<>> /\ hint'[f] = <<>> /\ durable'[f] = 0
    BY <1>0, <1>3, <1>5, <2>1, <2>2 DEF Places
  <2> QED BY <1>0, <1>2, <2>1, <2>3, <2>4, <2>5 DEF Places
<1>6. CASE Roll /\ file = NextFile
  <2>1. /\ active' = NextFile /\ biggest' = NextFile /\ present' = present \cup {NextFile}
        /\ durable' = DurableIfSealed /\ sealed' = SealedAfterRoll
        /\ NextFile = biggest + 1
    BY <1>6 DEF Roll, NextFile
  <2>2. NextFile \notin present /\ NextFile \in Nat /\ NextFile > biggest
    BY <1>0, <1>2, <2>1
  <2>3. active # 0 => active \in present /\ active \in Files
    BY <1>0 DEF Places
  <2>4. \A f \in Files : durable'[f] = IF f = active THEN Len(disk[f]) ELSE durable[f]
    BY <1>0, <2>1, <2>3 DEF DurableIfSealed, Fsynced
  <2>5. sealed' = IF active = 0 THEN sealed ELSE sealed \cup {active}
    BY <2>1 DEF SealedAfterRoll
  <2>6. /\ disk[NextFile] = <<>> /\ hint[NextFile] = <<>> /\ durable[NextFile] = 0
        /\ NextFile # active
    <3>1. NextFile \in Files \ present
      BY <1>6, <2>2
    <3>2. NextFile # active
      BY <1>0, <2>2, <2>3, <3>1
    <3> QED BY <3>1, <3>2 DEF Places
  <2>7. \A f \in Files : durable'[f] <= Len(disk'[f])
    <3>1. ASSUME NEW f \in Files PROVE durable'[f] <= Len(disk'[f])
      <4>1. CASE f = file
        BY <1>0, <1>4, <1>6, <2>4, <2>6, <4>1
      <4>2. CASE f # file
        <5>1. disk'[f] = disk[f] /\ durable[f] <= Len(disk[f])
          BY <1>3, <4>2 DEF Places
        <5> QED BY <1>0, <2>4, <5>1
      <4> QED BY <4>1, <4>2
    <3> QED BY <3>1
  <2>8. \A f \in (sealed \cup Out)' : durable'[f] = Len(disk'[f])
    <3>1. ASSUME NEW f \in sealed \cup Out PROVE f # file /\ f \in Files /\ f # active
      BY <1>0, <1>1, <1>6, <2>2 DEF Places
    <3>2. ASSUME NEW f \in sealed \cup Out PROVE durable'[f] = Len(disk'[f])
      BY <1>3, <2>4, <3>1 DEF Places
    <3>3. active # 0 => durable'[active] = Len(disk'[active])
      BY <1>3, <1>6, <2>3, <2>4, <2>6
    <3> QED BY <1>0, <2>5, <3>2, <3>3
  <2>9. \A f \in Files \ present' : disk'[f] = <<>> /\ hint'[f] = <<>> /\ durable'[f] = 0
    BY <1>3, <1>6, <2>1, <2>3, <2>4 DEF Places
  <2>10. sealed' \subseteq present' /\ active' \in present' \cup {0} /\ active' \notin sealed'
    BY <2>1, <2>2, <2>3, <2>5, <2>6 DEF Places
  <2>11. \A f \in present' : f <= biggest'
    BY <1>0, <1>2, <2>1, <2>2
  <2>12. \A f \in Gone' : f <= biggest' /\ f # active'
    BY <1>0, <2>1, <2>2 DEF Places
  <2>13. Copies' => /\ retired' = <<>> /\ mg'.out \in present' \ (sealed' \cup {active'})
                    /\ mg'.ins \subseteq present' \ {active', mg'.out} /\ mg'.left \subseteq mg'.ins
    BY <1>0, <2>1, <2>2, <2>5 DEF Places
  <2> QED BY <2>7, <2>8, <2>9, <2>10, <2>11, <2>12, <2>13 DEF Places
<1> QED BY <1>5, <1>6

LEMMA WritePlaces ==
    ASSUME Types, Places, Write
    PROVE  Places'
<1>1. PICK kind, file, head, n : Starts(kind, file, head, n)
  BY WriteShape
<1>2. /\ file \in Files /\ head \in 0..1 /\ n \in Nat \ {0} /\ mode = "open"
      /\ (Roll /\ file = NextFile) \/ (Stay /\ file = active)
      /\ UNCHANGED <<mode, mg, retired, rc>>
  BY <1>1 DEF Starts
<1>3. PICK more \in Log :
        /\ disk' = [disk EXCEPT ![file] = more] /\ Extends(more, disk[file], head, n)
        /\ hint' = IF kind = "group" THEN hint
                   ELSE [hint EXCEPT ![file] = hint[file] \o
                            [j \in 1..n |-> Row(more, Len(disk[file]) + head + j)]]
  BY <1>1 DEF Starts
<1>4. Len(more) = Len(disk[file]) + head + n /\ Len(disk[file]) \in Nat
  BY <1>2, <1>3, ExtendedAt DEF Types, DiskTypes
<1>5. Len(more) >= Len(disk[file])
  BY <1>2, <1>4
<1>6. \A f \in Files \ {file} : hint'[f] = hint[f]
  BY <1>2, <1>3 DEF Types, DiskTypes
<1> QED BY <1>2, <1>3, <1>5, <1>6, AppendPlaces

LEMMA RewritePlaces ==
    ASSUME Types, Places, Rewrite
    PROVE  Places'
<1>1. PICK file \in Files, more \in Log, o \in Nat :
        /\ (Roll /\ file = NextFile) \/ (Stay /\ file = active)
        /\ disk' = [disk EXCEPT ![file] = more]
        /\ Extends(more, disk[file], 0, 1) /\ Len(disk[file]) \in Nat
        /\ hint' = [hint EXCEPT ![file] = Append(hint[file], Row(more, Len(disk[file]) + 1))]
  BY RewriteShape
<1>2. mode = "open" /\ UNCHANGED <<mode, mg, retired, rc>>
  BY DEF Rewrite, KeepRest, Places, Idle
<1>3. Len(more) >= Len(disk[file])
  <2>1. Len(more) = Len(disk[file]) + 0 + 1
    BY <1>1 DEF Extends
  <2> QED BY <1>1, <2>1
<1>4. \A f \in Files \ {file} : hint'[f] = hint[f]
  BY <1>1 DEF Types, DiskTypes
<1> QED BY <1>1, <1>2, <1>3, <1>4, AppendPlaces

LEMMA DrainPlaces ==
    ASSUME Types, Places, CkptDrain \/ MergeDrain
    PROVE  Places'
<1> DEFINE g == Head(retired)
<1>1. DrainOne /\ UNCHANGED <<mode, index, active, rc>> /\ g \in Files /\ g \in Gone
      /\ retired # <<>> /\ retired' = Tail(retired)
      /\ \A i \in DOMAIN Tail(retired) : Tail(retired)[i] \in Gone
  BY UnlinkTypes DEF CkptDrain, MergeDrain, DrainOne
<1>2. mode = "open" /\ ~Copies
  BY <1>1 DEF Places
<1>3. /\ present' = present \ {g} /\ sealed' = sealed \ {g}
      /\ disk' = [disk EXCEPT ![g] = <<>>] /\ durable' = [durable EXCEPT ![g] = 0]
      /\ hint' = [hint EXCEPT ![g] = <<>>]
  BY <1>1 DEF DrainOne, Unlink
<1>4. ~Copies'
  BY <1>2 DEF CkptDrain, MergeDrain, Copies
<1>5. Gone' \subseteq Gone
  BY <1>1 DEF Gone
<1> HIDE DEF g
<1>6. /\ disk \in [Files -> Log] /\ durable \in [Files -> Nat] /\ hint \in [Files -> Seq(Row0)]
      /\ present \in SUBSET Files /\ sealed \in SUBSET Files
  BY DEF Types, DiskTypes
<1>7. \A f \in Files : durable'[f] <= Len(disk'[f])
  <2>1. durable'[g] = 0 /\ Len(disk'[g]) = 0
    BY <1>1, <1>3, <1>6, EmptyLength
  <2>2. \A f \in Files \ {g} : durable'[f] = durable[f] /\ disk'[f] = disk[f]
    BY <1>1, <1>3, <1>6
  <2> QED BY <2>1, <2>2 DEF Places
<1>8. \A f \in (sealed \cup Out)' : durable'[f] = Len(disk'[f])
  <2>1. Out' = {} /\ sealed' \subseteq sealed
    BY <1>3, <1>4 DEF Out
  <2>2. \A f \in Files \ {g} : durable'[f] = durable[f] /\ disk'[f] = disk[f]
    BY <1>1, <1>3, <1>6
  <2> QED BY <1>3, <1>6, <2>1, <2>2 DEF Places
<1>9. \A f \in Files \ present' : disk'[f] = <<>> /\ hint'[f] = <<>> /\ durable'[f] = 0
  <2>1. \A f \in Files \ {g} : durable'[f] = durable[f] /\ disk'[f] = disk[f] /\ hint'[f] = hint[f]
    BY <1>1, <1>3, <1>6
  <2> QED BY <1>1, <1>3, <1>6, <2>1 DEF Places
<1>10. active # g
  BY <1>1 DEF Places
<1>11. active' = active /\ biggest' = biggest /\ mode' = mode
  BY <1>1 DEF index
<1> QED BY <1>2, <1>3, <1>4, <1>5, <1>7, <1>8, <1>9, <1>10, <1>11 DEF Places

LEMMA OpenPlaces ==
    ASSUME Types, Places, MergeOpen
    PROVE  Places'
<1>1. /\ mg.pc = "drain" /\ retired = <<>> /\ biggest < MaxFile
      /\ biggest' = NextFile /\ present' = present \cup {NextFile}
      /\ UNCHANGED <<disk, durable, hint, sealed, mode, active, retired, rc>>
  BY DEF MergeOpen
<1>2. PICK S \in MergeSets :
        mg' = [pc |-> "fold", left |-> S, out |-> NextFile, pos |-> 0,
               moves |-> <<>>, ins |-> S, stuck |-> {}]
  BY DEF MergeOpen
<1>3. S \subseteq present \ {active}
  BY DEF MergeSets, Mergeable
<1>4. mode = "open" /\ ~Copies
  BY <1>1 DEF Places, Idle, Copies
<1>5. biggest \in Nat /\ NextFile \in Files /\ NextFile > biggest /\ 0 \notin Files
      /\ present \in SUBSET Files
  BY <1>1, Numbers DEF NextFile, Files, Types, IndexTypes, DiskTypes
<1>6. NextFile \notin present
  BY <1>4, <1>5, Numbers DEF Places
<1>7. disk[NextFile] = <<>> /\ durable[NextFile] = 0 /\ Len(disk[NextFile]) = 0
  BY <1>5, <1>6, EmptyLength DEF Places
<1>8. Out' = {NextFile} /\ Copies' /\ mg'.out = NextFile /\ mg'.ins = S /\ mg'.left = S
  BY <1>2 DEF Out, Copies
<1>9. \A f \in (sealed \cup Out)' : durable'[f] = Len(disk'[f])
  BY <1>1, <1>7, <1>8 DEF Places
<1>10. \A f \in present' : f <= biggest'
  BY <1>1, <1>4, <1>5, Numbers DEF Places
<1>11. Gone' = {}
  BY <1>1 DEF Gone
<1>12. \A f \in Files \ present' : disk'[f] = <<>> /\ hint'[f] = <<>> /\ durable'[f] = 0
  BY <1>1 DEF Places
<1>13. active # NextFile
  BY <1>5, <1>6 DEF Places
<1>14. \A f \in Files : durable'[f] <= Len(disk'[f])
  BY <1>1 DEF Places
<1>15. sealed' \subseteq present' /\ active' \in present' \cup {0} /\ active' \notin sealed'
       /\ NextFile \notin sealed'
  BY <1>1, <1>6 DEF Places
<1>16. retired' = <<>> /\ S \subseteq present' \ {active', NextFile} /\ NextFile \in present'
  BY <1>1, <1>3, <1>6
<1>17. mode' = "open"
  BY <1>1, <1>4
<1> QED BY <1>1, <1>8, <1>9, <1>10, <1>11, <1>12, <1>13, <1>14, <1>15, <1>16, <1>17 DEF Places

LEMMA FlushPlaces ==
    ASSUME Types, Places, MergeFlush
    PROVE  Places'
<1>1. PICK more \in Log, n \in Nat :
        /\ mg.out \in Files /\ Copies
        /\ disk' = [disk EXCEPT ![mg.out] = more]
        /\ durable' = [durable EXCEPT ![mg.out] = Len(more)]
        /\ hint' = [hint EXCEPT ![mg.out] = hint[mg.out] \o
                       [j \in 1..n |-> Row(more, Len(disk[mg.out]) + j)]]
        /\ mg' = [mg EXCEPT !.pc = "move", !.pos = Len(disk[mg.out]) + 1]
  BY FlushShape
<1>2. UNCHANGED <<present, sealed, mode, biggest, active, retired, rc, wr, ck>>
  BY DEF MergeFlush, index
<1>3. mg \in Copying
  BY <1>1, JobFacts
<1>4. mg'.out = mg.out /\ mg'.ins = mg.ins /\ mg'.left = mg.left /\ Copies' /\ Out' = Out
      /\ Out = {mg.out}
  BY <1>1, <1>3 DEF Copying, Copies, Out
<1>5. /\ disk \in [Files -> Log] /\ durable \in [Files -> Nat] /\ hint \in [Files -> Seq(Row0)]
      /\ present \in SUBSET Files /\ sealed \in SUBSET Files
  BY DEF Types, DiskTypes
<1>6. /\ \A f \in Files \ {mg.out} : disk'[f] = disk[f] /\ durable'[f] = durable[f]
                                     /\ hint'[f] = hint[f]
      /\ disk'[mg.out] = more /\ durable'[mg.out] = Len(more)
  BY <1>1, <1>5
<1>7. \A f \in Files : durable'[f] <= Len(disk'[f])
  <2>1. Len(more) <= Len(more)
    BY <1>1 DEF Log
  <2> QED BY <1>6, <2>1 DEF Places
<1>8. \A f \in (sealed \cup Out)' : durable'[f] = Len(disk'[f])
  BY <1>2, <1>4, <1>5, <1>6 DEF Places
<1>9. \A f \in Files \ present' : disk'[f] = <<>> /\ hint'[f] = <<>> /\ durable'[f] = 0
  <2>1. mg.out \in present
    BY <1>1 DEF Places
  <2> QED BY <1>2, <1>6, <2>1 DEF Places
<1>10. Gone' = Gone
  BY <1>2 DEF Gone
<1>11. mode = "open"
  BY <1>1 DEF Places, Copies, Idle
<1> QED BY <1>1, <1>2, <1>4, <1>7, <1>8, <1>9, <1>10, <1>11 DEF Places

LEMMA RetirePlaces ==
    ASSUME Types, Places, MergeRetire
    PROVE  Places'
<1>1. /\ Copies /\ sealed' = sealed \cup {mg.out} /\ mg'.pc = "capture"
      /\ retired' = retired \o Ascending(RetiredBy(mg))
      /\ UNCHANGED <<disk, present, durable, hint, mode, biggest, active, rc>>
  BY DEF MergeRetire, Copies, index
<1>2. ~Copies' /\ Out' = {} /\ mg.out \in Out
  BY <1>1 DEF Copies, Out
<1>3. mode = "open" /\ retired = <<>>
  BY <1>1 DEF Places, Copies, Idle
<1>4. mg \in Copying
  BY <1>1, JobFacts
<1>5. RetiredBy(mg) \in SUBSET Files /\ RetiredBy(mg) \subseteq mg.ins
  BY <1>4 DEF RetiredBy, Copying
<1>6. PICK more \in Seq(Files) : more = Ascending(RetiredBy(mg))
        /\ \A i \in DOMAIN more : more[i] \in mg.ins
  BY <1>5, RangeOfAscending
<1>7. retired' = more
  BY <1>1, <1>3, <1>6
<1>8. \A f \in Gone' : f \in mg.ins
  BY <1>6, <1>7 DEF Gone
<1>9. mg.ins \subseteq present \ {active, mg.out} /\ mg.out \in present /\ mg.out # active
      /\ mg.out \notin sealed
  BY <1>1 DEF Places
<1>10. \A f \in (sealed \cup Out)' : durable'[f] = Len(disk'[f])
  BY <1>1, <1>2 DEF Places
<1>11. \A f \in Gone' : f <= biggest' /\ f # active'
  BY <1>1, <1>3, <1>8, <1>9 DEF Places
<1>12. sealed' \subseteq present' /\ active' \notin sealed' /\ active' \in present' \cup {0}
  BY <1>1, <1>9 DEF Places
<1> QED BY <1>1, <1>2, <1>3, <1>10, <1>11, <1>12 DEF Places

LEMMA ClosePlaces ==
    ASSUME Types, Places, Close
    PROVE  Places'
<1>1. /\ sealed' = SealedAfterRoll \ Gone /\ present' = present \ Gone
      /\ disk' = [f \in Files |-> IF f \in Gone THEN <<>> ELSE disk[f]]
      /\ hint' = [f \in Files |-> IF f \in Gone THEN <<>> ELSE hint[f]]
      /\ durable' = [f \in Files |-> IF f \in Gone THEN 0 ELSE DurableIfSealed[f]]
      /\ mode = "open" /\ mg.pc = "idle" /\ Forget
  BY DEF Close
<1>2. /\ biggest' = 0 /\ active' = 0 /\ wr' = Idle /\ mg' = Idle /\ ck' = Idle
      /\ retired' = <<>> /\ mode' = "closed"
  BY <1>1 DEF Forget
<1>3. ~Copies' /\ Out' = {} /\ Gone' = {}
  BY <1>2 DEF Copies, Out, Gone, Idle
<1>4. /\ durable \in [Files -> Nat] /\ active \in 0..MaxFile /\ present \in SUBSET Files
      /\ \A f \in Files : Len(disk[f]) \in Nat /\ durable[f] \in Nat
      /\ active # 0 => active \in present
      /\ 0 \notin Files /\ sealed \in SUBSET Files
  BY Numbers DEF Types, DiskTypes, IndexTypes, Log, Places
<1>5. \A f \in Files : DurableIfSealed[f] = IF f = active THEN Len(disk[f]) ELSE durable[f]
  BY <1>4 DEF DurableIfSealed, Fsynced
<1>6. SealedAfterRoll = IF active = 0 THEN sealed ELSE sealed \cup {active}
  BY DEF SealedAfterRoll
<1>7. \A f \in Files : durable'[f] <= Len(disk'[f])
  BY <1>1, <1>4, <1>5, EmptyLength DEF Places
<1>8. \A f \in sealed' : durable'[f] = Len(disk'[f])
  BY <1>1, <1>4, <1>5, <1>6 DEF Places
<1>9. \A f \in Files \ present' : disk'[f] = <<>> /\ hint'[f] = <<>> /\ durable'[f] = 0
  <2>1. ASSUME NEW f \in Files \ present', f \notin Gone
        PROVE  f \notin present /\ f # active
    BY <1>1, <1>4, <2>1
  <2> QED BY <1>1, <1>5, <2>1 DEF Places
<1>10. sealed' \subseteq present' /\ 0 \notin sealed'
  BY <1>1, <1>4, <1>6 DEF Places
<1> QED BY <1>2, <1>3, <1>7, <1>8, <1>9, <1>10 DEF Places

LEMMA CrashPlaces ==
    ASSUME Types, Places, NEW kind \in CrashKinds, Crash(kind)
    PROVE  Places'
<1>0. \A f \in Files : durable[f] <= Len(disk[f])
  BY DEF Places
<1>1. /\ sealed' \subseteq sealed
      /\ \A f \in Files : /\ Len(disk'[f]) \in durable[f]..Len(disk[f])
                          /\ durable'[f] <= Len(disk'[f])
                          /\ durable[f] = Len(disk[f]) => /\ disk'[f] = disk[f]
                                                          /\ durable'[f] = durable[f]
      /\ UNCHANGED <<present, hint>>
  BY <1>0, CrashShape
<1>2. /\ biggest' = 0 /\ active' = 0 /\ wr' = Idle /\ mg' = Idle /\ ck' = Idle
      /\ retired' = <<>> /\ mode' = "closed"
  BY DEF Crash, Forget
<1>3. ~Copies' /\ Out' = {} /\ Gone' = {}
  BY <1>2 DEF Copies, Out, Gone, Idle
<1>4. sealed \in SUBSET Files /\ 0 \notin Files
  BY Numbers DEF Types, DiskTypes
<1>5. \A f \in sealed' : durable'[f] = Len(disk'[f])
  BY <1>1, <1>4 DEF Places
<1>6. \A f \in Files \ present' : disk'[f] = <<>> /\ hint'[f] = <<>> /\ durable'[f] = 0
  BY <1>1, EmptyLength DEF Places
<1>7. sealed' \subseteq present' /\ 0 \notin sealed'
  BY <1>1, <1>4 DEF Places
<1> QED BY <1>1, <1>2, <1>3, <1>5, <1>6, <1>7 DEF Places

LEMMA RecoveryPlaces ==
    ASSUME Types, Places, Open \/ Recovered \/ \E w \in Workers : TakeFile(w)
    PROVE  Places'
<1>0. mode # "open" /\ wr = Idle /\ mg = Idle /\ ck = Idle /\ active = 0 /\ retired = <<>>
      /\ ~Copies /\ Out = {} /\ Gone = {}
  <2>1. mode # "open"
    BY DEF Open, Recovered, TakeFile
  <2>2. mg = Idle /\ retired = <<>>
    BY <2>1 DEF Places
  <2>3. ~Copies /\ Out = {} /\ Gone = {}
    BY <2>2 DEF Copies, Out, Gone, Idle
  <2> QED BY <2>1, <2>3 DEF Places
<1>1. UNCHANGED <<present, hint, sealed, wr, mg, ck, active, retired>>
  BY DEF Open, Recovered, TakeFile, onDisk
<1>2. ~Copies' /\ Out' = {} /\ Gone' = {}
  BY <1>0, <1>1 DEF Copies, Out, Gone
<1>3. CASE Open
  <2>1. UNCHANGED <<disk, durable>> /\ mode' = "recovering" /\ rc'.todo = present
    BY <1>3 DEF Open, onDisk, NoRecovery
  <2> QED BY <1>0, <1>1, <1>2, <2>1 DEF Places
<1>4. CASE Recovered
  <2>1. UNCHANGED <<disk, durable, biggest>> /\ mode' = "open" /\ rc.todo = {}
        /\ mode = "recovering"
    BY <1>4 DEF Recovered, onDisk, index
  <2> QED BY <1>0, <1>1, <1>2, <2>1 DEF Places
<1>5. ASSUME NEW w \in Workers, TakeFile(w) PROVE Places'
  <2>1. PICK f \in Files :
          /\ f \in rc.todo /\ mode = "recovering"
          /\ rc' = [rc EXCEPT !.todo = rc.todo \ {f},
                         !.work[w] = IF RowsOf(f) = <<>> THEN NoWork
                                     ELSE [file |-> f, rows |-> RowsOf(f)]]
          /\ biggest' = Larger(biggest, f)
          /\ disk' = [disk EXCEPT ![f] = TornTailCut(f)]
          /\ durable' = [durable EXCEPT ![f] = IF durable[f] < Len(TornTailCut(f))
                                               THEN durable[f] ELSE Len(TornTailCut(f))]
    BY <1>5, TakenFile
  <2>2. rc'.todo = rc.todo \ {f}
    BY <2>1 DEF Types, RecoveryTypes
  <2>3. mode' = "recovering"
    BY <1>5, <2>1 DEF TakeFile
  <2>4. biggest \in Nat /\ biggest' \in Nat /\ biggest' >= biggest /\ f <= biggest'
    BY <2>1, Numbers DEF Types, IndexTypes, Larger
  <2>5. /\ TornTailCut(f) \in Log /\ Len(TornTailCut(f)) \in 0..Len(disk[f])
        /\ Len(TornTailCut(f)) \in Nat
        /\ disk \in [Files -> Log] /\ durable \in [Files -> Nat]
        /\ sealed \in SUBSET Files /\ present \in SUBSET Files
    BY <2>1, TailCutType DEF Types, DiskTypes, Log
  <2>6. /\ \A g \in Files \ {f} : disk'[g] = disk[g] /\ durable'[g] = durable[g]
        /\ disk'[f] = TornTailCut(f)
        /\ durable'[f] = IF durable[f] < Len(TornTailCut(f)) THEN durable[f]
                         ELSE Len(TornTailCut(f))
    BY <2>1, <2>5
  <2>7. durable'[f] <= Len(disk'[f]) /\ (durable[f] = Len(disk[f]) => durable'[f] = Len(disk'[f]))
    <3>1. PICK c \in Nat, d \in Nat, l \in Nat :
            c = Len(TornTailCut(f)) /\ d = durable[f] /\ l = Len(disk[f])
      BY <2>5 DEF Log
    <3>2. c <= l /\ durable'[f] = (IF d < c THEN d ELSE c) /\ Len(disk'[f]) = c
      BY <2>5, <2>6, <3>1
    <3> QED BY <3>1, <3>2
  <2>8. \A g \in Files : durable'[g] <= Len(disk'[g])
    BY <2>6, <2>7 DEF Places
  <2>9. \A g \in sealed : durable'[g] = Len(disk'[g])
    BY <2>5, <2>6, <2>7 DEF Places
  <2>10. \A g \in Files \ present : disk'[g] = <<>> /\ hint'[g] = <<>> /\ durable'[g] = 0
    <3>1. CASE f \in present
      BY <1>1, <2>6, <3>1 DEF Places
    <3>2. CASE f \notin present
      <4>1. disk[f] = <<>> /\ durable[f] = 0 /\ Len(disk[f]) = 0
        BY <3>2, EmptyLength DEF Places
      <4>2. Len(TornTailCut(f)) = 0
        BY <2>5, <4>1
      <4>3. TornTailCut(f) = <<>>
        BY <2>5, <4>2 DEF Log
      <4>4. durable'[f] = 0
        BY <2>6, <4>1, <4>2
      <4> QED BY <1>1, <2>6, <4>3, <4>4 DEF Places
    <3> QED BY <3>1, <3>2
  <2>11. \A g \in present : g \in rc'.todo \/ g <= biggest'
    <3>1. ASSUME NEW g \in present, g # f PROVE g \in rc'.todo \/ g <= biggest'
      BY <2>1, <2>2, <2>4, <2>5, <3>1, Numbers DEF Places
    <3> QED BY <2>4, <3>1
  <2> QED BY <1>0, <1>1, <1>2, <2>3, <2>8, <2>9, <2>10, <2>11 DEF Places
<1> QED BY <1>3, <1>4, <1>5

LEMMA PlacesInit == Init => Places
<1> SUFFICES ASSUME Init PROVE Places
  OBVIOUS
<1>1. ~Copies /\ Out = {} /\ Gone = {}
  BY DEF Init, Copies, Out, Gone, Idle
<1> QED BY <1>1, EmptyLength DEF Init, Places

LEMMA PlacesKept ==
    ASSUME Types, Places, [Next]_vars
    PROVE  Places'
<1>1. CASE Ended \/ OutOfFiles
  BY <1>1, QuietSteps DEF Ended, OutOfFiles
<1> QED BY <1>1, QuietSteps, WritePlaces, RewritePlaces, DrainPlaces, OpenPlaces, FlushPlaces,
           RetirePlaces, ClosePlaces, CrashPlaces, RecoveryPlaces
        DEF Next, WriterStep, CkptStep, MergeStep, RecoveryStep

(***************************************************************************)
(* A sealed file is durable                                                *)
(***************************************************************************)
\* What a step does to the records of a file and to their durability
LEMMA DurabilitySteps ==
    ASSUME Types, Places, [Next]_vars
    PROVE  \/ UNCHANGED <<disk, durable, active>>
           \/ UNCHANGED <<disk, active>>
              /\ \A f \in Files : durable'[f] = durable[f] \/ durable'[f] = Len(disk[f])
           \/ \E file \in Files, more \in Log :
                 /\ disk' = [disk EXCEPT ![file] = more]
                 /\ (Roll /\ file = NextFile) \/ (Stay /\ file = active)
           \/ (CkptDrain \/ MergeDrain) \/ MergeFlush \/ Close
           \/ (\E kind \in CrashKinds : Crash(kind))
           \/ (\E w \in Workers : TakeFile(w))
<1>0. \A f \in Files : Len(disk[f]) \in Nat /\ durable[f] \in Nat
      /\ durable \in [Files -> Nat]
  BY DEF Types, DiskTypes, Log
<1>1. \A g \in Files : \A f \in Files : \/ Fsynced(g)[f] = durable[f]
                                        \/ Fsynced(g)[f] = Len(disk[f])
  BY <1>0 DEF Fsynced
<1>2. active # 0 => active \in Files
  BY Numbers DEF Types, IndexTypes, Files
<1>3. CASE SyncBatch \/ Return \/ Sync \/ CkptCapture \/ MergeCapture
  <2>1. UNCHANGED <<disk, active>>
    BY <1>3 DEF SyncBatch, Return, Sync, CkptCapture, MergeCapture
  <2>2. durable' = durable \/ \E g \in Files : durable' = Fsynced(g)
    <3>1. CASE SyncBatch
      <4>1. wr.locs[1] \in Place
        BY <3>1, CallFacts DEF SyncBatch
      <4> QED BY <3>1, <4>1 DEF SyncBatch, Place
    <3>2. CASE Return
      BY <3>2, CallFacts DEF Return, DurableAtReturn
    <3>3. CASE Sync \/ CkptCapture \/ MergeCapture
      BY <1>2, <3>3 DEF Sync, CkptCapture, MergeCapture, DurableAfterCapture
    <3> QED BY <1>3, <3>1, <3>2, <3>3
  <2> QED BY <1>1, <2>1, <2>2
<1>4. CASE Write
  <2>1. PICK kind, file, head, n : Starts(kind, file, head, n)
    BY <1>4, WriteShape
  <2>2. file \in Files /\ ((Roll /\ file = NextFile) \/ (Stay /\ file = active))
        /\ \E more \in Log : disk' = [disk EXCEPT ![file] = more]
    BY <2>1 DEF Starts
  <2> QED BY <2>2
<1>5. CASE Rewrite
  BY <1>5, RewriteShape
<1>6. CASE \/ ApplyPut \/ ApplyRemove \/ ApplyRefused \/ Checkpoint \/ CkptSave \/ Merge
           \/ MergeOpen \/ MergeNothing \/ MergeFold \/ MergeMove \/ MergeNextFile
           \/ MergeRetire \/ MergeSave \/ UNCHANGED vars
  BY <1>6 DEF ApplyPut, ApplyRemove, ApplyRefused, KeepFiles, Checkpoint, CkptSave, Merge,
         MergeOpen, MergeNothing, MergeFold, MergeMove, MergeNextFile, MergeRetire, MergeSave,
         vars, onDisk
<1>7. CASE Open \/ Recovered \/ \E w \in Workers : RecoverRow(w)
  BY <1>7 DEF Open, Recovered, RecoverRow, onDisk
<1>8. CASE Ended \/ OutOfFiles
  BY <1>6, <1>8 DEF Ended, OutOfFiles
<1> QED BY <1>3, <1>4, <1>5, <1>6, <1>7, <1>8
        DEF Next, WriterStep, CkptStep, MergeStep, RecoveryStep

LEMMA DurablesKept ==
    ASSUME Types, Places, Durables, [Next]_vars
    PROVE  Durables'
<1> SUFFICES ASSUME PowerOnly, NEW f \in Files, f # active'
             PROVE  durable'[f] = Len(disk'[f])
  BY DEF Durables, PowerOnly
<1>0. /\ disk \in [Files -> Log] /\ durable \in [Files -> Nat] /\ 0 \notin Files
      /\ \A g \in Files : Len(disk[g]) \in Nat /\ durable[g] \in Nat
      /\ f # active => durable[f] = Len(disk[f])
      /\ active # 0 => active \in Files
  <2>1. disk \in [Files -> Log] /\ durable \in [Files -> Nat] /\ present \in SUBSET Files
    BY DEF Types, DiskTypes
  <2>2. \A g \in Files : Len(disk[g]) \in Nat /\ durable[g] \in Nat
    BY <2>1 DEF Log
  <2>3. f # active => durable[f] = Len(disk[f])
    BY DEF Durables
  <2>4. active # 0 => active \in Files
    BY <2>1 DEF Places
  <2> QED BY <2>1, <2>2, <2>3, <2>4, Numbers
<1>1. CASE UNCHANGED <<disk, durable, active>>
  BY <1>0, <1>1
<1>2. CASE UNCHANGED <<disk, active>>
           /\ \A g \in Files : durable'[g] = durable[g] \/ durable'[g] = Len(disk[g])
  BY <1>0, <1>2
<1>3. ASSUME NEW file \in Files, NEW more \in Log, disk' = [disk EXCEPT ![file] = more],
             (Roll /\ file = NextFile) \/ (Stay /\ file = active)
      PROVE  durable'[f] = Len(disk'[f])
  <2>1. CASE Stay /\ file = active
    BY <1>0, <1>3, <2>1 DEF Stay
  <2>2. CASE Roll /\ file = NextFile
    <3>1. active' = file /\ durable' = DurableIfSealed
      BY <2>2 DEF Roll
    <3>2. disk'[f] = disk[f]
      BY <1>0, <1>3, <3>1
    <3>3. durable'[f] = IF f = active THEN Len(disk[f]) ELSE durable[f]
      BY <1>0, <3>1 DEF DurableIfSealed, Fsynced
    <3> QED BY <1>0, <3>2, <3>3
  <2> QED BY <1>3, <2>1, <2>2
<1>4. CASE CkptDrain \/ MergeDrain
  <2>1. DrainOne /\ active' = active
    BY <1>4 DEF CkptDrain, MergeDrain
  <2>2. PICK g : disk' = [disk EXCEPT ![g] = <<>>] /\ durable' = [durable EXCEPT ![g] = 0]
    BY <2>1 DEF DrainOne, Unlink
  <2> QED BY <1>0, <2>1, <2>2, EmptyLength
<1>5. CASE MergeFlush
  <2>1. PICK more : disk' = [disk EXCEPT ![mg.out] = more]
                    /\ durable' = [durable EXCEPT ![mg.out] = Len(more)]
    BY <1>5, FlushShape
  <2>2. active' = active
    BY <1>5 DEF MergeFlush
  <2> QED BY <1>0, <2>1, <2>2
<1>6. CASE Close
  <2>1. disk' = [g \in Files |-> IF g \in Gone THEN <<>> ELSE disk[g]]
        /\ durable' = [g \in Files |-> IF g \in Gone THEN 0 ELSE DurableIfSealed[g]]
    BY <1>6 DEF Close
  <2>2. DurableIfSealed[f] = IF f = active THEN Len(disk[f]) ELSE durable[f]
    BY <1>0 DEF DurableIfSealed, Fsynced
  <2> QED BY <1>0, <2>1, <2>2, EmptyLength
<1>7. ASSUME NEW kind \in CrashKinds, Crash(kind) PROVE durable'[f] = Len(disk'[f])
  <2>1. kind # "process"
    BY <1>7 DEF PowerOnly
  <2>2. \A g \in Files : durable[g] <= Len(disk[g])
    BY DEF Places
  <2> QED BY <1>7, <2>1, <2>2, CrashShape
<1>8. ASSUME NEW w \in Workers, TakeFile(w) PROVE durable'[f] = Len(disk'[f])
  <2>1. PICK g \in Files :
          /\ mode = "recovering"
          /\ disk' = [disk EXCEPT ![g] = TornTailCut(g)]
          /\ durable' = [durable EXCEPT ![g] = IF durable[g] < Len(TornTailCut(g))
                                               THEN durable[g] ELSE Len(TornTailCut(g))]
    BY <1>8, TakenFile
  <2>2. active = 0 /\ durable[f] = Len(disk[f])
    BY <1>0, <2>1 DEF Places
  <2>3. CASE f = g
    <3>1. Len(TornTailCut(f)) \in 0..Len(disk[f]) /\ Len(disk[f]) \in Nat
      BY <1>0, <2>1, TailCutType
    <3>2. disk'[f] = TornTailCut(f)
          /\ durable'[f] = IF durable[f] < Len(TornTailCut(f)) THEN durable[f]
                           ELSE Len(TornTailCut(f))
      BY <1>0, <2>1, <2>3
    <3>3. PICK c, l : c = Len(TornTailCut(f)) /\ l = Len(disk[f])
      OBVIOUS
    <3>4. c \in 0..l /\ l \in Nat /\ durable'[f] = (IF l < c THEN l ELSE c)
      BY <2>2, <3>1, <3>2, <3>3
    <3>5. durable'[f] = c
      BY <3>4
    <3> QED BY <3>2, <3>3, <3>5
  <2>4. CASE f # g
    BY <1>0, <2>1, <2>2, <2>4
  <2> QED BY <2>3, <2>4
<1> QED BY <1>1, <1>2, <1>3, <1>4, <1>5, <1>6, <1>7, <1>8, DurabilitySteps

(***************************************************************************)
(* A writer that works alone                                               *)
(***************************************************************************)
\* What the steps of a call that has begun do to it
LEMMA CallGoesOn ==
    ASSUME Types, SyncBatch \/ ApplyPut \/ ApplyRemove \/ ApplyRefused \/ Rewrite, Writing'
    PROVE  /\ Writing /\ wr'.recs = wr.recs /\ wr'.kind = wr.kind
           /\ wr'.pc # "sync"
           /\ wr'.pc = "rewrite" => ApplyRefused
           /\ wr'.try = 0 \/ ApplyRefused \/ Rewrite \/ wr'.try = wr.try
           /\ ~Rewrite => /\ wr'.locs = wr.locs /\ UNCHANGED <<active, disk, present, sealed>>
           /\ UNCHANGED <<mode, mg, ck, retired, rc>>
<1>0. wr.pc # "idle"
  BY DEF SyncBatch, ApplyPut, ApplyRemove, ApplyRefused, Rewrite
<1>1. wr \in Call
  BY <1>0, CallFacts
<1>2. /\ NextRecord.recs = wr.recs /\ NextRecord.kind = wr.kind /\ NextRecord.locs = wr.locs
      /\ NextRecord.pc \in {"apply", "return"} /\ NextRecord.try \in {0, wr.try}
      /\ NextRecord.lost = wr.lost
  BY <1>0, NextRecordType
<1>3. UNCHANGED <<mode, mg, ck, retired, rc>>
  BY DEF SyncBatch, ApplyPut, ApplyRemove, ApplyRefused, Rewrite, KeepRest
<1>4. CASE SyncBatch
  <2>1. wr' = [wr EXCEPT !.pc = "apply"] /\ UNCHANGED <<active, disk, present, sealed>>
    BY <1>4 DEF SyncBatch
  <2> QED BY <1>0, <1>1, <1>3, <2>1 DEF Writing, Call
<1>5. CASE ApplyPut \/ ApplyRemove
  <2>1. wr' = NextRecord /\ UNCHANGED <<active, disk, present, sealed>>
    BY <1>5 DEF ApplyPut, ApplyRemove, KeepFiles
  <2> QED BY <1>0, <1>2, <1>3, <2>1 DEF Writing
<1>6. CASE ApplyRefused
  <2>1. UNCHANGED <<active, disk, present, sealed>>
        /\ wr' = IF wr.try < 2 THEN [wr EXCEPT !.pc = "rewrite"]
             ELSE IF wr.kind = "group"
                  THEN [NextRecord EXCEPT !.lost = wr.lost \cup {wr.i}]
                  ELSE [wr EXCEPT !.pc = "return", !.lost = wr.lost \cup (wr.i..Len(wr.recs))]
    BY <1>2, <1>6 DEF ApplyRefused, KeepFiles
  <2>2. CASE wr' = [wr EXCEPT !.pc = "rewrite"]
    BY <1>0, <1>1, <1>3, <1>6, <2>1, <2>2 DEF Writing, Call
  <2>3. CASE wr' = [wr EXCEPT !.pc = "return", !.lost = wr.lost \cup (wr.i..Len(wr.recs))]
    BY <1>0, <1>1, <1>3, <1>6, <2>1, <2>3 DEF Writing, Call
  <2>4. CASE wr' = [NextRecord EXCEPT !.lost = wr.lost \cup {wr.i}]
    <3>1. wr'.recs = NextRecord.recs /\ wr'.kind = NextRecord.kind /\ wr'.locs = NextRecord.locs
          /\ wr'.pc = NextRecord.pc /\ wr'.try = NextRecord.try
      <4>1. PICK x \in Call : x = NextRecord
        BY <1>0, NextRecordType
      <4>2. wr' = [x EXCEPT !.lost = wr.lost \cup {wr.i}]
        BY <2>4, <4>1
      <4> QED BY <4>1, <4>2 DEF Call
    <3> QED BY <1>0, <1>2, <1>3, <1>6, <2>1, <3>1 DEF Writing
  <2> QED BY <2>1, <2>2, <2>3, <2>4
<1>7. CASE Rewrite
  <2>1. wr'.recs = wr.recs /\ wr'.i = wr.i /\ wr'.pc = "apply" /\ wr'.kind = wr.kind
    BY <1>7, RewriteShape
  <2> QED BY <1>0, <1>3, <1>7, <2>1 DEF Writing
<1> QED BY <1>4, <1>5, <1>6, <1>7

LEMMA CalmKept ==
    ASSUME Types, Places, Calm, [Next]_vars
    PROVE  Calm'
<1>0. Writing => mode = "open" /\ active \in Files /\ biggest \in Nat
  BY CallFacts, Numbers DEF Writing, Places, Idle, Types, IndexTypes
<1>1. CASE Write
  <2>1. PICK kind, file, head, n : Starts(kind, file, head, n)
    BY <1>1, WriteShape
  <2>2. /\ mode = "open" /\ Alone /\ file \in Files
        /\ (Roll /\ file = NextFile) \/ (Stay /\ file = active /\ (kind # "remove" => ~(active < biggest)))
        /\ wr'.kind = kind /\ wr'.try = 0 /\ wr'.pc \in {"sync", "apply"}
        /\ (wr'.pc = "sync" => kind # "group") /\ Len(wr'.recs) = n /\ Len(wr'.locs) = n
        /\ kind = "remove" => \A j \in DOMAIN wr'.recs : wr'.recs[j].tomb
        /\ kind = "group" => n <= MaxGroup /\ \A j \in DOMAIN wr'.recs : ~wr'.recs[j].tomb
        /\ UNCHANGED <<mg, ck>> /\ wr' \in Call
    BY <2>1 DEF Starts
  <2>3. DOMAIN wr'.locs = 1..n /\ \A j \in 1..n : wr'.locs[j].file = file
    <3>1. PICK more \in Log : \A j \in 1..n :
                /\ wr'.locs[j] = [file |-> file, pos |-> Len(disk[file]) + head + j,
                                  ord |-> nextOrd + head + j - 1]
      BY <2>1 DEF Starts
    <3>2. wr'.locs \in Seq(Place)
      BY <2>2 DEF Call
    <3>3. ASSUME NEW j \in 1..n PROVE wr'.locs[j].file = file
      <4>1. wr'.locs[j] = [file |-> file, pos |-> Len(disk[file]) + head + j,
                           ord |-> nextOrd + head + j - 1]
        BY <3>1
      <4> QED BY <4>1
    <3>4. DOMAIN wr'.locs = 1..n
      BY <2>2, <3>2
    <3> QED BY <3>3, <3>4
  <2>4. active' = file
    BY <2>2 DEF Roll, Stay
  <2>5. kind # "remove" => active' = biggest'
    <3>1. CASE Roll /\ file = NextFile
      BY <3>1 DEF Roll
    <3>2. CASE Stay /\ file = active /\ (kind # "remove" => ~(active < biggest))
      <4>1. active \in present /\ biggest \in Nat /\ active \in Nat
        BY <2>2, <3>2, Numbers DEF Places, Types, IndexTypes
      <4>2. active <= biggest
        BY <2>2, <4>1 DEF Places
      <4> QED BY <3>2, <4>1, <4>2 DEF Stay
    <3> QED BY <2>2, <3>1, <3>2
  <2>6. ~Overlap => mg' = Idle /\ ck' = Idle
    BY <2>2, JobFacts DEF Alone
  <2> QED BY <2>2, <2>3, <2>4, <2>5, <2>6 DEF Calm
<1>2. CASE SyncBatch \/ ApplyPut \/ ApplyRemove \/ ApplyRefused \/ Rewrite
  <2> SUFFICES ASSUME Writing' PROVE Calm'
    BY DEF Calm
  <2>1. /\ Writing /\ wr'.recs = wr.recs /\ wr'.kind = wr.kind /\ wr'.pc # "sync"
        /\ wr'.pc = "rewrite" => ApplyRefused
        /\ wr'.try = 0 \/ ApplyRefused \/ Rewrite \/ wr'.try = wr.try
        /\ ~Rewrite => wr'.locs = wr.locs /\ UNCHANGED <<active, disk, present, sealed>>
        /\ UNCHANGED <<mode, mg, ck, retired, rc>>
    BY <1>2, CallGoesOn
  <2>2. CASE Overlap
    BY <2>1, <2>2 DEF Calm
  <2>3. CASE ~Overlap
    <3>1. /\ mg = Idle /\ ck = Idle /\ wr.pc # "rewrite" /\ wr.try = 0
          /\ wr.kind # "remove" =>
                active = biggest /\ \A j \in DOMAIN wr.locs : wr.locs[j].file = active
      BY <2>1, <2>3 DEF Calm
    <3>2. ~Rewrite
      BY <3>1 DEF Rewrite
    <3>3. wr.pc # "idle"
      BY <2>1 DEF Writing
    <3>4. wr.i \in DOMAIN wr.recs /\ wr.i \in DOMAIN wr.locs
      BY <3>3, CallFacts
    <3>5. wr.kind # "remove" => FileOfApply = biggest /\ NewestAccepted(FileOfApply, biggest)
      BY <1>0, <2>1, <3>1, <3>4 DEF FileOfApply, Loc, NewestAccepted
    <3>6. wr.kind = "remove" => Req.tomb
      BY <2>1, <3>4 DEF Calm, Req
    <3>7. ~ApplyRefused
      BY <3>5, <3>6 DEF ApplyRefused
    <3>8. wr.kind # "remove" => biggest' = biggest
      <4>1. ApplyPut => biggest' = Larger(biggest, FileOfApply)
        BY DEF ApplyPut
      <4>2. ~ApplyPut => biggest' = biggest
        BY <1>2, <3>2, <3>7 DEF SyncBatch, ApplyRemove, index
      <4> QED BY <3>5, <4>1, <4>2 DEF Larger
    <3> QED BY <2>1, <3>1, <3>2, <3>7, <3>8 DEF Calm
  <2> QED BY <2>2, <2>3
<1>3. CASE Return \/ Forget
  <2>1. ~Writing'
    BY <1>3 DEF Return, Forget, Writing, Idle
  <2> QED BY <2>1 DEF Calm
<1>4. CASE Checkpoint \/ Merge \/ CkptStep \/ MergeStep
  <2>1. wr' = wr /\ active' = active
    BY <1>4 DEF Checkpoint, Merge, CkptStep, CkptDrain, CkptCapture, CkptSave, MergeStep,
           MergeDrain, MergeOpen, MergeNothing, MergeFold, MergeFlush, MergeMove, MergeNextFile,
           MergeRetire, MergeCapture, MergeSave
  <2>2. ~(~Overlap /\ Writing)
    <3> SUFFICES ASSUME ~Overlap, Writing PROVE FALSE
      OBVIOUS
    <3>1. mg = Idle /\ ck = Idle /\ wr.pc # "idle"
      BY DEF Calm, Writing
    <3>2. ~Checkpoint /\ ~Merge
      BY <3>1 DEF Checkpoint, Merge, Quiet
    <3> QED BY <1>4, <3>1, <3>2 DEF Idle, CkptStep, CkptDrain, CkptCapture, CkptSave, MergeStep,
               MergeDrain, MergeOpen, MergeNothing, MergeFold, MergeFlush, MergeMove,
               MergeNextFile, MergeRetire, MergeCapture, MergeSave
  <2> QED BY <2>1, <2>2 DEF Calm, Writing
<1>5. CASE Sync \/ UNCHANGED vars
  <2>1. UNCHANGED <<wr, mg, ck, active, biggest>>
    BY <1>5 DEF Sync, vars, index
  <2> QED BY <2>1 DEF Calm, Writing
<1>6. CASE RecoveryStep
  <2>1. wr' = wr /\ mode # "open"
    BY <1>6 DEF RecoveryStep, Open, Recovered, TakeFile, RecoverRow
  <2>2. ~Writing'
    BY <1>0, <2>1 DEF Writing
  <2> QED BY <2>2 DEF Calm
<1>7. CASE Close \/ \E kind \in CrashKinds : Crash(kind)
  BY <1>3, <1>7 DEF Close, Crash
<1>8. CASE Ended \/ OutOfFiles
  BY <1>5, <1>8 DEF Ended, OutOfFiles
<1> QED BY <1>1, <1>2, <1>3, <1>4, <1>5, <1>6, <1>7, <1>8 DEF Next, WriterStep

(***************************************************************************)
(* Hint files                                                              *)
(***************************************************************************)
LEMMA EmptyLog ==
    <<>> \in Log /\ Whole(<<>>) /\ RowsFrom(<<>>, 0) = <<>>
<1>1. <<>> \in Log /\ DOMAIN <<>> = {} /\ 0 \in Nat /\ <<>> \in Seq(Item \cup Header)
  BY DEF Log
<1>2. Whole(<<>>)
  BY <1>1 DEF Whole
<1>3. Found(<<>>, 0) = {}
  <2>1. Found(<<>>, 0) \subseteq DOMAIN <<>>
    BY <1>1, FoundType
  <2> QED BY <1>1, <2>1
<1>4. Len(RowsFrom(<<>>, 0)) = 0
  BY <1>1, <1>3, RowsAreRecords, FS_EmptySet
<1>5. RowsFrom(<<>>, 0) \in Seq(Row0)
  BY <1>1, RowsType
<1> QED BY <1>1, <1>2, <1>4, <1>5

LEMMA Grown ==
    ASSUME NEW log \in Log, NEW more \in Log, NEW skip \in 0..1, NEW n \in Nat,
           Extends(more, log, skip, n), Whole(log)
    PROVE  /\ Whole(more)
           /\ RowsFrom(more, 0)
                = RowsFrom(log, 0) \o [j \in 1..n |-> Row(more, Len(log) + skip + j)]
<1>1. \A i \in DOMAIN log : IsHead(log[i]) => log[i].span \in Nat
  BY Records DEF Log
<1>2. Whole(more)
  BY <1>1, WholeExtends DEF Log
<1> QED BY <1>2, RowsExtend DEF Log

LEMMA WholeSubSeq ==
    ASSUME NEW log \in Log
    PROVE  SubSeq(log, 1, Len(log)) = log
<1>1. Len(log) \in 0..Len(log)
  BY DEF Log
<1>2. /\ SubSeq(log, 1, Len(log)) \in Log /\ Len(SubSeq(log, 1, Len(log))) = Len(log)
      /\ \A i \in 1..Len(log) : SubSeq(log, 1, Len(log))[i] = log[i]
  BY <1>1, TruncatedType
<1>3. SubSeq(log, 1, Len(log)) \in Seq(Item \cup Header) /\ log \in Seq(Item \cup Header)
  BY <1>2 DEF Log
<1> QED BY <1>2, <1>3, SeqEqual

LEMMA OneRow ==
    ASSUME NEW rows \in Seq(Row0), NEW more \in Log, NEW base \in Nat
    PROVE  rows \o [j \in 1..1 |-> Row(more, base + 0 + j)] = Append(rows, Row(more, base + 1))
<1>1. [j \in 1..1 |-> Row(more, base + 0 + j)] = <<Row(more, base + 1)>>
  <2>1. \A j \in 1..1 : base + 0 + j = base + 1
    OBVIOUS
  <2>2. [j \in 1..1 |-> Row(more, base + 0 + j)] = [j \in 1..1 |-> Row(more, base + 1)]
    BY <2>1
  <2>3. PICK r : r = Row(more, base + 1)
    OBVIOUS
  <2>4. [j \in 1..1 |-> r] = <<r>>
    OBVIOUS
  <2> QED BY <2>2, <2>3, <2>4
<1>2. PICK r : r = Row(more, base + 1)
  OBVIOUS
<1>3. rows \o <<r>> = Append(rows, r)
  OBVIOUS
<1> QED BY <1>1, <1>2, <1>3

\* One record more of a log that is already there
LEMMA OneMore ==
    ASSUME NEW log \in Log, NEW h \in Nat, h < Len(log), Whole(SubSeq(log, 1, h)),
           ~IsHead(log[h + 1])
    PROVE  /\ Whole(SubSeq(log, 1, h + 1))
           /\ RowsFrom(SubSeq(log, 1, h + 1), 0)
                = Append(RowsFrom(SubSeq(log, 1, h), 0), Row(log, h + 1))
<1>0. Len(log) \in Nat
  BY DEF Log
<1>1. PICK a \in Log : a = SubSeq(log, 1, h) /\ Len(a) = h /\ \A i \in 1..h : a[i] = log[i]
  <2>1. h \in 0..Len(log)
    BY <1>0
  <2> QED BY <2>1, TruncatedType
<1>2. PICK b \in Log : b = SubSeq(log, 1, h + 1) /\ Len(b) = h + 1
                       /\ \A i \in 1..(h + 1) : b[i] = log[i]
  <2>1. h + 1 \in 0..Len(log)
    BY <1>0
  <2> QED BY <2>1, TruncatedType
<1>3. Extends(b, a, 0, 1)
  <2>1. DOMAIN a = 1..h
    BY <1>1 DEF Log
  <2>2. \A i \in 1..h : b[i] = a[i]
    BY <1>1, <1>2
  <2>3. Len(b) = Len(a) + 0 + 1
    BY <1>1, <1>2
  <2>4. \A i \in 1..1 : ~IsHead(b[Len(a) + 0 + i])
    <3>1. \A i \in 1..1 : Len(a) + 0 + i = h + 1
      BY <1>1
    <3>2. b[h + 1] = log[h + 1]
      BY <1>2
    <3> QED BY <3>1, <3>2
  <2> QED BY <2>1, <2>2, <2>3, <2>4 DEF Extends
<1>4. /\ Whole(b)
      /\ RowsFrom(b, 0) = RowsFrom(a, 0) \o [j \in 1..1 |-> Row(b, Len(a) + 0 + j)]
  <2>1. 0 \in 0..1 /\ 1 \in Nat /\ Whole(a)
    BY <1>1
  <2> QED BY <1>3, <2>1, Grown
<1>5. RowsFrom(b, 0) = Append(RowsFrom(a, 0), Row(b, h + 1))
  <2>1. RowsFrom(a, 0) \in Seq(Row0)
    <3>1. 0 \in Nat
      OBVIOUS
    <3> QED BY <3>1, RowsType
  <2>2. [j \in 1..1 |-> Row(b, Len(a) + 0 + j)] = [j \in 1..1 |-> Row(b, h + 0 + j)]
    BY <1>1
  <2> QED BY <1>4, <2>1, <2>2, OneRow
<1>6. Row(b, h + 1) = Row(log, h + 1)
  <2>1. b[h + 1] = log[h + 1]
    BY <1>2
  <2> QED BY <2>1 DEF Row
<1> QED BY <1>1, <1>2, <1>4, <1>5, <1>6

LEMMA OthersHinted ==
    ASSUME Types, Places, Hints, ~Unhinted, mode = "open", NEW file \in Files, NEW more,
           (Roll /\ file = NextFile) \/ (Stay /\ file = active),
           disk' = [disk EXCEPT ![file] = more],
           \A f \in Files \ {file} : hint'[f] = hint[f], mg' = mg
    PROVE  /\ \A f \in (sealed \cup Out)' : Whole(disk'[f]) /\ hint'[f] = RowsFrom(disk'[f], 0)
           /\ Whole(disk[file]) /\ hint[file] = RowsFrom(disk[file], 0)
           /\ active' = file /\ disk[file] \in Log /\ hint[file] \in Seq(Row0)
           /\ disk'[file] = more
<1>0. /\ disk \in [Files -> Log] /\ hint \in [Files -> Seq(Row0)] /\ 0 \notin Files
      /\ sealed \subseteq present /\ present \in SUBSET Files
      /\ Out \subseteq present /\ Out' = Out /\ active \in present \cup {0}
      /\ active \notin sealed \cup Out
      /\ \A f \in present : f <= biggest /\ biggest \in Nat /\ f \in Nat
  BY Numbers DEF Types, DiskTypes, IndexTypes, Places, Out, Copies
<1>1. \A f \in Files \ {file} : disk'[f] = disk[f] /\ hint'[f] = hint[f]
  BY <1>0
<1>2. disk'[file] = more
  BY <1>0
<1>3. active # 0 => Whole(disk[active]) /\ hint[active] = RowsFrom(disk[active], 0)
  BY DEF Hints
<1>4. CASE Stay /\ file = active
  <2>1. sealed' = sealed /\ active' = active
    BY <1>4 DEF Stay
  <2>2. \A f \in sealed \cup Out : f \in Files \ {file}
    BY <1>0, <1>4
  <2> QED BY <1>0, <1>1, <1>2, <1>3, <1>4, <2>1, <2>2 DEF Hints
<1>5. CASE Roll /\ file = NextFile
  <2>1. active' = file /\ sealed' = SealedAfterRoll /\ file = biggest + 1
    BY <1>5 DEF Roll, NextFile
  <2>2. file \notin present
    BY <1>0, <2>1
  <2>3. disk[file] = <<>> /\ hint[file] = <<>>
    BY <2>2 DEF Places
  <2>4. \A f \in sealed \cup Out : f \in Files \ {file}
    BY <1>0, <2>2
  <2>5. active # 0 => active \in Files \ {file}
    BY <1>0, <2>2
  <2>6. sealed' = IF active = 0 THEN sealed ELSE sealed \cup {active}
    BY <2>1 DEF SealedAfterRoll
  <2>7. \A f \in sealed' \cup Out : Whole(disk'[f]) /\ hint'[f] = RowsFrom(disk'[f], 0)
    BY <1>1, <1>3, <2>4, <2>5, <2>6 DEF Hints
  <2> QED BY <1>0, <1>2, <2>1, <2>3, <2>7, EmptyLog
<1> QED BY <1>4, <1>5

LEMMA WriteHints ==
    ASSUME Types, Places, Hints, Write
    PROVE  Hints'
<1>1. PICK kind, file, head, n : Starts(kind, file, head, n)
  BY WriteShape
<1>2. /\ file \in Files /\ head \in 0..1 /\ n \in Nat \ {0} /\ mode = "open" /\ wr = Idle
      /\ (Roll /\ file = NextFile) \/ (Stay /\ file = active)
      /\ kind = "atomic" <=> head = 1
      /\ wr'.kind = kind /\ wr'.i = 1 /\ wr'.try = 0 /\ Len(wr'.recs) = n /\ Len(wr'.locs) = n
      /\ wr'.pc \in {"sync", "apply"} /\ (wr'.pc = "sync" => kind # "group")
      /\ mg' = mg
  BY <1>1 DEF Starts
<1>3. PICK more \in Log :
        /\ disk' = [disk EXCEPT ![file] = more] /\ Extends(more, disk[file], head, n)
        /\ \A j \in 1..n :
                /\ wr'.locs[j] = [file |-> file, pos |-> Len(disk[file]) + head + j,
                                  ord |-> nextOrd + head + j - 1]
                /\ more[Len(disk[file]) + head + j]
                      = Record(wr'.recs[j], nextOrd + head + j - 1)
        /\ hint' = IF kind = "group" THEN hint
                   ELSE [hint EXCEPT ![file] = hint[file] \o
                            [j \in 1..n |-> Row(more, Len(disk[file]) + head + j)]]
  BY <1>1 DEF Starts
<1>4. ~Unhinted
  BY <1>2 DEF Unhinted, Idle
<1>5. \A f \in Files \ {file} : hint'[f] = hint[f]
  BY <1>2, <1>3 DEF Types, DiskTypes
<1>6. /\ \A f \in (sealed \cup Out)' : Whole(disk'[f]) /\ hint'[f] = RowsFrom(disk'[f], 0)
      /\ Whole(disk[file]) /\ hint[file] = RowsFrom(disk[file], 0)
      /\ active' = file /\ disk[file] \in Log /\ hint[file] \in Seq(Row0)
      /\ disk'[file] = more
  <2>1. /\ mode = "open" /\ file \in Files
        /\ (Roll /\ file = NextFile) \/ (Stay /\ file = active)
    BY <1>2
  <2>2. disk' = [disk EXCEPT ![file] = more] /\ mg' = mg
    BY <1>2, <1>3
  <2>3. Types /\ Places /\ Hints
    OBVIOUS
  <2> QED BY <2>1, <2>2, <2>3, <1>4, <1>5, OthersHinted
<1>7. /\ Whole(more)
      /\ RowsFrom(more, 0)
           = RowsFrom(disk[file], 0) \o [j \in 1..n |-> Row(more, Len(disk[file]) + head + j)]
  <2>1. /\ n \in Nat /\ head \in 0..1 /\ Extends(more, disk[file], head, n)
        /\ Whole(disk[file]) /\ disk[file] \in Log /\ more \in Log
    BY <1>2, <1>3, <1>6
  <2> QED BY <2>1, Grown
<1>8. CASE kind # "group"
  <2>1. ~Unhinted'
    BY <1>2, <1>8 DEF Unhinted
  <2>2. hint'[file] = RowsFrom(more, 0)
    BY <1>2, <1>3, <1>6, <1>7, <1>8 DEF Types, DiskTypes
  <2> QED BY <1>6, <1>7, <2>1, <2>2 DEF Hints
<1>9. CASE kind = "group"
  <2>1. head = 0 /\ wr'.pc = "apply"
    BY <1>2, <1>9
  <2>2. PICK l : l = Len(disk[file])
    OBVIOUS
  <2>3. l \in Nat /\ Len(more) = l + n
    <3>1. Len(more) = l + head + n
      BY <1>3, <2>2 DEF Extends
    <3>2. l \in Nat
      BY <1>6, <2>2 DEF Log
    <3> QED BY <1>2, <2>1, <3>1, <3>2
  <2>4. Hinted' = l
    <3>1. Hinted' = Len(more) - (n - 1 + 1)
      BY <1>2, <1>6 DEF Hinted
    <3> QED BY <1>2, <2>3, <3>1
  <2>5. SubSeq(more, 1, l) = disk[file]
    <3>1. l \in 0..Len(more)
      BY <1>2, <2>3
    <3>2. /\ SubSeq(more, 1, l) \in Log /\ Len(SubSeq(more, 1, l)) = l
          /\ \A i \in 1..l : SubSeq(more, 1, l)[i] = more[i]
      BY <3>1, TruncatedType
    <3>3. \A i \in 1..l : more[i] = disk[file][i]
      BY <1>3, <1>6, <2>2 DEF Extends, Log
    <3>4. SubSeq(more, 1, l) \in Seq(Item \cup Header) /\ disk[file] \in Seq(Item \cup Header)
      BY <1>6, <3>2 DEF Log
    <3> QED BY <2>2, <3>2, <3>3, <3>4, SeqEqual
  <2>6. hint'[file] = RowsFrom(SubSeq(more, 1, l), 0) /\ Whole(SubSeq(more, 1, l))
    BY <1>3, <1>6, <1>9, <2>5
  <2>7. ASSUME NEW j \in 1..n
        PROVE  /\ wr'.locs[j].pos = l + (j - 1 + 1)
               /\ more[wr'.locs[j].pos] = Record(wr'.recs[j], wr'.locs[j].ord)
    <3>1. /\ wr'.locs[j] = [file |-> file, pos |-> l + head + j, ord |-> nextOrd + head + j - 1]
          /\ more[l + head + j] = Record(wr'.recs[j], nextOrd + head + j - 1)
      BY <1>3, <2>2
    <3>2. wr'.locs[j].pos = l + head + j /\ wr'.locs[j].ord = nextOrd + head + j - 1
      BY <3>1
    <3>3. l + head + j = l + (j - 1 + 1)
      BY <2>1, <2>3
    <3> QED BY <3>1, <3>2, <3>3
  <2>8. Unhinted'
    BY <1>2, <1>9, <2>1 DEF Unhinted
  <2> QED BY <1>2, <1>6, <1>7, <2>3, <2>4, <2>6, <2>7, <2>8 DEF Hints
<1> QED BY <1>8, <1>9

LEMMA RewriteHints ==
    ASSUME Types, Places, Hints, Rewrite
    PROVE  Hints'
<1>1. PICK file \in Files, more \in Log, o \in Nat :
        /\ (Roll /\ file = NextFile) \/ (Stay /\ file = active)
        /\ disk' = [disk EXCEPT ![file] = more]
        /\ Extends(more, disk[file], 0, 1) /\ Len(disk[file]) \in Nat
        /\ hint' = [hint EXCEPT ![file] = Append(hint[file], Row(more, Len(disk[file]) + 1))]
        /\ wr'.try = wr.try + 1
  BY RewriteShape
<1>2. mode = "open" /\ mg' = mg /\ ~Unhinted /\ wr.pc # "idle"
  BY DEF Rewrite, KeepRest, Places, Idle, Unhinted
<1>3. \A f \in Files \ {file} : hint'[f] = hint[f]
  BY <1>1 DEF Types, DiskTypes
<1>4. /\ \A f \in (sealed \cup Out)' : Whole(disk'[f]) /\ hint'[f] = RowsFrom(disk'[f], 0)
      /\ Whole(disk[file]) /\ hint[file] = RowsFrom(disk[file], 0)
      /\ active' = file /\ disk[file] \in Log /\ hint[file] \in Seq(Row0)
      /\ disk'[file] = more
  BY <1>1, <1>2, <1>3, OthersHinted
<1>5. /\ Whole(more)
      /\ RowsFrom(more, 0)
           = RowsFrom(disk[file], 0) \o [j \in 1..1 |-> Row(more, Len(disk[file]) + 0 + j)]
  <2>1. 0 \in 0..1 /\ 1 \in Nat
    OBVIOUS
  <2>2. /\ disk[file] \in Log /\ more \in Log /\ Whole(disk[file])
        /\ Extends(more, disk[file], 0, 1)
    BY <1>1, <1>4
  <2> QED BY <2>1, <2>2, Grown
<1>6. RowsFrom(more, 0) = Append(hint[file], Row(more, Len(disk[file]) + 1))
  BY <1>1, <1>4, <1>5, OneRow
<1>7. hint'[file] = RowsFrom(more, 0)
  BY <1>1, <1>6 DEF Types, DiskTypes
<1>8. ~Unhinted'
  <2>1. wr.try \in Nat
    BY <1>2, CallFacts DEF Call
  <2> QED BY <1>1, <2>1 DEF Unhinted
<1> QED BY <1>4, <1>5, <1>7, <1>8 DEF Hints

LEMMA ApplyHints ==
    ASSUME Types, Places, Calm, Calm', Tidy, Hints, ApplyPut \/ ApplyRefused
    PROVE  Hints'
<1>0. /\ wr.pc = "apply" /\ ~Req.tomb /\ hint' = HintOfGroup
      /\ UNCHANGED <<disk, present, durable, sealed, active, mg>>
  BY DEF ApplyPut, ApplyRefused, KeepFiles, KeepRest
<1>1. /\ wr \in Call /\ Len(wr.recs) \in Nat \ {0} /\ wr.i \in 1..Len(wr.recs)
      /\ active \in Files /\ mode = "open" /\ Writing /\ wr.i \in Nat
      /\ DOMAIN wr.recs = 1..Len(wr.recs)
  BY <1>0, CallFacts DEF Writing, Places, Idle
<1>2. /\ disk \in [Files -> Log] /\ hint \in [Files -> Seq(Row0)] /\ Out' = Out
      /\ active \notin sealed \cup Out
      /\ \A f \in sealed \cup Out : f \in Files
  BY <1>0, JobFacts DEF Types, DiskTypes, Places, Out, Copies, Copying
<1>3. \A f \in Files \ {active} : hint'[f] = hint[f]
  BY <1>0, <1>2 DEF HintOfGroup
<1>4. \A f \in (sealed \cup Out)' : Whole(disk'[f]) /\ hint'[f] = RowsFrom(disk'[f], 0)
  BY <1>0, <1>2, <1>3 DEF Hints
<1>5. Whole(disk'[active'])
  BY <1>0, <1>1, Numbers DEF Hints
<1>6. /\ NextRecord.i \in 1..Len(wr.recs) /\ NextRecord.kind = wr.kind
      /\ NextRecord.recs = wr.recs /\ NextRecord.locs = wr.locs
      /\ \/ /\ wr.i < Len(wr.recs) /\ NextRecord.i = wr.i + 1
            /\ NextRecord.try = 0 /\ NextRecord.pc = "apply"
         \/ wr.i = Len(wr.recs) /\ NextRecord.pc = "return"
  BY <1>0, NextRecordType
<1>7. CASE wr.kind # "group"
  <2>1. hint' = hint /\ ~Unhinted
    BY <1>0, <1>7 DEF HintOfGroup, Unhinted
  <2>2. ~Unhinted'
    <3>1. Writing' => wr'.kind = wr.kind
      BY CallGoesOn
    <3>2. Unhinted' => Writing'
      BY DEF Unhinted, Writing
    <3> QED BY <1>7, <3>1, <3>2 DEF Unhinted
  <2> QED BY <1>0, <1>1, <1>4, <1>5, <2>1, <2>2, Numbers DEF Hints
<1>8. CASE wr.kind = "group"
  <2>1. wr.i = Len(wr.recs) \/ ~Overlap
    <3>1. Overlap => Len(wr.recs) <= 1
      BY <1>1, <1>8 DEF Tidy, Calm
    <3> QED BY <1>1, <3>1
  <2>2. Overlap \/ (wr.try = 0 /\ wr'.pc # "rewrite")
    <3>1. ~Overlap => wr.try = 0
      BY <1>1 DEF Calm
    <3>2. ~Overlap /\ wr'.pc = "rewrite" => FALSE
      BY DEF Calm, Writing
    <3> QED BY <3>1, <3>2
  <2>3. \/ wr' = NextRecord
        \/ wr'.pc = "rewrite"
        \/ wr.try # 0 /\ wr'.pc = NextRecord.pc
    <3>1. ApplyPut => wr' = NextRecord
      BY DEF ApplyPut
    <3>2. ApplyRefused => \/ wr' = [wr EXCEPT !.pc = "rewrite"]
                          \/ wr.try # 0 /\ wr' = [NextRecord EXCEPT !.lost = NextRecord.lost \cup {wr.i}]
      BY <1>8 DEF ApplyRefused
    <3>3. wr' = [wr EXCEPT !.pc = "rewrite"] => wr'.pc = "rewrite"
      BY <1>1 DEF Call
    <3>4. ASSUME wr' = [NextRecord EXCEPT !.lost = NextRecord.lost \cup {wr.i}]
          PROVE  wr'.pc = NextRecord.pc
      <4>1. PICK x \in Call : x = NextRecord
        BY <1>0, NextRecordType
      <4>2. wr' = [x EXCEPT !.lost = x.lost \cup {wr.i}]
        BY <3>4, <4>1
      <4> QED BY <4>1, <4>2 DEF Call
    <3> QED BY <3>1, <3>2, <3>3, <3>4
  <2>4. CASE wr.try # 0
    <3>1. hint' = hint /\ ~Unhinted
      BY <1>0, <2>4 DEF HintOfGroup, Unhinted
    <3>2. wr.i = Len(wr.recs)
      BY <2>1, <2>2, <2>4
    <3>3. ~Unhinted'
      BY <1>1, <1>6, <2>3, <3>2 DEF Unhinted
    <3> QED BY <1>0, <1>1, <1>4, <1>5, <3>1, <3>3, Numbers DEF Hints
  <2>5. CASE wr.try = 0
    <3>1. Unhinted
      BY <1>0, <1>8, <2>5 DEF Unhinted
    <3>2. PICK log \in Log, h \in {Hinted} : log = disk[active] /\ h = Hinted
      BY <1>1, <1>2
    <3>3. /\ Hinted >= 0 /\ Whole(SubSeq(log, 1, h)) /\ hint[active] = RowsFrom(SubSeq(log, 1, h), 0)
          /\ \A j \in wr.i..Len(wr.recs) :
                /\ wr.locs[j].pos = h + (j - wr.i + 1)
                /\ log[wr.locs[j].pos] = Record(wr.recs[j], wr.locs[j].ord)
      BY <3>1, <3>2 DEF Hints
    <3>4. h \in Nat /\ Len(log) \in Nat /\ h < Len(log)
          /\ Len(log) = h + (Len(wr.recs) - wr.i + 1)
      <4>1. h = Len(log) - (Len(wr.recs) - wr.i + 1)
        BY <3>2 DEF Hinted
      <4>2. Len(log) \in Nat
        BY DEF Log
      <4>3. PICK r \in Nat : r = Len(wr.recs) - wr.i /\ h = Len(log) - (r + 1)
        BY <1>1, <4>1
      <4> QED BY <3>2, <3>3, <4>2, <4>3
    <3>5. Loc.pos = h + 1 /\ log[h + 1] = Record(Req, Loc.ord) /\ Loc \in Place /\ Req \in Asking
      <4>1. wr.i \in wr.i..Len(wr.recs) /\ h + (wr.i - wr.i + 1) = h + 1
        BY <1>1, <3>4
      <4> QED BY <1>0, <3>3, <4>1, CallFacts DEF Loc, Req
    <3>6. HintRow = Row(log, h + 1)
      <4>1. Record(Req, Loc.ord).kind = "put" /\ Record(Req, Loc.ord).key = Req.key
            /\ Record(Req, Loc.ord).ord = Loc.ord /\ Record(Req, Loc.ord).ts = Req.ts
        BY <1>0, <3>5 DEF Record
      <4> QED BY <3>5, <4>1 DEF HintRow, Row
    <3>7. ~IsHead(log[h + 1])
      BY <3>5, Records DEF Place
    <3>8. /\ Whole(SubSeq(log, 1, h + 1))
          /\ RowsFrom(SubSeq(log, 1, h + 1), 0)
                = Append(RowsFrom(SubSeq(log, 1, h), 0), Row(log, h + 1))
      BY <3>3, <3>4, <3>7, OneMore
    <3>9. hint'[active] = RowsFrom(SubSeq(log, 1, h + 1), 0)
      <4>1. hint' = [hint EXCEPT ![active] = Append(hint[active], HintRow)]
        BY <1>0, <1>8, <2>5 DEF HintOfGroup
      <4> QED BY <1>1, <1>2, <3>3, <3>6, <3>8, <4>1
    <3>10. CASE wr.i = Len(wr.recs)
      <4>1. ~Unhinted'
        BY <1>1, <1>6, <2>3, <2>5, <3>10 DEF Unhinted
      <4>2. Len(log) = h + 1
        BY <1>1, <3>4, <3>10
      <4>3. SubSeq(log, 1, h + 1) = log
        BY <4>2, WholeSubSeq
      <4> QED BY <1>0, <1>1, <1>4, <1>5, <3>2, <3>9, <4>1, <4>3 DEF Hints
    <3>11. CASE wr.i # Len(wr.recs)
      <4>1. wr' = NextRecord /\ wr'.i = wr.i + 1 /\ wr'.recs = wr.recs /\ wr'.locs = wr.locs
            /\ wr'.kind = "group" /\ wr'.pc = "apply" /\ wr'.try = 0
        BY <1>1, <1>6, <1>8, <2>1, <2>2, <2>3, <2>5, <3>11
      <4>2. Unhinted' /\ disk'[active'] = log
        BY <1>0, <3>2, <4>1 DEF Unhinted
      <4>3. Hinted' = h + 1
        <5>1. Hinted' = Len(log) - (Len(wr.recs) - (wr.i + 1) + 1)
          BY <4>1, <4>2 DEF Hinted
        <5>2. PICK n \in Nat, i \in Nat : n = Len(wr.recs) /\ i = wr.i
          BY <1>1
        <5>3. PICK l \in Nat : l = Len(log) /\ l = h + (n - i + 1)
          BY <3>4, <5>2
        <5>4. PICK o \in Nat : o = h
          BY <3>4
        <5>5. l = o + (n - i + 1)
          BY <5>3, <5>4
        <5>6. l - (n - (i + 1) + 1) = o + 1
          BY <5>5
        <5> QED BY <5>1, <5>2, <5>3, <5>4, <5>6
      <4>4. \A j \in wr'.i..Len(wr'.recs) :
                /\ wr'.locs[j].pos = (h + 1) + (j - wr'.i + 1)
                /\ log[wr'.locs[j].pos] = Record(wr'.recs[j], wr'.locs[j].ord)
        <5>1. ASSUME NEW j \in (wr.i + 1)..Len(wr.recs)
              PROVE  /\ wr.locs[j].pos = (h + 1) + (j - (wr.i + 1) + 1)
                     /\ log[wr.locs[j].pos] = Record(wr.recs[j], wr.locs[j].ord)
          <6>1. PICK n \in Nat, i \in Nat : n = Len(wr.recs) /\ i = wr.i
            BY <1>1
          <6>2. j \in (i + 1)..n
            BY <6>1
          <6>3. j \in i..n /\ h + (j - i + 1) = (h + 1) + (j - (i + 1) + 1)
            BY <3>4, <6>2
          <6> QED BY <3>3, <6>1, <6>3
        <5> QED BY <4>1, <5>1
      <4>5. h + 1 >= 0
        BY <3>4
      <4> QED BY <1>0, <1>4, <1>5, <3>8, <3>9, <4>2, <4>3, <4>4, <4>5 DEF Hints
    <3> QED BY <3>10, <3>11
  <2> QED BY <2>4, <2>5
<1> QED BY <1>7, <1>8

\* The end of a whole log is not cut off.
LEMMA WholeTail ==
    ASSUME Types, mode = "recovering", NEW f \in Files, Whole(disk[f])
    PROVE  TornTailCut(f) = disk[f]
<1>1. disk[f] \in Log /\ Len(disk[f]) \in Nat /\ FoldStart(f) \in Nat
  BY TailCutType DEF Types, DiskTypes, Log
<1>2. PICK l \in Nat, s \in Nat : l = Len(disk[f]) /\ s = FoldStart(f)
  BY <1>1
<1>3. LastValidEnd(disk[f], s) = Larger(s, l)
  BY <1>1, <1>2, EndOfFold DEF Log
<1>4. Larger(s, l) > l \/ Larger(s, l) = l
  BY <1>2 DEF Larger
<1>5. CASE Larger(s, l) > l
  BY <1>2, <1>3, <1>5 DEF TornTailCut
<1>6. CASE Larger(s, l) = l
  <2>1. SubSeq(disk[f], 1, l) = disk[f]
    BY <1>1, <1>2, WholeSubSeq
  <2> QED BY <1>2, <1>3, <1>6, <2>1 DEF TornTailCut
<1> QED BY <1>4, <1>5, <1>6

\* Steps that leave the records and hints of the files in use
LEMMA SameHints ==
    ASSUME Hints, ~Unhinted', active' # 0 => active' = active,
           active' # 0 => ~Unhinted,
           sealed' \subseteq sealed, Out' \subseteq Out,
           \A f \in (sealed \cup Out)' : disk'[f] = disk[f] /\ hint'[f] = hint[f],
           active' # 0 => disk'[active] = disk[active] /\ hint'[active] = hint[active]
    PROVE  Hints'
<1>1. \A f \in (sealed \cup Out)' : Whole(disk'[f]) /\ hint'[f] = RowsFrom(disk'[f], 0)
  BY DEF Hints
<1>2. active' # 0 => Whole(disk'[active']) /\ hint'[active'] = RowsFrom(disk'[active'], 0)
  BY DEF Hints
<1> QED BY <1>1, <1>2 DEF Hints

\* Steps that change neither files nor the call
LEMMA StillHints ==
    ASSUME Hints, UNCHANGED <<disk, hint, active, wr>>, sealed' = sealed, Out' \subseteq Out
    PROVE  Hints'
<1>1. Unhinted' = Unhinted /\ Hinted' = Hinted
  BY DEF Unhinted, Hinted
<1>2. \A f \in (sealed \cup Out)' : Whole(disk'[f]) /\ hint'[f] = RowsFrom(disk'[f], 0)
  BY DEF Hints
<1> QED BY <1>1, <1>2 DEF Hints

LEMMA FlushHints ==
    ASSUME Types, Places, Hints, MergeFlush
    PROVE  Hints'
<1>1. PICK more \in Log, n \in Nat :
        /\ mg.out \in Files /\ Copies
        /\ disk' = [disk EXCEPT ![mg.out] = more]
        /\ Extends(more, disk[mg.out], 0, n)
        /\ hint' = [hint EXCEPT ![mg.out] = hint[mg.out] \o
                       [j \in 1..n |-> Row(more, Len(disk[mg.out]) + j)]]
        /\ mg' = [mg EXCEPT !.pc = "move", !.pos = Len(disk[mg.out]) + 1]
        /\ Len(disk[mg.out]) \in Nat
  BY FlushShape
<1>2. UNCHANGED <<sealed, active, wr>>
  BY DEF MergeFlush
<1>3. Out = {mg.out} /\ Out' = {mg.out}
  <2>1. mg \in Copying
    BY <1>1, JobFacts
  <2>2. mg'.out = mg.out /\ mg'.pc = "move"
    BY <1>1, <2>1 DEF Copying
  <2> QED BY <1>1, <2>2 DEF Out, Copies
<1>4. /\ disk \in [Files -> Log] /\ hint \in [Files -> Seq(Row0)] /\ 0 \notin Files
      /\ mg.out \notin sealed \cup {active} /\ sealed \in SUBSET Files
      /\ active # 0 => active \in Files
  BY <1>1, Numbers DEF Types, DiskTypes, IndexTypes, Files, Places
<1>5. \A f \in Files \ {mg.out} : disk'[f] = disk[f] /\ hint'[f] = hint[f]
  BY <1>1, <1>4
<1>6. Whole(disk[mg.out]) /\ hint[mg.out] = RowsFrom(disk[mg.out], 0)
  BY <1>3 DEF Hints
<1>7. /\ Whole(more)
      /\ RowsFrom(more, 0)
           = RowsFrom(disk[mg.out], 0) \o [j \in 1..n |-> Row(more, Len(disk[mg.out]) + 0 + j)]
  <2>1. 0 \in 0..1 /\ disk[mg.out] \in Log
    BY <1>1, <1>4
  <2> QED BY <1>1, <1>6, <2>1, Grown
<1>8. hint'[mg.out] = RowsFrom(more, 0) /\ disk'[mg.out] = more
  <2>1. \A j \in 1..n : Len(disk[mg.out]) + 0 + j = Len(disk[mg.out]) + j
    BY <1>1
  <2>2. [j \in 1..n |-> Row(more, Len(disk[mg.out]) + 0 + j)]
          = [j \in 1..n |-> Row(more, Len(disk[mg.out]) + j)]
    BY <2>1
  <2> QED BY <1>1, <1>4, <1>6, <1>7, <2>2
<1>9. \A f \in (sealed \cup Out)' : Whole(disk'[f]) /\ hint'[f] = RowsFrom(disk'[f], 0)
  <2>1. \A f \in sealed : f \in Files \ {mg.out}
    BY <1>4
  <2> QED BY <1>2, <1>3, <1>5, <1>7, <1>8, <2>1 DEF Hints
<1>10. Unhinted' = Unhinted
  BY <1>2 DEF Unhinted
<1>11. CASE active = 0
  <2>1. ~Unhinted
    BY <1>4, <1>11, CallFacts DEF Unhinted
  <2> QED BY <1>2, <1>9, <1>10, <1>11, <2>1 DEF Hints
<1>12. CASE active # 0
  <2>1. disk'[active] = disk[active] /\ hint'[active] = hint[active]
    BY <1>4, <1>5, <1>12
  <2>2. Hinted' = Hinted
    BY <1>2, <2>1 DEF Hinted
  <2> QED BY <1>2, <1>9, <1>10, <1>12, <2>1, <2>2 DEF Hints
<1> QED BY <1>11, <1>12

LEMMA HintsKept ==
    ASSUME Types, Places, Calm, Calm', Tidy, Hints, [Next]_vars
    PROVE  Hints'
<1>0. /\ disk \in [Files -> Log] /\ hint \in [Files -> Seq(Row0)] /\ 0 \notin Files
      /\ sealed \in SUBSET Files
      /\ active # 0 => active \in Files
      /\ Unhinted => active \in Files /\ Writing /\ wr.kind = "group"
      /\ Gone \in SUBSET Files
  BY Numbers, CallFacts, DurableTypes DEF Types, DiskTypes, IndexTypes, Files, Unhinted, Writing
<1>1. CASE \/ Sync \/ CkptCapture \/ CkptSave \/ Checkpoint \/ Merge \/ MergeNothing
           \/ MergeFold \/ MergeMove \/ MergeNextFile \/ MergeCapture \/ MergeSave
           \/ UNCHANGED vars
  <2>1. UNCHANGED <<disk, hint, active, wr, sealed>>
    BY <1>1 DEF Sync, CkptCapture, CkptSave, Checkpoint, Merge, MergeNothing, MergeFold,
           MergeMove, MergeNextFile, MergeCapture, MergeSave, vars, onDisk
  <2>2. Out' \subseteq Out
    <3>1. CASE MergeFold \/ MergeMove \/ MergeNextFile
      <4>1. Copies /\ mg \in Copying
        BY <3>1, JobFacts DEF MergeFold, MergeMove, MergeNextFile, Copies
      <4>2. mg'.out = mg.out
        BY <3>1, <4>1 DEF MergeFold, MergeMove, MergeNextFile, Copying
      <4> QED BY <4>1, <4>2 DEF Out
    <3>2. CASE Merge \/ MergeNothing \/ MergeCapture \/ MergeSave
      BY <3>2 DEF Merge, MergeNothing, MergeCapture, MergeSave, Out, Copies, Idle
    <3>3. CASE Sync \/ CkptCapture \/ CkptSave \/ Checkpoint \/ UNCHANGED vars
      <4>1. mg' = mg
        BY <3>3 DEF Sync, CkptCapture, CkptSave, Checkpoint, vars
      <4> QED BY <4>1 DEF Out, Copies
    <3> QED BY <1>1, <3>1, <3>2, <3>3
  <2> QED BY <2>1, <2>2, StillHints
<1>2. CASE Write
  BY <1>2, WriteHints
<1>3. CASE Rewrite
  BY <1>3, RewriteHints
<1>4. CASE ApplyPut \/ ApplyRefused
  BY <1>4, ApplyHints
<1>5. CASE SyncBatch \/ ApplyRemove \/ Return
  <2>1. UNCHANGED <<disk, hint, active, sealed, mg>>
    BY <1>5 DEF SyncBatch, ApplyRemove, Return, KeepFiles, KeepRest
  <2>2. wr.pc # "idle" /\ wr.i \in DOMAIN wr.recs /\ active \in Files
    <3>1. wr.pc # "idle"
      BY <1>5 DEF SyncBatch, ApplyRemove, Return
    <3> QED BY <3>1, CallFacts
  <2>3. wr.kind = "group" => ~SyncBatch /\ ~ApplyRemove
    BY <2>2 DEF Calm, Writing, SyncBatch, ApplyRemove, Req
  <2>4. ~Unhinted /\ ~Unhinted'
    <3>1. CASE SyncBatch \/ ApplyRemove
      <4>1. wr.kind # "group"
        BY <2>3, <3>1
      <4>2. Writing' => wr'.kind = wr.kind
        BY <3>1, CallGoesOn
      <4> QED BY <4>1, <4>2 DEF Unhinted, Writing
    <3>2. CASE Return
      BY <3>2 DEF Return, Unhinted, Idle
    <3> QED BY <1>5, <3>1, <3>2
  <2>5. Out' = Out
    BY <2>1 DEF Out, Copies
  <2> QED BY <2>1, <2>4, <2>5, SameHints
<1>6. CASE CkptDrain \/ MergeDrain
  <2>1. DrainOne /\ UNCHANGED <<active, wr>> /\ ~Copies' /\ retired # <<>>
    <3>1. DrainOne /\ UNCHANGED <<active, wr, mg>> /\ retired # <<>>
      BY <1>6 DEF CkptDrain, MergeDrain, DrainOne
    <3>2. ~Copies
      BY <3>1 DEF Places
    <3> QED BY <3>1, <3>2 DEF Copies
  <2>2. PICK g \in Gone :
          /\ disk' = [disk EXCEPT ![g] = <<>>] /\ hint' = [hint EXCEPT ![g] = <<>>]
          /\ sealed' = sealed \ {g}
    BY <2>1, UnlinkTypes DEF DrainOne, Unlink
  <2>3. g # active /\ g \in Files
    BY <1>0 DEF Places
  <2>4. \A f \in Files \ {g} : disk'[f] = disk[f] /\ hint'[f] = hint[f]
    BY <1>0, <2>2
  <2>5. \A f \in (sealed \cup Out)' : Whole(disk'[f]) /\ hint'[f] = RowsFrom(disk'[f], 0)
    <3>1. Out' = {}
      BY <2>1 DEF Out
    <3>2. \A f \in sealed' : f \in Files \ {g} /\ f \in sealed
      BY <1>0, <2>2
    <3> QED BY <2>4, <3>1, <3>2 DEF Hints
  <2>6. active # 0 => disk'[active] = disk[active] /\ hint'[active] = hint[active]
    BY <1>0, <2>3, <2>4
  <2>7. Unhinted' = Unhinted /\ (Unhinted => Hinted' = Hinted)
    BY <1>0, <2>1, <2>6 DEF Unhinted, Hinted
  <2>8. Unhinted => active # 0
    BY <1>0
  <2> QED BY <2>1, <2>5, <2>6, <2>7, <2>8 DEF Hints
<1>7. CASE MergeOpen
  <2>1. UNCHANGED <<disk, hint, active, wr, sealed>> /\ mg'.out = NextFile /\ biggest < MaxFile
        /\ mg.pc = "drain"
    BY <1>7 DEF MergeOpen
  <2>2. Out' \subseteq {NextFile}
    BY <2>1 DEF Out
  <2>3. NextFile \in Files \ present
    <3>1. mode = "open" /\ biggest \in Nat
      BY <2>1, Numbers DEF Places, Idle, Types, IndexTypes
    <3>2. NextFile \in Files /\ NextFile > biggest
      BY <2>1, <3>1, Numbers DEF NextFile, Files
    <3> QED BY <3>1, <3>2, Numbers DEF Places, Types, DiskTypes
  <2>4. disk[NextFile] = <<>> /\ hint[NextFile] = <<>>
    BY <2>3 DEF Places
  <2>5. \A f \in (sealed \cup Out)' : Whole(disk'[f]) /\ hint'[f] = RowsFrom(disk'[f], 0)
    BY <2>1, <2>2, <2>4, EmptyLog DEF Hints
  <2>6. Unhinted' = Unhinted /\ Hinted' = Hinted
    BY <2>1 DEF Unhinted, Hinted
  <2> QED BY <2>1, <2>5, <2>6 DEF Hints
<1>8. CASE MergeFlush
  BY <1>8, FlushHints
<1>9. CASE MergeRetire
  <2>1. UNCHANGED <<disk, hint, active, wr>> /\ Copies /\ sealed' = sealed \cup {mg.out}
        /\ mg'.pc = "capture"
    BY <1>9 DEF MergeRetire, Copies
  <2>2. Out' = {} /\ Out = {mg.out}
    BY <2>1 DEF Out, Copies
  <2>3. \A f \in (sealed \cup Out)' : Whole(disk'[f]) /\ hint'[f] = RowsFrom(disk'[f], 0)
    BY <2>1, <2>2 DEF Hints
  <2>4. Unhinted' = Unhinted /\ Hinted' = Hinted
    BY <2>1 DEF Unhinted, Hinted
  <2> QED BY <2>1, <2>3, <2>4 DEF Hints
<1>10. CASE Close
  <2>1. /\ sealed' = SealedAfterRoll \ Gone
        /\ disk' = [f \in Files |-> IF f \in Gone THEN <<>> ELSE disk[f]]
        /\ hint' = [f \in Files |-> IF f \in Gone THEN <<>> ELSE hint[f]]
        /\ Quiet /\ Forget
    BY <1>10 DEF Close
  <2>2. active' = 0 /\ Out' = {} /\ ~Unhinted' /\ ~Unhinted
    BY <2>1 DEF Forget, Out, Copies, Unhinted, Idle, Quiet
  <2>3. \A f \in SealedAfterRoll : /\ Whole(disk[f]) /\ hint[f] = RowsFrom(disk[f], 0)
                                   /\ f \in Files
    BY <1>0, <2>2 DEF Hints, SealedAfterRoll
  <2>4. \A f \in (sealed \cup Out)' : Whole(disk'[f]) /\ hint'[f] = RowsFrom(disk'[f], 0)
    BY <2>1, <2>2, <2>3
  <2> QED BY <2>2, <2>4 DEF Hints
<1>11. ASSUME NEW kind \in CrashKinds, Crash(kind) PROVE Hints'
  <2>0. \A f \in Files : durable[f] <= Len(disk[f])
    BY DEF Places
  <2>1. /\ sealed' \subseteq sealed /\ hint' = hint
        /\ \A f \in Files : durable[f] = Len(disk[f]) => disk'[f] = disk[f]
    BY <1>11, <2>0, CrashShape
  <2>2. active' = 0 /\ Out' = {} /\ ~Unhinted'
    BY <1>11 DEF Crash, Forget, Out, Copies, Unhinted, Idle
  <2>3. \A f \in sealed' : disk'[f] = disk[f] /\ f \in sealed
    BY <1>0, <2>1 DEF Places
  <2> QED BY <2>1, <2>2, <2>3, SameHints
<1>12. CASE Open \/ Recovered \/ \E w \in Workers : TakeFile(w) \/ RecoverRow(w)
  <2>1. mode # "open" /\ UNCHANGED <<hint, sealed, active, wr, mg>>
    BY <1>12 DEF Open, Recovered, TakeFile, RecoverRow, onDisk
  <2>2. active = 0 /\ Out = {} /\ Out' = {} /\ ~Unhinted /\ ~Unhinted'
    BY <2>1 DEF Places, Out, Copies, Unhinted, Idle
  <2>3. \A f \in sealed : disk'[f] = disk[f]
    <3>1. CASE Open \/ Recovered \/ \E w \in Workers : RecoverRow(w)
      BY <3>1 DEF Open, Recovered, RecoverRow, onDisk
    <3>2. ASSUME NEW w \in Workers, TakeFile(w) PROVE \A f \in sealed : disk'[f] = disk[f]
      <4>1. PICK g \in Files : mode = "recovering" /\ disk' = [disk EXCEPT ![g] = TornTailCut(g)]
        BY <3>2, TakenFile
      <4>2. \A f \in sealed : Whole(disk[f])
        BY DEF Hints
      <4>3. g \in sealed => TornTailCut(g) = disk[g]
        BY <4>1, <4>2, WholeTail
      <4> QED BY <1>0, <4>1, <4>3
    <3> QED BY <1>12, <3>1, <3>2
  <2> QED BY <2>1, <2>2, <2>3, SameHints
<1>13. CASE Ended \/ OutOfFiles
  BY <1>1, <1>13 DEF Ended, OutOfFiles
<1> QED BY <1>1, <1>2, <1>3, <1>4, <1>5, <1>6, <1>7, <1>8, <1>9, <1>10, <1>11, <1>12, <1>13
        DEF Next, WriterStep, CkptStep, MergeStep, RecoveryStep

(***************************************************************************)
(* The theorems                                                            *)
(***************************************************************************)
LEMMA CalmInit == Init => Calm
BY DEF Init, Calm, Writing, Idle

LEMMA DurablesInit == Init => Durables
BY EmptyLength DEF Init, Durables

LEMMA HintsInit == Init => Hints
BY DEF Init, Hints, Unhinted, Out, Copies, Idle

\* Invariance: whatever the calls, merges, checkpoints, crashes and recoveries
\* do and wherever they meet, every piece of the store's state has its type
\* and the files are where they should be: an id that is not given out has no
\* file, the active file and a merge's output are not sealed, sealed files and
\* merged copies are fsynced, and a merge, its inputs, the retired files and
\* the active file keep out of each other's way.
THEOREM Invariance == Spec => [](Types /\ Places)
<1>1. Init => Types /\ Places
  BY TypesInit, PlacesInit
<1>2. Types /\ Places /\ [Next]_vars => (Types /\ Places)'
  BY TypesKept, PlacesKept
<1> QED BY <1>1, <1>2, PTL DEF Spec

\* SealedAlwaysDurable: where only the machine fails, every file but the active
\* one and a merge's output is fsynced in full while the store is open, merges
\* and checkpoints beside the writer included (roll_active, apply_pending,
\* the torn tail cut by recovery): the watermarks of a snapshot may trust them.
THEOREM SealedAlwaysDurable ==
    ASSUME PowerOnly
    PROVE  Spec => []SealedIsDurable
<1> DEFINE IInv == Types /\ Places /\ Durables
<1>1. Init => IInv
  BY TypesInit, PlacesInit, DurablesInit
<1>2. IInv /\ [Next]_vars => IInv'
  BY TypesKept, PlacesKept, DurablesKept
<1>3. IInv => SealedIsDurable
  <2>1. ASSUME IInv PROVE present \subseteq Files
    BY <2>1 DEF Types, DiskTypes
  <2> QED BY <2>1 DEF Durables, SealedIsDurable
<1> QED BY <1>1, <1>2, <1>3, PTL DEF Spec

\* HintsAlwaysMatch: the hint of every sealed file tells recovery exactly what
\* a fold of its data would, crashes of either kind included (flush_sub,
\* put_batch, write_and_keydir, apply_pending, drain_retired_files).
\* Beside merges it takes groups of one put: README section 5 says why.
THEOREM HintsAlwaysMatch ==
    ASSUME Tidy
    PROVE  Spec => []HintsMatchData
<1> DEFINE IInv == Types /\ Places /\ Calm /\ Hints
<1>1. Init => IInv
  BY TypesInit, PlacesInit, CalmInit, HintsInit
<1>2. IInv /\ [Next]_vars => IInv'
  <2>1. Types /\ Places /\ Calm /\ [Next]_vars => Types' /\ Places' /\ Calm'
    BY TypesKept, PlacesKept, CalmKept
  <2> QED BY <2>1, HintsKept
<1>3. IInv => HintsMatchData
  BY DEF Hints, HintsMatchData
<1> QED BY <1>1, <1>2, <1>3, PTL DEF Spec

(***************************************************************************)
(* Ords: the log never holds an ord that is still to be given out          *)
(***************************************************************************)
\* A step that adds no record
Shrinks ==
    \A f \in Files : /\ Len(disk'[f]) \in 0..Len(disk[f])
                     /\ \A i \in 1..Len(disk'[f]) : disk'[f][i] = disk[f][i]

\* A step that appends records to one file that is being written
Grows(file, more) ==
    LET n == Len(disk[file])
    IN /\ mode = "open" /\ file \in Files /\ more \in Log /\ Whole(disk[file])
       /\ disk' = [disk EXCEPT ![file] = more]
       /\ Len(more) >= n /\ \A i \in 1..n : more[i] = disk[file][i]
       /\ \A i \in (n + 1)..Len(more) :
             /\ more[i].ord < nextOrd'
             /\ IsHead(more[i]) => /\ more[i].span >= 1 /\ i < Len(more)
                                   /\ ~IsHead(more[i + 1]) /\ more[i].ord < more[i + 1].ord
       /\ file \in {active, NextFile} \cup Out
       /\ UNCHANGED <<snap, mode, ck, rc>>

\* The counters only go up while the store is in use.
LEMMA CountersGrow ==
    ASSUME Types, [Next]_vars, mode # "closed", mode' # "closed"
    PROVE  nextOrd' >= nextOrd /\ biggest' >= biggest
<1>0. nextOrd \in Nat /\ biggest \in Nat
  BY Numbers DEF Types, IndexTypes
<1>1. CASE Write
  <2>1. PICK kind, file, head, n : Starts(kind, file, head, n)
    BY <1>1, WriteShape
  <2>2. nextOrd' = nextOrd + head + n /\ head \in 0..1 /\ n \in Nat /\ (Roll \/ Stay)
    BY <2>1 DEF Starts
  <2> QED BY <1>0, <2>2 DEF Roll, Stay, NextFile
<1>2. CASE Rewrite
  <2>1. nextOrd' = nextOrd + 1 \/ nextOrd' = nextOrd
    BY <1>2, RewriteShape
  <2>2. Roll \/ Stay
    BY <1>2 DEF Rewrite
  <2> QED BY <1>0, <2>1, <2>2 DEF Roll, Stay, NextFile
<1>3. CASE ApplyPut
  <2>1. nextOrd' = nextOrd /\ biggest' = Larger(biggest, FileOfApply)
    BY <1>3 DEF ApplyPut
  <2>2. FileOfApply \in Nat
    <3>1. wr.pc # "idle"
      BY <1>3 DEF ApplyPut
    <3> QED BY <3>1, CallFacts, Numbers DEF FileOfApply
  <2> QED BY <1>0, <2>1, <2>2 DEF Larger
<1>4. CASE MergeOpen
  BY <1>0, <1>4 DEF MergeOpen, NextFile
<1>5. ASSUME NEW w \in Workers, TakeFile(w) PROVE nextOrd' >= nextOrd /\ biggest' >= biggest
  <2>1. PICK f \in Files : biggest' = Larger(biggest, f)
    BY <1>5, TakenFile
  <2>2. nextOrd' = nextOrd /\ f \in Nat
    BY <1>5, Numbers DEF TakeFile
  <2> QED BY <1>0, <2>1, <2>2 DEF Larger
<1>6. ASSUME NEW w \in Workers, RecoverRow(w) PROVE nextOrd' >= nextOrd /\ biggest' >= biggest
  <2>1. PICK f \in Files, r \in Row0 : nextOrd' = OrdAfter(r)
    BY <1>6, RecoveredRow
  <2>2. r.ord \in Nat /\ biggest' = biggest
    BY <1>6 DEF RecoverRow, Row0
  <2> QED BY <1>0, <2>1, <2>2 DEF OrdAfter, Larger
<1>7. CASE \/ SyncBatch \/ ApplyRemove \/ ApplyRefused \/ Return \/ Sync \/ Checkpoint \/ Merge
           \/ CkptStep \/ MergeDrain \/ MergeNothing \/ MergeFold \/ MergeFlush \/ MergeMove
           \/ MergeNextFile \/ MergeRetire \/ MergeCapture \/ MergeSave \/ Recovered
           \/ UNCHANGED vars
  <2>1. nextOrd' = nextOrd /\ biggest' = biggest
    BY <1>7 DEF SyncBatch, ApplyRemove, ApplyRefused, Return, Sync, Checkpoint, Merge,
           CkptStep, CkptDrain, CkptCapture, CkptSave, MergeDrain, MergeNothing, MergeFold,
           MergeFlush, MergeMove, MergeNextFile, MergeRetire, MergeCapture, MergeSave, Recovered,
           index, vars
  <2> QED BY <1>0, <2>1
<1>8. CASE Open \/ Close \/ \E kind \in CrashKinds : Crash(kind)
  BY <1>8 DEF Open, Close, Crash, Forget
<1>9. CASE Ended \/ OutOfFiles
  BY <1>7, <1>9 DEF Ended, OutOfFiles
<1> QED BY <1>1, <1>2, <1>3, <1>4, <1>5, <1>6, <1>7, <1>8, <1>9
        DEF Next, WriterStep, MergeStep, RecoveryStep

LEMMA NoFileYet ==
    ASSUME Types, Places, mode = "open"
    PROVE  NextFile \notin present /\ NextFile > biggest /\ biggest \in Nat
<1>1. biggest \in Nat
  BY Numbers DEF Types, IndexTypes
<1>2. NextFile > biggest
  BY <1>1 DEF NextFile
<1>3. \A f \in present : f <= biggest
  BY DEF Places
<1>4. ~(NextFile <= biggest)
  BY <1>1, <1>2 DEF NextFile
<1> QED BY <1>1, <1>2, <1>3, <1>4

\* The files that are written end with a whole batch.
LEMMA WritableIsWhole ==
    ASSUME Types, Places, Hints, mode = "open",
           NEW file \in Files, file \in {active, NextFile} \cup Out
    PROVE  Whole(disk[file])
<1>1. CASE file = NextFile
  BY <1>1, NoFileYet, EmptyLog DEF Places
<1>2. CASE file = active
  BY <1>2, Numbers DEF Hints
<1>3. CASE file \in Out
  BY <1>3 DEF Hints
<1> QED BY <1>1, <1>2, <1>3

LEMMA WriteGrows ==
    ASSUME Types, Places, Hints, Write, nextOrd' \in Nat
    PROVE  \E file, more : Grows(file, more)
<1>1. PICK kind, file, head, n : Starts(kind, file, head, n)
  BY WriteShape
<1>2. /\ mode = "open" /\ file \in Files /\ head \in 0..1 /\ n \in Nat \ {0}
      /\ file \in {active, NextFile} \cup Out /\ nextOrd' = nextOrd + head + n
      /\ UNCHANGED <<snap, mode, ck, rc>> /\ wr' \in Call /\ Len(wr'.recs) = n
  BY <1>1 DEF Starts
<1>3. PICK more \in Log :
          /\ disk' = [disk EXCEPT ![file] = more]
          /\ Extends(more, disk[file], head, n)
          /\ head = 1 => more[Len(disk[file]) + 1] = BatchHeader(nextOrd, n)
          /\ \A j \in 1..n : more[Len(disk[file]) + head + j]
                                = Record(wr'.recs[j], nextOrd + head + j - 1)
  BY <1>1 DEF Starts
<1>4. Whole(disk[file])
  BY <1>2, WritableIsWhole
<1>5. disk[file] \in Log /\ nextOrd \in Nat
  BY <1>2 DEF Types, DiskTypes, IndexTypes
<1>5a. Len(disk[file]) \in Nat
  BY <1>5 DEF Log
<1>6. PICK log \in Log, o \in Nat, l \in Nat : log = disk[file] /\ o = nextOrd /\ l = Len(log)
  BY <1>5, <1>5a
<1>7. /\ Len(more) = l + head + n /\ \A i \in 1..l : more[i] = log[i]
      /\ head = 1 => more[l + 1] = BatchHeader(o, n)
      /\ \A j \in 1..n : more[l + head + j] = Record(wr'.recs[j], o + head + j - 1)
  <2>1. DOMAIN log = 1..l
    BY <1>6 DEF Log
  <2> QED BY <1>3, <1>6, <2>1 DEF Extends
<1>8. ASSUME NEW j \in 1..n
      PROVE  ~IsHead(more[l + head + j]) /\ more[l + head + j].ord = o + head + j - 1
  <2>1. wr'.recs[j] \in Asking
    BY <1>2 DEF Call
  <2>2. o + head + j - 1 \in Nat
    BY <1>2
  <2> QED BY <1>7, <2>1, <2>2, Records
<1>9. head = 1 => /\ more[l + 1].ord = o /\ more[l + 1].span = n
  BY <1>2, <1>7, Records
<1>10. ASSUME NEW i \in (l + 1)..(l + head + n)
       PROVE  /\ more[i].ord < o + head + n
              /\ IsHead(more[i]) => /\ more[i].span >= 1 /\ i < l + head + n
                                    /\ ~IsHead(more[i + 1]) /\ more[i].ord < more[i + 1].ord
  <2>1. CASE head = 1 /\ i = l + 1
    <3>1. 1 \in 1..n /\ l + head + 1 = i + 1
      BY <1>2, <2>1
    <3>2. ~IsHead(more[i + 1]) /\ more[i + 1].ord = o + 1
      <4>1. ~IsHead(more[l + head + 1]) /\ more[l + head + 1].ord = o + head + 1 - 1
        BY <1>8, <3>1
      <4> QED BY <2>1, <3>1, <4>1
    <3> QED BY <1>2, <1>9, <2>1, <3>2
  <2>2. CASE ~(head = 1 /\ i = l + 1)
    <3>1. PICK j \in 1..n : i = l + head + j
      <4>1. i - l - head \in 1..n /\ i = l + head + (i - l - head)
        BY <1>2, <2>2
      <4> QED BY <4>1
    <3>2. ~IsHead(more[i]) /\ more[i].ord = o + head + j - 1
      BY <1>8, <3>1
    <3> QED BY <1>2, <3>1, <3>2
  <2> QED BY <2>1, <2>2
<1>11. Len(more) >= l
  BY <1>2, <1>7
<1> QED BY <1>2, <1>3, <1>4, <1>6, <1>7, <1>10, <1>11 DEF Grows

LEMMA RewriteGrows ==
    ASSUME Types, Places, Hints, Rewrite, Writing => \A j \in DOMAIN wr.locs : wr.locs[j].ord < nextOrd
    PROVE  \E file, more : Grows(file, more)
<1>0. PICK file \in Files, more \in Log, o \in Nat :
          /\ \/ Roll /\ file = NextFile /\ wr.try = 1
             \/ Stay /\ file = active /\ wr.try # 1
          /\ disk' = [disk EXCEPT ![file] = more]
          /\ Extends(more, disk[file], 0, 1) /\ Len(disk[file]) \in Nat
          /\ more[Len(disk[file]) + 1] = Record(Req, o)
          /\ hint' = [hint EXCEPT ![file] = Append(hint[file], Row(more, Len(disk[file]) + 1))]
          /\ \/ nextOrd' = nextOrd + 1 /\ o = nextOrd
             \/ nextOrd' = nextOrd /\ o = Loc.ord
          /\ wr' = [wr EXCEPT !.pc = "apply", !.try = wr.try + 1,
                      !.locs[wr.i] = [file |-> file, pos |-> Len(disk[file]) + 1, ord |-> o]]
          /\ wr' \in Call /\ Len(wr'.recs) = Len(wr.recs) /\ Len(wr'.locs) = Len(wr.locs)
          /\ wr'.recs = wr.recs /\ wr'.i = wr.i /\ wr'.pc = "apply" /\ wr'.kind = wr.kind
          /\ wr'.try = wr.try + 1
          /\ \A j \in DOMAIN wr.locs : j # wr.i => wr'.locs[j] = wr.locs[j]
          /\ wr'.locs[wr.i] = [file |-> file, pos |-> Len(disk[file]) + 1, ord |-> o]
          /\ UNCHANGED <<snap, kd>>
  BY RewriteShape
<1>1. /\ file \in Files /\ more \in Log /\ o \in Nat
      /\ \/ Roll /\ file = NextFile /\ wr.try = 1
         \/ Stay /\ file = active /\ wr.try # 1
      /\ disk' = [disk EXCEPT ![file] = more]
      /\ Extends(more, disk[file], 0, 1) /\ Len(disk[file]) \in Nat
      /\ more[Len(disk[file]) + 1] = Record(Req, o)
      /\ \/ nextOrd' = nextOrd + 1 /\ o = nextOrd
         \/ nextOrd' = nextOrd /\ o = Loc.ord
  BY <1>0
<1>2. wr.pc # "idle" /\ UNCHANGED <<snap, mode, ck, rc>>
  BY DEF Rewrite, KeepRest
<1>3. mode = "open"
  BY <1>2 DEF Places, Idle
<1>4. Whole(disk[file]) /\ file \in {active, NextFile} \cup Out
  <2>1. file \in {active, NextFile} \cup Out
    BY <1>1
  <2> QED BY <1>3, <2>1, WritableIsWhole
<1>5. o < nextOrd'
  <2>1. nextOrd \in Nat
    BY DEF Types, IndexTypes
  <2>2. Loc.ord < nextOrd
    <3>1. wr.i \in DOMAIN wr.locs
      BY <1>2, CallFacts
    <3> QED BY <1>2, <3>1 DEF Writing, Loc
  <2> QED BY <1>1, <2>1, <2>2
<1>6. PICK log \in Log, l \in Nat : log = disk[file] /\ l = Len(log)
  BY <1>1 DEF Types, DiskTypes, Log
<1>7. /\ Len(more) = l + 1 /\ \A i \in 1..l : more[i] = log[i]
      /\ more[l + 1] = Record(Req, o)
  <2>1. DOMAIN log = 1..l
    BY <1>6 DEF Log
  <2> QED BY <1>1, <1>6, <2>1 DEF Extends
<1>8. ~IsHead(more[l + 1]) /\ more[l + 1].ord = o
  BY <1>2, <1>7, CallFacts, Records
<1>9. \A i \in (l + 1)..Len(more) : i = l + 1
  BY <1>7
<1>10. Len(more) >= l
  BY <1>7
<1> QED BY <1>1, <1>2, <1>3, <1>4, <1>5, <1>6, <1>7, <1>8, <1>9, <1>10 DEF Grows

LEMMA FlushGrows ==
    ASSUME Types, Places, Hints, MergeFlush,
           Copies => \A j \in DOMAIN mg.moves : mg.moves[j].rec.ord < nextOrd
    PROVE  \E file, more : Grows(file, more)
<1>1. PICK more \in Log, n \in Nat :
             /\ mg.out \in Files /\ Copies
             /\ n = Len(mg.moves)
             /\ disk' = [disk EXCEPT ![mg.out] = more]
             /\ Extends(more, disk[mg.out], 0, n)
             /\ \A j \in 1..n : more[Len(disk[mg.out]) + j] = mg.moves[j].rec
                                /\ mg.moves[j].rec \in Item
             /\ Len(disk[mg.out]) \in Nat
  BY FlushShape
<1>2. UNCHANGED <<snap, mode, ck, rc, nextOrd>>
  BY DEF MergeFlush, index
<1>3. mode = "open" /\ mg.out \in Out
  BY <1>1 DEF Places, Copies, Out, Idle
<1>4. Whole(disk[mg.out])
  BY <1>1, <1>3, WritableIsWhole
<1>5. DOMAIN mg.moves = 1..n
  <2>1. mg.moves \in Seq(Move)
    BY <1>1, JobFacts DEF Copying
  <2> QED BY <1>1, <2>1
<1>6. PICK log \in Log, l \in Nat : log = disk[mg.out] /\ l = Len(log)
  BY <1>1 DEF Types, DiskTypes, Log
<1>7. /\ Len(more) = l + n /\ \A i \in 1..l : more[i] = log[i]
      /\ \A j \in 1..n : more[l + j] = mg.moves[j].rec /\ mg.moves[j].rec \in Item
                         /\ mg.moves[j].rec.ord < nextOrd
  <2>1. DOMAIN log = 1..l
    BY <1>6 DEF Log
  <2>2. Len(more) = l + 0 + n /\ \A i \in DOMAIN log : more[i] = log[i]
    BY <1>1, <1>6 DEF Extends
  <2>3. \A j \in 1..n : mg.moves[j].rec.ord < nextOrd
    BY <1>1, <1>5
  <2>4. Len(disk[mg.out]) = l
    BY <1>6
  <2>5. \A j \in 1..n : more[l + j] = mg.moves[j].rec /\ mg.moves[j].rec \in Item
    BY <1>1, <2>4
  <2>6. Len(more) = l + n
    BY <1>6, <2>2
  <2> QED BY <2>1, <2>2, <2>3, <2>5, <2>6
<1>8. \A r \in Item : ~IsHead(r)
  BY DEF Item, IsHead
<1>9. ASSUME NEW i \in (l + 1)..Len(more) PROVE more[i].ord < nextOrd' /\ ~IsHead(more[i])
  <2>1. i - l \in 1..n /\ l + (i - l) = i
    BY <1>7
  <2>2. PICK j \in 1..n : i = l + j
    BY <2>1
  <2> QED BY <1>2, <1>7, <1>8, <2>2
<1>10. Len(more) >= l
  BY <1>7
<1> QED BY <1>1, <1>2, <1>3, <1>4, <1>6, <1>7, <1>9, <1>10 DEF Grows

\* Every other step adds none.
LEMMA RecordSteps ==
    ASSUME Types, Places, [Next]_vars
    PROVE  Shrinks \/ Write \/ Rewrite \/ MergeFlush
<1>0. \A f \in Files : disk[f] \in Log /\ Len(disk[f]) \in Nat
  BY DEF Types, DiskTypes, Log
<1>1. CASE disk' = disk
  BY <1>0, <1>1 DEF Shrinks
<1>2. CASE \/ UNCHANGED onDisk \/ SyncBatch \/ Return \/ Sync \/ CkptCapture \/ MergeCapture
           \/ ApplyPut \/ ApplyRefused \/ CkptSave \/ MergeSave \/ MergeOpen \/ MergeRetire
  <2>1. disk' = disk
    BY <1>2 DEF onDisk, SyncBatch, Return, Sync, CkptCapture, MergeCapture, ApplyPut,
           ApplyRefused, KeepFiles, CkptSave, MergeSave, MergeOpen, MergeRetire
  <2> QED BY <1>1, <2>1
<1>3. CASE (CkptDrain \/ MergeDrain) \/ Close
  <2>1. disk' \in [Files -> Log] /\ \A f \in Files : disk'[f] = disk[f] \/ disk'[f] = <<>>
    <3>1. CASE Close
      BY <1>0, <3>1, EmptyLog DEF Close
    <3>2. CASE CkptDrain \/ MergeDrain
      <4>1. DrainOne /\ disk \in [Files -> Log]
        BY <3>2 DEF CkptDrain, MergeDrain, Types, DiskTypes
      <4> QED BY <4>1, UnlinkTypes DEF DrainOne, Unlink
    <3> QED BY <1>3, <3>1, <3>2
  <2> QED BY <1>0, <2>1, EmptyLength DEF Shrinks
<1>4. ASSUME NEW kind \in CrashKinds, Crash(kind) PROVE Shrinks
  <2>1. \A f \in Files : durable[f] <= Len(disk[f]) /\ durable[f] \in Nat
    BY DEF Places, Types, DiskTypes
  <2>2. \A f \in Files : /\ Len(disk'[f]) \in durable[f]..Len(disk[f])
                         /\ \A i \in 1..Len(disk'[f]) : disk'[f][i] = disk[f][i]
    BY <1>4, <2>1, CrashShape
  <2>3. \A f \in Files : Len(disk'[f]) \in 0..Len(disk[f])
    BY <1>0, <2>1, <2>2
  <2> QED BY <2>2, <2>3 DEF Shrinks
<1>5. ASSUME NEW w \in Workers, TakeFile(w) PROVE Shrinks
  <2>1. PICK g \in Files : mode = "recovering" /\ disk' = [disk EXCEPT ![g] = TornTailCut(g)]
    BY <1>5, TakenFile
  <2>2. /\ Len(TornTailCut(g)) \in 0..Len(disk[g])
        /\ \A i \in 1..Len(TornTailCut(g)) : TornTailCut(g)[i] = disk[g][i]
    BY <2>1, TailCutType
  <2>3. disk \in [Files -> Log]
    BY DEF Types, DiskTypes
  <2> QED BY <1>0, <2>1, <2>2, <2>3 DEF Shrinks
<1> QED BY <1>2, <1>3, <1>4, <1>5, DiskSteps

\* Records keep their order in a file: a header comes before its batch.
LEMMA BatchesKept ==
    ASSUME Types, Types', Batches, Shrinks \/ \E file, more : Grows(file, more)
    PROVE  Batches'
<1>0. \A f \in Files : disk[f] \in Log /\ Len(disk[f]) \in Nat /\ DOMAIN disk[f] = 1..Len(disk[f])
  BY DEF Types, DiskTypes, Log
<1>1. CASE Shrinks
  <2>0. disk' \in [Files -> Log]
    BY DEF Types, DiskTypes
  <2> SUFFICES ASSUME NEW f \in Files, NEW i \in DOMAIN disk'[f], IsHead(disk'[f][i])
               PROVE  /\ disk'[f][i].span >= 1
                      /\ i < Len(disk'[f]) => /\ ~IsHead(disk'[f][i + 1])
                                              /\ disk'[f][i].ord < disk'[f][i + 1].ord
    BY DEF Batches
  <2>1. PICK m \in Nat, n \in Nat : m = Len(disk'[f]) /\ n = Len(disk[f]) /\ m <= n
    BY <1>0, <1>1, <2>0 DEF Shrinks
  <2>2. DOMAIN disk'[f] = 1..m
    BY <2>0, <2>1 DEF Log
  <2>3. \A j \in 1..m : disk'[f][j] = disk[f][j]
    BY <1>1, <2>1 DEF Shrinks
  <2>4. i \in 1..n /\ DOMAIN disk[f] = 1..n /\ i \in 1..m
    BY <1>0, <2>1, <2>2
  <2>5. disk[f][i].span >= 1 /\ (i < n => /\ ~IsHead(disk[f][i + 1])
                                          /\ disk[f][i].ord < disk[f][i + 1].ord)
    BY <2>1, <2>3, <2>4 DEF Batches
  <2>6. i < m => i + 1 \in 1..m /\ i < n
    BY <2>1, <2>4
  <2> QED BY <2>1, <2>3, <2>4, <2>5, <2>6
<1>2. ASSUME NEW file, NEW more, Grows(file, more) PROVE Batches'
  <2> SUFFICES ASSUME NEW f \in Files, NEW i \in DOMAIN disk'[f], IsHead(disk'[f][i])
               PROVE  /\ disk'[f][i].span >= 1
                      /\ i < Len(disk'[f]) => /\ ~IsHead(disk'[f][i + 1])
                                              /\ disk'[f][i].ord < disk'[f][i + 1].ord
    BY DEF Batches
  <2>1. /\ file \in Files /\ more \in Log /\ disk' = [disk EXCEPT ![file] = more]
        /\ disk \in [Files -> Log] /\ Whole(disk[file])
    BY <1>2 DEF Grows, Types, DiskTypes
  <2>2. CASE f # file
    BY <2>1, <2>2 DEF Batches
  <2>3. CASE f = file
    <3>1. PICK n \in Nat, m \in Nat : n = Len(disk[f]) /\ m = Len(more)
      BY <1>0, <2>1 DEF Log
    <3>2. /\ disk'[f] = more /\ DOMAIN more = 1..m /\ DOMAIN disk[f] = 1..n
      BY <1>0, <2>1, <2>3, <3>1 DEF Log
    <3>3. /\ \A j \in 1..n : more[j] = disk[f][j]
          /\ \A j \in (n + 1)..m : IsHead(more[j]) =>
                /\ more[j].span >= 1 /\ j < m
                /\ ~IsHead(more[j + 1]) /\ more[j].ord < more[j + 1].ord
      BY <1>2, <2>3, <3>1 DEF Grows
    <3>4. CASE i \in (n + 1)..m
      BY <3>1, <3>2, <3>3, <3>4
    <3>5. CASE i \notin (n + 1)..m
      <4>1. i \in 1..n
        BY <3>1, <3>2, <3>5
      <4>2. IsHead(disk[f][i]) /\ disk[f][i] \in Item \cup Header
        BY <1>0, <3>2, <3>3, <4>1 DEF Log
      <4>3. disk[f][i].span \in Nat /\ disk[f][i].span >= 1
        BY <3>2, <4>1, <4>2, Records DEF Batches
      <4>4. ~IsCutShort(disk[f], i)
        BY <2>1, <2>3, <3>2, <4>1 DEF Whole
      <4>5. i + 1 \in 1..n /\ i < n
        BY <3>1, <4>1, <4>2, <4>3, <4>4 DEF IsCutShort
      <4> QED BY <3>1, <3>2, <3>3, <4>1, <4>2, <4>3, <4>5 DEF Batches
    <3> QED BY <3>4, <3>5
  <2> QED BY <2>2, <2>3
<1> QED BY <1>1, <1>2

\* What is appended lies behind every watermark: a file that is being written
\* was already there, or its id is new.
LEMMA WritableSteps ==
    ASSUME Types, Places, [Next]_vars, NEW f \in Files, f \in {active'} \cup Out'
    PROVE  /\ mode = "open" /\ mode' = "open"
           /\ \/ f > biggest
              \/ f \in {active} \cup Out /\ Len(disk'[f]) >= Len(disk[f])
<1>0. /\ disk \in [Files -> Log] /\ \A g \in Files : Len(disk[g]) \in Nat
      /\ 0 \notin Files
  BY Numbers DEF Types, DiskTypes, Log
<1>1. CASE Write \/ Rewrite
  <2>1. /\ mode = "open" /\ mode' = mode /\ mg' = mg
    <3>1. CASE Write
      BY <3>1, WriteShape DEF Starts
    <3>2. CASE Rewrite
      BY <3>2 DEF Rewrite, KeepRest, Places, Idle
    <3> QED BY <1>1, <3>1, <3>2
  <2>2. PICK file \in Files, more \in Log :
           /\ (Roll /\ file = NextFile) \/ (Stay /\ file = active)
           /\ disk' = [disk EXCEPT ![file] = more] /\ Len(more) >= Len(disk[file])
    <3>1. CASE Write
      <4>1. PICK kind, file, head, n : Starts(kind, file, head, n)
        BY <3>1, WriteShape
      <4>2. /\ file \in Files /\ ((Roll /\ file = NextFile) \/ (Stay /\ file = active))
            /\ head \in 0..1 /\ n \in Nat
        BY <4>1 DEF Starts
      <4>3. PICK more \in Log : disk' = [disk EXCEPT ![file] = more]
                                /\ Extends(more, disk[file], head, n)
        BY <4>1 DEF Starts
      <4>4. Len(more) >= Len(disk[file])
        BY <1>0, <4>2, <4>3 DEF Extends
      <4> QED BY <4>2, <4>3, <4>4
    <3>2. CASE Rewrite
      <4>1. PICK file \in Files, more \in Log :
               /\ \/ Roll /\ file = NextFile /\ wr.try = 1
                  \/ Stay /\ file = active /\ wr.try # 1
               /\ disk' = [disk EXCEPT ![file] = more] /\ Extends(more, disk[file], 0, 1)
        BY <3>2, RewriteShape
      <4>2. Len(more) >= Len(disk[file])
        BY <1>0, <4>1 DEF Extends
      <4> QED BY <4>1, <4>2
    <3> QED BY <1>1, <3>1, <3>2
  <2>3. Out' = Out
    BY <2>1 DEF Out, Copies
  <2>4. active' = active \/ active' = NextFile
    BY <2>2 DEF Roll, Stay
  <2>5. Len(disk'[f]) >= Len(disk[f])
    BY <1>0, <2>2
  <2> QED BY <2>1, <2>3, <2>4, <2>5, NoFileYet
<1>2. CASE MergeFlush
  <2>1. PICK more \in Log, n \in Nat :
           /\ mg.out \in Files /\ Copies /\ n = Len(mg.moves)
           /\ disk' = [disk EXCEPT ![mg.out] = more]
           /\ Extends(more, disk[mg.out], 0, n)
           /\ mg' = [mg EXCEPT !.pc = "move", !.pos = Len(disk[mg.out]) + 1]
    BY <1>2, FlushShape
  <2>2. mg \in Copying
    BY <2>1, JobFacts
  <2>3. Out' = {mg.out} /\ Out = {mg.out}
    BY <2>1, <2>2 DEF Copying, Out, Copies
  <2>4. active' = active /\ mode' = mode /\ mode = "open"
    BY <1>2, <2>1 DEF MergeFlush, Places, Copies, Idle
  <2>5. Len(more) >= Len(disk[mg.out])
    <3>1. PICK l \in Nat : l = Len(disk[mg.out])
      BY <1>0, <2>1
    <3>2. Len(more) = l + 0 + n
      BY <2>1, <3>1 DEF Extends
    <3>3. Len(more) >= l
      BY <3>2
    <3> QED BY <3>1, <3>3
  <2>6. Len(disk'[f]) >= Len(disk[f])
    BY <1>0, <2>1, <2>5
  <2> QED BY <2>3, <2>4, <2>6
<1>3. CASE MergeOpen
  <2>1. Out' \subseteq {NextFile} /\ UNCHANGED <<disk, active, mode>> /\ mg.pc = "drain"
    BY <1>3 DEF MergeOpen, Out
  <2>2. mode = "open"
    BY <2>1 DEF Places, Idle
  <2> QED BY <1>0, <2>1, <2>2, NoFileYet
<1>4. CASE CkptDrain \/ MergeDrain
  <2>1. DrainOne /\ UNCHANGED <<active, mg, mode>> /\ retired # <<>>
    BY <1>4 DEF CkptDrain, MergeDrain, DrainOne
  <2>2. Out' = {} /\ mode = "open"
    BY <2>1 DEF Places, Out, Copies
  <2>3. Head(retired) # active
    BY <2>1, UnlinkTypes DEF Places
  <2>4. disk'[f] = disk[f]
    BY <1>0, <2>1, <2>2, <2>3 DEF DrainOne, Unlink
  <2> QED BY <1>0, <2>1, <2>2, <2>4
<1>5. CASE Close \/ \E kind \in CrashKinds : Crash(kind)
  <2>1. active' = 0 /\ mg' = Idle
    BY <1>5 DEF Close, Crash, Forget
  <2> QED BY <1>0, <2>1 DEF Out, Copies, Idle
<1>6. CASE RecoveryStep
  <2>1. UNCHANGED <<active, mg>> /\ mode # "open"
    BY <1>6 DEF RecoveryStep, Open, Recovered, TakeFile, RecoverRow
  <2>2. active' = 0 /\ Out' = {}
    BY <2>1 DEF Places, Out, Copies, Idle
  <2> QED BY <1>0, <2>2
<1>7. CASE \/ MergeFold \/ MergeMove \/ MergeNextFile
  <2>1. UNCHANGED <<disk, active, mode>> /\ Copies /\ mg \in Copying
    BY <1>7, JobFacts DEF MergeFold, MergeMove, MergeNextFile, Copies, onDisk
  <2>2. mg'.out = mg.out
    BY <1>7, <2>1 DEF MergeFold, MergeMove, MergeNextFile, Copying
  <2>3. Out' \subseteq Out /\ mode = "open"
    BY <2>1, <2>2 DEF Out, Places, Copies, Idle
  <2> QED BY <1>0, <2>1, <2>3
<1>8. CASE \/ SyncBatch \/ ApplyPut \/ ApplyRemove \/ ApplyRefused \/ Return \/ Sync
           \/ Checkpoint \/ CkptCapture \/ CkptSave \/ Merge \/ MergeNothing \/ MergeRetire
           \/ MergeCapture \/ MergeSave \/ UNCHANGED vars
  <2>1. UNCHANGED <<disk, active, mode>>
    BY <1>8 DEF SyncBatch, ApplyPut, ApplyRemove, ApplyRefused, Return, Sync, KeepFiles,
           KeepRest, Checkpoint, CkptCapture, CkptSave, Merge, MergeNothing, MergeRetire,
           MergeCapture, MergeSave, vars, onDisk
  <2>2. Out' \subseteq Out
    <3>1. CASE \/ SyncBatch \/ ApplyPut \/ ApplyRemove \/ ApplyRefused \/ Return \/ Sync
               \/ Checkpoint \/ CkptCapture \/ CkptSave \/ UNCHANGED vars
      <4>1. mg' = mg
        BY <3>1 DEF SyncBatch, ApplyPut, ApplyRemove, ApplyRefused, Return, Sync, KeepRest,
               Checkpoint, CkptCapture, CkptSave, vars
      <4> QED BY <4>1 DEF Out, Copies
    <3>2. CASE Merge \/ MergeNothing \/ MergeRetire \/ MergeCapture \/ MergeSave
      BY <3>2 DEF Merge, MergeNothing, MergeRetire, MergeCapture, MergeSave, Out, Copies, Idle
    <3> QED BY <1>8, <3>1, <3>2
  <2>3. mode = "open"
    BY <1>0, <2>1, <2>2 DEF Places, Out, Copies, Idle
  <2> QED BY <1>0, <2>1, <2>2, <2>3
<1>9. CASE Ended \/ OutOfFiles
  BY <1>8, <1>9 DEF Ended, OutOfFiles
<1> QED BY <1>1, <1>2, <1>3, <1>4, <1>5, <1>6, <1>7, <1>8, <1>9
        DEF Next, WriterStep, CkptStep, MergeStep

LEMMA CoversKept ==
    ASSUME Types, Types', Places, [Next]_vars, NEW wms \in Marks, Covers(wms),
           mode = "open" => \A f \in DOMAIN wms : f <= biggest
    PROVE  \A f \in DOMAIN wms : f \in {active'} \cup Out' => wms[f] <= Len(disk'[f])
<1> SUFFICES ASSUME NEW f \in DOMAIN wms, f \in {active'} \cup Out'
             PROVE  wms[f] <= Len(disk'[f])
  OBVIOUS
<1>1. f \in Files /\ wms[f] \in Nat
  BY DEF Marks
<1>2. /\ mode = "open" /\ mode' = "open"
      /\ \/ f > biggest
         \/ f \in {active} \cup Out /\ Len(disk'[f]) >= Len(disk[f])
  BY <1>1, WritableSteps
<1>3. f <= biggest /\ f \in Nat /\ biggest \in Nat
  BY <1>1, <1>2, Numbers DEF Types, IndexTypes
<1>4. ~(f > biggest)
  BY <1>3
<1>5. f \in {active} \cup Out /\ Len(disk'[f]) >= Len(disk[f]) /\ wms[f] <= Len(disk[f])
  BY <1>2, <1>4 DEF Covers
<1>6. Len(disk[f]) \in Nat /\ Len(disk'[f]) \in Nat
  <2>1. disk[f] \in Log /\ disk'[f] \in Log
    BY <1>1 DEF Types, DiskTypes
  <2> QED BY <2>1 DEF Log
<1> QED BY <1>1, <1>5, <1>6

\* A step that appends: Write, Rewrite or a flush of merge's copies
LEMMA GrowingSteps ==
    ASSUME Types, Types', Places, Hints, OrdsInUse, [Next]_vars, ~Shrinks
    PROVE  \E file, more : Grows(file, more)
<1>1. nextOrd' \in Nat
  BY DEF Types, IndexTypes
<1>2. /\ Writing => \A j \in DOMAIN wr.locs : wr.locs[j].ord < nextOrd
      /\ Copies => \A j \in DOMAIN mg.moves : mg.moves[j].rec.ord < nextOrd
  BY DEF OrdsInUse
<1> QED BY <1>1, <1>2, RecordSteps, WriteGrows, RewriteGrows, FlushGrows

\* The records a call appended, and those it still has to bring to the keydir
LEMMA CallOrds ==
    ASSUME Types, Types', Places, OrdsInUse, [Next]_vars, Writing'
    PROVE  \A j \in DOMAIN wr'.locs : wr'.locs[j].ord < nextOrd'
<1>0. nextOrd \in Nat
  BY DEF Types, IndexTypes
<1>1. CASE Write
  <2>1. PICK kind, file, head, n : Starts(kind, file, head, n)
    BY <1>1, WriteShape
  <2>2. /\ head \in 0..1 /\ n \in Nat \ {0} /\ nextOrd' = nextOrd + head + n
        /\ wr' \in Call /\ Len(wr'.locs) = n
    BY <2>1 DEF Starts
  <2>3. \A j \in 1..n : wr'.locs[j] = [file |-> file, pos |-> Len(disk[file]) + head + j,
                                       ord |-> nextOrd + head + j - 1]
    BY <2>1 DEF Starts
  <2>4. DOMAIN wr'.locs = 1..n
    BY <2>2 DEF Call
  <2>5. ASSUME NEW j \in 1..n PROVE wr'.locs[j].ord < nextOrd'
    <3>1. wr'.locs[j] = [file |-> file, pos |-> Len(disk[file]) + head + j,
                         ord |-> nextOrd + head + j - 1]
      BY <2>3
    <3>2. wr'.locs[j].ord = nextOrd + head + j - 1
      BY <3>1
    <3> QED BY <1>0, <2>2, <3>2
  <2> QED BY <2>4, <2>5
<1>2. CASE Rewrite
  <2>1. PICK file \in Files, more \in Log, o \in Nat :
          /\ \/ nextOrd' = nextOrd + 1 /\ o = nextOrd
             \/ nextOrd' = nextOrd /\ o = Loc.ord
          /\ wr' \in Call /\ Len(wr'.recs) = Len(wr.recs) /\ Len(wr'.locs) = Len(wr.locs)
          /\ \A j \in DOMAIN wr.locs : j # wr.i => wr'.locs[j] = wr.locs[j]
          /\ wr'.locs[wr.i] = [file |-> file, pos |-> Len(disk[file]) + 1, ord |-> o]
    BY <1>2, RewriteShape
  <2>2. wr.pc # "idle"
    BY <1>2 DEF Rewrite
  <2>3. /\ DOMAIN wr.locs = 1..Len(wr.recs) /\ wr.i \in DOMAIN wr.locs
        /\ \A j \in DOMAIN wr.locs : wr.locs[j] \in Place /\ wr.locs[j].ord < nextOrd
    BY <2>2, CallFacts DEF OrdsInUse, Writing
  <2>4. DOMAIN wr'.locs = DOMAIN wr.locs
    <3>1. wr'.locs \in Seq(Place) /\ wr.locs \in Seq(Place)
      BY <2>1, <2>2, CallFacts DEF Call
    <3> QED BY <2>1, <3>1
  <2>5. wr'.locs[wr.i].ord = o /\ o < nextOrd' /\ nextOrd' >= nextOrd
    <3>1. wr'.locs[wr.i].ord = o
      BY <2>1
    <3>2. Loc.ord < nextOrd
      BY <2>3 DEF Loc
    <3> QED BY <1>0, <2>1, <3>1, <3>2
  <2>6. ASSUME NEW j \in DOMAIN wr.locs, j # wr.i PROVE wr'.locs[j].ord < nextOrd'
    <3>1. wr'.locs[j] = wr.locs[j] /\ wr.locs[j].ord \in Nat /\ wr.locs[j].ord < nextOrd
      BY <2>1, <2>3, <2>6 DEF Place
    <3>2. nextOrd' \in Nat
      BY DEF Types, IndexTypes
    <3> QED BY <1>0, <2>5, <3>1, <3>2
  <2> QED BY <2>4, <2>5, <2>6
<1>3. CASE SyncBatch \/ ApplyPut \/ ApplyRemove \/ ApplyRefused
  <2>1. Writing /\ wr'.locs = wr.locs
    <3>1. ~Rewrite
      BY <1>3 DEF SyncBatch, ApplyPut, ApplyRemove, ApplyRefused, Rewrite
    <3> QED BY <1>3, <3>1, CallGoesOn
  <2>2. nextOrd' = nextOrd
    BY <1>3 DEF SyncBatch, ApplyPut, ApplyRemove, ApplyRefused, index
  <2> QED BY <2>1, <2>2 DEF OrdsInUse
<1>4. CASE Return \/ Close \/ \E kind \in CrashKinds : Crash(kind)
  <2>1. ~Writing'
    BY <1>4 DEF Return, Close, Crash, Forget, Writing, Idle
  <2> QED BY <2>1
<1>5. CASE \/ Sync \/ Checkpoint \/ CkptStep \/ Merge \/ MergeStep \/ UNCHANGED vars
  <2>1. wr' = wr /\ nextOrd' = nextOrd
    BY <1>5 DEF Sync, Checkpoint, CkptStep, CkptDrain, CkptCapture, CkptSave, Merge, MergeStep,
           MergeDrain, MergeOpen, MergeNothing, MergeFold, MergeFlush, MergeMove, MergeNextFile,
           MergeRetire, MergeCapture, MergeSave, vars, index
  <2> QED BY <2>1 DEF OrdsInUse, Writing
<1>6. CASE RecoveryStep
  <2>1. wr' = wr /\ mode # "open"
    BY <1>6 DEF RecoveryStep, Open, Recovered, TakeFile, RecoverRow
  <2> QED BY <2>1 DEF Writing, Places, Idle
<1>7. CASE Ended \/ OutOfFiles
  BY <1>5, <1>7 DEF Ended, OutOfFiles
<1> QED BY <1>1, <1>2, <1>3, <1>4, <1>5, <1>6, <1>7 DEF Next, WriterStep

\* The records a merge is about to copy
LEMMA MoveOrds ==
    ASSUME Types, Types', Places, OrdsInUse, [Next]_vars, Copies'
    PROVE  \A j \in DOMAIN mg'.moves : mg'.moves[j].rec.ord < nextOrd'
<1>0. /\ nextOrd \in Nat /\ nextOrd' \in Nat
      /\ Copies => /\ mg \in Copying /\ mg.moves \in Seq(Move)
                   /\ \A j \in DOMAIN mg.moves : mg.moves[j].rec.ord < nextOrd
  BY JobFacts DEF Types, IndexTypes, OrdsInUse, Copying
<1>1. CASE MergeOpen
  <2>1. mg'.moves = <<>>
    BY <1>1 DEF MergeOpen
  <2> QED BY <2>1
<1>2. CASE MergeFold
  <2>1. /\ Copies /\ mg.left # {} /\ nextOrd' = nextOrd
        /\ mg.pos < LastValidEnd(disk[InFile], 0)
        /\ mg' = [mg EXCEPT !.pos = mg.pos + 1,
                   !.moves = IF MergeKeeps(disk[InFile][mg.pos + 1], InFile, mg.pos + 1)
                             THEN Append(mg.moves, [pos |-> mg.pos + 1,
                                                    rec |-> disk[InFile][mg.pos + 1]])
                             ELSE mg.moves]
    BY <1>2 DEF MergeFold, Copies, index
  <2>2. mg \in Copying /\ mg'.moves = IF MergeKeeps(disk[InFile][mg.pos + 1], InFile, mg.pos + 1)
                             THEN Append(mg.moves, [pos |-> mg.pos + 1,
                                                    rec |-> disk[InFile][mg.pos + 1]])
                             ELSE mg.moves
    BY <1>0, <2>1 DEF Copying
  <2>3. disk[InFile][mg.pos + 1].ord < nextOrd
    <3>1. mode = "open"
      BY <2>1 DEF Places, Copies, Idle
    <3>2. mg.pos \in Nat
      BY <2>2 DEF Copying
    <3>3. InFile \in Files /\ LastValidEnd(disk[InFile], 0) \in 0..Len(disk[InFile])
          /\ disk[InFile] \in Log
      BY <2>1, InFileFacts
    <3>4. mg.pos + 1 \in DOMAIN disk[InFile]
      BY <2>1, <3>2, <3>3 DEF Log
    <3> QED BY <3>1, <3>3, <3>4 DEF OrdsInUse
  <2>4. CASE mg'.moves = mg.moves
    BY <1>0, <2>1, <2>4
  <2>5. CASE mg'.moves = Append(mg.moves, [pos |-> mg.pos + 1, rec |-> disk[InFile][mg.pos + 1]])
    <3>1. PICK r : r = disk[InFile][mg.pos + 1]
      OBVIOUS
    <3>2. r.ord < nextOrd /\ [pos |-> mg.pos + 1, rec |-> r].rec = r
          /\ mg'.moves = Append(mg.moves, [pos |-> mg.pos + 1, rec |-> r])
      BY <2>3, <2>5, <3>1
    <3>3. \A j \in DOMAIN mg'.moves : \/ j \in DOMAIN mg.moves /\ mg'.moves[j] = mg.moves[j]
                                      \/ mg'.moves[j] = [pos |-> mg.pos + 1, rec |-> r]
      BY <1>0, <2>1, <3>2
    <3> QED BY <1>0, <2>1, <3>2, <3>3
  <2> QED BY <2>2, <2>4, <2>5
<1>3. CASE MergeMove
  <2>1. Copies /\ mg.moves # <<>> /\ nextOrd' = nextOrd
    BY <1>3 DEF MergeMove, Copies
  <2>2. mg'.moves = Tail(mg.moves)
    BY <1>0, <1>3, <2>1 DEF MergeMove, Copying
  <2>3. \A j \in DOMAIN Tail(mg.moves) : j + 1 \in DOMAIN mg.moves
                                         /\ Tail(mg.moves)[j] = mg.moves[j + 1]
    BY <1>0, <2>1
  <2> QED BY <1>0, <2>1, <2>2, <2>3
<1>4. CASE MergeFlush \/ MergeNextFile
  <2>1. Copies /\ nextOrd' = nextOrd
    BY <1>4 DEF MergeFlush, MergeNextFile, Copies, index
  <2>2. mg'.moves = mg.moves
    BY <1>0, <1>4, <2>1 DEF MergeFlush, MergeNextFile, Copying
  <2> QED BY <1>0, <2>1, <2>2
<1>5. CASE Merge \/ MergeNothing \/ MergeRetire \/ MergeCapture \/ MergeSave \/ Close
           \/ \E kind \in CrashKinds : Crash(kind)
  <2>1. ~Copies'
    BY <1>5 DEF Merge, MergeNothing, MergeRetire, MergeCapture, MergeSave, Close, Crash, Forget,
           Copies, Idle
  <2> QED BY <2>1
<1>6. CASE \/ Write \/ WriterStep \/ Sync \/ Checkpoint \/ CkptStep \/ MergeDrain \/ UNCHANGED vars
  <2>1. mg' = mg
    <3>1. CASE Write
      BY <3>1, WriteShape DEF Starts
    <3>2. CASE WriterStep \/ Sync \/ Checkpoint \/ CkptStep \/ MergeDrain \/ UNCHANGED vars
      BY <3>2 DEF WriterStep, SyncBatch, ApplyPut, ApplyRemove, ApplyRefused, Rewrite, Return,
             KeepRest, Sync, Checkpoint, CkptStep, CkptDrain, CkptCapture, CkptSave, MergeDrain,
             vars
    <3> QED BY <1>6, <3>1, <3>2
  <2>2. Copies
    BY <2>1 DEF Copies
  <2>3. nextOrd' >= nextOrd
    <3>1. mode = "open"
      BY <2>2 DEF Places, Copies, Idle
    <3>2. mode' = mode
      <4>1. CASE Write
        BY <4>1, WriteShape DEF Starts
      <4>2. CASE WriterStep \/ Sync \/ Checkpoint \/ CkptStep \/ MergeDrain \/ UNCHANGED vars
        BY <4>2 DEF WriterStep, SyncBatch, ApplyPut, ApplyRemove, ApplyRefused, Rewrite, Return,
               KeepRest, Sync, Checkpoint, CkptStep, CkptDrain, CkptCapture, CkptSave, MergeDrain,
               vars
      <4> QED BY <1>6, <4>1, <4>2
    <3> QED BY <3>1, <3>2, CountersGrow
  <2>4. ASSUME NEW j \in DOMAIN mg.moves PROVE mg.moves[j].rec.ord < nextOrd'
    <3>1. mg.moves[j].rec.ord \in Nat
      <4>1. mg.moves[j] \in Move
        BY <1>0, <2>2
      <4> QED BY <4>1 DEF Move, Item
    <3> QED BY <1>0, <2>2, <2>3, <3>1
  <2> QED BY <2>1, <2>4
<1>7. CASE RecoveryStep
  <2>1. mg' = mg /\ mode # "open"
    BY <1>7 DEF RecoveryStep, Open, Recovered, TakeFile, RecoverRow
  <2> QED BY <2>1 DEF Copies, Places, Idle
<1>8. CASE Ended \/ OutOfFiles
  BY <1>6, <1>8 DEF Ended, OutOfFiles
<1> QED BY <1>1, <1>2, <1>3, <1>4, <1>5, <1>6, <1>7, <1>8 DEF Next, MergeStep

\* The store opens, is in use, and stops.
LEMMA ModeSteps ==
    ASSUME Types, Places, [Next]_vars
    PROVE  /\ mode = "closed" => Open \/ UNCHANGED vars
           /\ mode = "recovering" => \/ UNCHANGED vars \/ Recovered \/ mode' = "closed"
                                     \/ \E w \in Workers : TakeFile(w) \/ RecoverRow(w)
           /\ mode = "open" => mode' \in {"open", "closed"}
           /\ Recovered => mode = "recovering"
<1>1. CASE mode # "open"
  <2>1. wr.pc = "idle" /\ mg.pc = "idle" /\ ck.pc = "idle"
    BY <1>1 DEF Places, Idle
  <2>2. ~(Write \/ Sync \/ Checkpoint \/ Merge \/ Close \/ WriterStep \/ CkptStep \/ MergeStep)
    <3>1. ~(Write \/ Sync \/ Checkpoint \/ Merge \/ Close)
      BY <1>1, WriteShape DEF Starts, Sync, Checkpoint, Merge, Close
    <3>2. ~WriterStep
      BY <2>1 DEF WriterStep, SyncBatch, ApplyPut, ApplyRemove, ApplyRefused, Rewrite, Return
    <3>3. ~CkptStep /\ ~MergeStep
      BY <2>1 DEF CkptStep, CkptDrain, CkptCapture, CkptSave, MergeStep, MergeDrain, MergeOpen,
             MergeNothing, MergeFold, MergeFlush, MergeMove, MergeNextFile, MergeRetire,
             MergeCapture, MergeSave
    <3> QED BY <3>1, <3>2, <3>3
  <2>3. \/ \E kind \in CrashKinds : Crash(kind)
        \/ Open \/ Recovered \/ \E w \in Workers : TakeFile(w) \/ RecoverRow(w)
        \/ UNCHANGED vars
    BY <2>2 DEF Next, RecoveryStep, Ended, OutOfFiles
  <2>4. mode \in {"closed", "recovering"}
    BY <1>1 DEF Types, IndexTypes
  <2>5. \A kind \in CrashKinds : Crash(kind) => mode # "closed" /\ mode' = "closed"
    BY DEF Crash, Forget
  <2>6. \A w \in Workers : TakeFile(w) \/ RecoverRow(w) => mode = "recovering"
    BY DEF TakeFile, RecoverRow
  <2>7. (Recovered => mode = "recovering") /\ (Open => mode = "closed")
    BY DEF Recovered, Open
  <2> QED BY <1>1, <2>3, <2>4, <2>5, <2>6, <2>7
<1>2. CASE mode = "open"
  <2> SUFFICES mode' \in {"open", "closed"}
    BY <1>2 DEF Recovered
  <2>1. ~RecoveryStep
    BY <1>2 DEF RecoveryStep, Open, Recovered, TakeFile, RecoverRow
  <2>2. CASE Write
    BY <1>2, <2>2, WriteShape DEF Starts
  <2>3. CASE Close \/ \E kind \in CrashKinds : Crash(kind)
    BY <2>3 DEF Close, Crash, Forget
  <2>4. CASE WriterStep
    BY <1>2, <2>4 DEF WriterStep, SyncBatch, ApplyPut, ApplyRemove, ApplyRefused, Rewrite,
           Return, KeepRest
  <2>5. CASE Sync \/ Checkpoint \/ CkptStep \/ Merge
    BY <1>2, <2>5 DEF Sync, Checkpoint, CkptStep, CkptDrain, CkptCapture, CkptSave, Merge
  <2>6. CASE MergeStep
    BY <1>2, <2>6 DEF MergeStep, MergeDrain, MergeOpen, MergeNothing, MergeFold, MergeFlush,
           MergeMove, MergeNextFile, MergeRetire, MergeCapture, MergeSave
  <2>7. CASE Ended \/ OutOfFiles \/ UNCHANGED vars
    BY <1>2, <2>7 DEF Ended, OutOfFiles, vars
  <2> QED BY <1>2, <2>1, <2>2, <2>3, <2>4, <2>5, <2>6, <2>7 DEF Next, RecoveryStep
<1> QED BY <1>1, <1>2

LEMMA RecordOrds ==
    ASSUME Types, Types', Places, Hints, OrdsInUse, OrdsRecovering, [Next]_vars, mode' = "open"
    PROVE  \A f \in Files : \A i \in DOMAIN disk'[f] : disk'[f][i].ord < nextOrd'
<1>0. /\ nextOrd \in Nat /\ nextOrd' \in Nat
      /\ \A f \in Files : /\ disk[f] \in Log /\ Len(disk[f]) \in Nat /\ DOMAIN disk[f] = 1..Len(disk[f])
                          /\ disk'[f] \in Log /\ DOMAIN disk'[f] = 1..Len(disk'[f])
  BY DEF Types, DiskTypes, IndexTypes, Log
<1>1. CASE mode # "open"
  <2>1. Recovered \/ UNCHANGED vars
    <3>1. mode \in {"closed", "recovering"}
      BY <1>1 DEF Types, IndexTypes
    <3>2. ~Open
      BY DEF Open
    <3>3. \A w \in Workers : ~TakeFile(w) /\ ~RecoverRow(w)
      BY <1>1 DEF TakeFile, RecoverRow
    <3> QED BY <3>1, <3>2, <3>3, ModeSteps
  <2>2. /\ mode = "recovering" /\ rc.todo = {} /\ \A w \in Workers : rc.work[w] = NoWork
        /\ UNCHANGED <<disk, nextOrd>>
    BY <1>1, <2>1 DEF Recovered, vars, onDisk, index
  <2>3. \A w \in Workers : DOMAIN rc.work[w].rows = {}
    BY <2>2 DEF NoWork
  <2> QED BY <2>2, <2>3 DEF OrdsRecovering
<1>2. CASE mode = "open"
  <2>1. nextOrd' >= nextOrd
    BY <1>2, CountersGrow
  <2>2. ASSUME NEW f \in Files, NEW i \in DOMAIN disk[f] PROVE disk[f][i].ord < nextOrd'
    <3>1. disk[f][i].ord \in Nat /\ disk[f][i].ord < nextOrd
      BY <1>0, <1>2, <2>2, Records DEF Log, OrdsInUse
    <3> QED BY <1>0, <2>1, <3>1
  <2>3. CASE Shrinks
    <3>1. \A f \in Files : \A i \in DOMAIN disk'[f] : i \in DOMAIN disk[f]
                                                      /\ disk'[f][i] = disk[f][i]
      BY <1>0, <2>3 DEF Shrinks
    <3> QED BY <2>2, <3>1
  <2>4. ASSUME NEW file, NEW more, Grows(file, more)
        PROVE  \A f \in Files : \A i \in DOMAIN disk'[f] : disk'[f][i].ord < nextOrd'
    <3>1. /\ file \in Files /\ disk' = [disk EXCEPT ![file] = more]
          /\ \A i \in 1..Len(disk[file]) : more[i] = disk[file][i]
          /\ \A i \in (Len(disk[file]) + 1)..Len(more) : more[i].ord < nextOrd'
          /\ disk \in [Files -> Log]
      BY <2>4 DEF Grows, Types, DiskTypes
    <3>2. ASSUME NEW i \in DOMAIN disk'[file] PROVE disk'[file][i].ord < nextOrd'
      <4>1. disk'[file] = more /\ i \in 1..Len(more)
        BY <1>0, <3>1
      <4>2. i \in 1..Len(disk[file]) \/ i \in (Len(disk[file]) + 1)..Len(more)
        BY <1>0, <3>1, <4>1
      <4> QED BY <1>0, <2>2, <3>1, <4>1, <4>2
    <3>3. \A f \in Files \ {file} : disk'[f] = disk[f]
      BY <3>1
    <3> QED BY <2>2, <3>2, <3>3
  <2> QED BY <2>3, <2>4, GrowingSteps
<1> QED BY <1>1, <1>2

LEMMA OrdsInUseKept ==
    ASSUME Types, Types', Places, Hints, OrdsInUse, OrdsRecovering, [Next]_vars
    PROVE  OrdsInUse'
BY RecordOrds, CallOrds, MoveOrds DEF OrdsInUse

\* The watermarks of a checkpoint or a merge that is about to save
LEMMA MarksKept ==
    ASSUME Types, Types', Places, Places', MarksInUse, [Next]_vars
    PROVE  MarksInUse'
<1>0. biggest \in Nat /\ biggest' \in Nat
  BY Numbers DEF Types, IndexTypes
<1>1. ASSUME NEW wms \in Marks, Marked(wms), mode = "open", mode' = "open"
      PROVE  Marked(wms)'
  <2>1. \A f \in DOMAIN wms : f \in {active'} \cup Out' => wms[f] <= Len(disk'[f])
    BY <1>1, CoversKept DEF Marked
  <2>2. biggest' >= biggest
    BY <1>1, CountersGrow
  <2>3. \A f \in DOMAIN wms : f \in Nat /\ f <= biggest
    BY <1>1, Numbers DEF Marked, Marks
  <2> QED BY <1>0, <2>1, <2>2, <2>3 DEF Marked, Covers
<1>2. ASSUME mode = "open"
      PROVE  Watermarks \in Marks /\ Marked(Watermarks)
  <2>1. Watermarks \in Marks /\ DOMAIN Watermarks = present
        /\ \A f \in present : Watermarks[f] = Len(disk[f])
    BY DurableTypes DEF Watermarks
  <2>2. \A f \in Files : Len(disk[f]) \in Nat
    BY DEF Types, DiskTypes, Log
  <2>3. present \subseteq Files /\ \A f \in present : f <= biggest
    BY <1>2 DEF Types, DiskTypes, Places
  <2> QED BY <2>1, <2>2, <2>3 DEF Marked, Covers
<1>3. ASSUME mg'.pc = "save" PROVE Marked(mg.wms)'
  <2>1. mode' = "open"
    BY <1>3 DEF Places, Idle
  <2>2. CASE MergeCapture
    <3>1. /\ UNCHANGED <<disk, active, biggest, mode>> /\ mg'.wms = Watermarks
          /\ Out' = {} /\ mode = "open"
      BY <2>1, <2>2 DEF MergeCapture, index, Out, Copies
    <3>2. Marked(Watermarks)
      BY <1>2, <3>1
    <3> QED BY <3>1, <3>2 DEF Marked, Covers
  <2>3. CASE ~MergeCapture
    <3>1. mg' = mg
      <4>1. CASE Write
        BY <4>1, WriteShape DEF Starts
      <4>2. CASE WriterStep \/ Sync \/ Checkpoint \/ CkptStep
        BY <4>2 DEF WriterStep, SyncBatch, ApplyPut, ApplyRemove, ApplyRefused, Rewrite,
               Return, KeepRest, Sync, Checkpoint, CkptStep, CkptDrain, CkptCapture, CkptSave
      <4>3. CASE Merge \/ MergeDrain \/ MergeOpen \/ MergeNothing \/ MergeRetire \/ MergeSave
        BY <1>3, <4>3 DEF Merge, MergeDrain, MergeOpen, MergeNothing, MergeRetire, MergeSave, Idle
      <4>4. CASE MergeFold \/ MergeMove \/ MergeNextFile \/ MergeFlush
        <5>1. Copies /\ mg \in Copying
          BY <4>4, JobFacts DEF MergeFold, MergeMove, MergeNextFile, MergeFlush, Copies
        <5>2. mg'.pc # "save"
          BY <4>4, <5>1 DEF MergeFold, MergeMove, MergeNextFile, MergeFlush, Copying
        <5> QED BY <1>3, <5>2
      <4>5. CASE RecoveryStep
        BY <4>5 DEF RecoveryStep, Open, Recovered, TakeFile, RecoverRow
      <4>6. CASE Close \/ \E kind \in CrashKinds : Crash(kind)
        BY <1>3, <4>6 DEF Close, Crash, Forget, Idle
      <4>7. CASE Ended \/ OutOfFiles \/ UNCHANGED vars
        BY <4>7 DEF Ended, OutOfFiles, vars
      <4> QED BY <2>3, <4>1, <4>2, <4>3, <4>4, <4>5, <4>6, <4>7 DEF Next, MergeStep
    <3>2. mg.wms \in Marks /\ Marked(mg.wms) /\ mode = "open"
      BY <1>3, <3>1, JobFacts DEF Saving, MarksInUse, Places, Idle
    <3> QED BY <1>1, <2>1, <3>1, <3>2 DEF Marked, Covers
  <2> QED BY <2>2, <2>3
<1>4. ASSUME ck'.pc = "save" PROVE Marked(ck.wms)'
  <2>1. mode' = "open"
    BY <1>4 DEF Places, Idle
  <2>2. CASE CkptCapture
    <3>1. /\ UNCHANGED <<disk, active, biggest, mode, mg>> /\ ck'.wms = Watermarks
          /\ mode = "open"
      BY <2>1, <2>2 DEF CkptCapture, index
    <3>2. Out' = Out
      BY <3>1 DEF Out, Copies
    <3>3. Marked(Watermarks)
      BY <1>2, <3>1, <3>2
    <3> QED BY <3>1, <3>2, <3>3 DEF Marked, Covers
  <2>3. CASE ~CkptCapture
    <3>1. ck' = ck
      <4>1. CASE Write
        BY <4>1, WriteShape DEF Starts
      <4>2. CASE WriterStep \/ Sync \/ Merge \/ CkptDrain
        BY <4>2 DEF WriterStep, SyncBatch, ApplyPut, ApplyRemove, ApplyRefused, Rewrite,
               Return, KeepRest, Sync, Merge, CkptDrain
      <4>3. CASE Checkpoint \/ CkptSave \/ Close \/ \E kind \in CrashKinds : Crash(kind)
        BY <1>4, <4>3 DEF Checkpoint, CkptSave, Close, Crash, Forget, Idle
      <4>4. CASE MergeStep
        BY <4>4 DEF MergeStep, MergeDrain, MergeOpen, MergeNothing, MergeFold, MergeFlush,
               MergeMove, MergeNextFile, MergeRetire, MergeCapture, MergeSave
      <4>5. CASE RecoveryStep
        BY <4>5 DEF RecoveryStep, Open, Recovered, TakeFile, RecoverRow
      <4>6. CASE Ended \/ OutOfFiles \/ UNCHANGED vars
        BY <4>6 DEF Ended, OutOfFiles, vars
      <4> QED BY <2>3, <4>1, <4>2, <4>3, <4>4, <4>5, <4>6 DEF Next, CkptStep
    <3>2. ck.wms \in Marks /\ Marked(ck.wms) /\ mode = "open"
      BY <1>4, <3>1, JobFacts DEF Saving, MarksInUse, Places, Idle
    <3> QED BY <1>1, <2>1, <3>1, <3>2 DEF Marked, Covers
  <2> QED BY <2>2, <2>3
<1> QED BY <1>3, <1>4 DEF MarksInUse

(***************************************************************************)
(* The snapshot                                                            *)
(***************************************************************************)
LEMMA SnapSteps ==
    ASSUME Types, [Next]_vars
    PROVE  \/ snap' = snap
           \/ CkptSave /\ snap' = <<Snapshot(ck.wms)>>
           \/ MergeSave /\ snap' = <<Snapshot(mg.wms)>>
           \/ Close /\ snap' = <<Snapshot([f \in present' |-> Len(disk[f])])>>
<1>1. CASE CkptSave \/ MergeSave \/ Close
  BY <1>1 DEF CkptSave, MergeSave, Close, SaveSnapshot
<1>2. CASE Write \/ Rewrite
  <2>1. Write => snap' = snap
    BY WriteShape DEF Starts
  <2>2. Rewrite => snap' = snap
    BY DEF Rewrite
  <2> QED BY <1>2, <2>1, <2>2
<1>3. CASE \/ SyncBatch \/ ApplyPut \/ ApplyRemove \/ ApplyRefused \/ Return \/ Sync
           \/ Checkpoint \/ CkptDrain \/ CkptCapture \/ Merge
  BY <1>3 DEF SyncBatch, ApplyPut, ApplyRemove, ApplyRefused, Return, Sync, KeepFiles,
         Checkpoint, CkptDrain, CkptCapture, Merge, onDisk
<1>4. CASE \/ MergeDrain \/ MergeOpen \/ MergeNothing \/ MergeFold \/ MergeFlush
           \/ MergeMove \/ MergeNextFile \/ MergeRetire \/ MergeCapture
  BY <1>4 DEF MergeDrain, MergeOpen, MergeNothing, MergeFold, MergeFlush,
         MergeMove, MergeNextFile, MergeRetire, MergeCapture, onDisk
<1>5. CASE RecoveryStep \/ \E kind \in CrashKinds : Crash(kind)
  BY <1>5 DEF RecoveryStep, Open, Recovered, TakeFile, RecoverRow, Crash, onDisk
<1>6. CASE Ended \/ OutOfFiles \/ UNCHANGED vars
  BY <1>6 DEF Ended, OutOfFiles, vars, onDisk
<1> QED BY <1>1, <1>2, <1>3, <1>4, <1>5, <1>6 DEF Next, WriterStep, CkptStep, MergeStep

\* What a snapshot that is saved says of the files
LEMMA SavedNow ==
    ASSUME Types, Types', OrdsInUse, mode = "open", NEW wms \in Marks,
           \A f \in DOMAIN wms : f <= biggest,
           \A f \in Files : disk'[f] = disk[f] \/ disk'[f] = <<>>
    PROVE  /\ Snapshot(wms).wms = wms /\ Snapshot(wms).biggest = biggest
           /\ Snapshot(wms).nextOrd = nextOrd
           /\ \A f \in DOMAIN wms :
                 /\ f <= biggest
                 /\ \A i \in DOMAIN disk'[f] : i <= wms[f] => disk'[f][i].ord < nextOrd
<1>1. \A f \in DOMAIN wms : f \in Files
  BY DEF Marks
<1>2. \A f \in Files : \A i \in DOMAIN disk[f] : disk[f][i].ord < nextOrd
  BY DEF OrdsInUse
<1>3. DOMAIN <<>> = {}
  OBVIOUS
<1>4. \A f \in Files : \A i \in DOMAIN disk'[f] : disk'[f][i].ord < nextOrd
  BY <1>2, <1>3
<1>5. Snapshot(wms).wms = wms /\ Snapshot(wms).biggest = biggest
      /\ Snapshot(wms).nextOrd = nextOrd
  BY DEF Snapshot
<1> QED BY <1>1, <1>4, <1>5

LEMMA OrdsSavedKept ==
    ASSUME Types, Types', Places, Places', Hints, OrdsInUse, MarksInUse, OrdsSaved, [Next]_vars
    PROVE  OrdsSaved'
<1> SUFFICES ASSUME NEW s \in Saved, snap' = <<s>>
             PROVE  /\ \A f \in DOMAIN s.wms :
                          /\ f <= s.biggest
                          /\ \A i \in DOMAIN disk'[f] : i <= s.wms[f]
                                                        => disk'[f][i].ord < s.nextOrd
                    /\ Covers(s.wms)'
                    /\ mode' # "closed" => s.biggest <= biggest' /\ s.nextOrd <= nextOrd'
  BY DEF OrdsSaved
<1>0. /\ nextOrd \in Nat /\ nextOrd' \in Nat /\ biggest \in Nat /\ biggest' \in Nat
      /\ s.wms \in Marks /\ s.biggest \in Nat /\ s.nextOrd \in Nat
      /\ \A f \in DOMAIN s.wms : f \in Files /\ f \in Nat /\ s.wms[f] \in Nat
      /\ \A f \in Files : /\ disk[f] \in Log /\ Len(disk[f]) \in Nat /\ DOMAIN disk[f] = 1..Len(disk[f])
                          /\ disk'[f] \in Log /\ DOMAIN disk'[f] = 1..Len(disk'[f])
  <2>1. /\ s.wms \in Marks /\ s.biggest \in Nat /\ s.nextOrd \in Nat
        /\ \A f \in DOMAIN s.wms : f \in Files /\ f \in Nat /\ s.wms[f] \in Nat
    <3>1. s.wms \in Marks /\ s.biggest \in 0..MaxFile /\ s.nextOrd \in Nat
      BY DEF Saved
    <3>2. PICK S \in SUBSET Files : s.wms \in [S -> Nat]
      BY <3>1 DEF Marks
    <3>3. \A f \in DOMAIN s.wms : f \in Files /\ s.wms[f] \in Nat
      BY <3>2
    <3>4. \A f \in Files : f \in Nat
      BY Numbers
    <3>5. s.biggest \in Nat
      BY <3>1, Numbers
    <3> QED BY <3>1, <3>3, <3>4, <3>5
  <2>2. \A f \in Files : /\ disk[f] \in Log /\ Len(disk[f]) \in Nat /\ DOMAIN disk[f] = 1..Len(disk[f])
                         /\ disk'[f] \in Log /\ DOMAIN disk'[f] = 1..Len(disk'[f])
    BY DEF Types, DiskTypes, Log
  <2>3. nextOrd \in Nat /\ nextOrd' \in Nat /\ biggest \in Nat /\ biggest' \in Nat
    BY Numbers DEF Types, IndexTypes
  <2> QED BY <2>1, <2>2, <2>3
<1>1. CASE snap' = snap
  <2>1. /\ \A f \in DOMAIN s.wms :
              /\ f <= s.biggest
              /\ \A i \in DOMAIN disk[f] : i <= s.wms[f] => disk[f][i].ord < s.nextOrd
        /\ Covers(s.wms)
        /\ mode # "closed" => s.biggest <= biggest /\ s.nextOrd <= nextOrd
    BY <1>1 DEF OrdsSaved
  <2>2. mode = "open" => \A f \in DOMAIN s.wms : f <= biggest
    BY <1>0, <2>1
  <2>3. Covers(s.wms)'
    BY <1>0, <2>1, <2>2, CoversKept DEF Covers
  <2>4. ASSUME mode' # "closed" PROVE s.biggest <= biggest' /\ s.nextOrd <= nextOrd'
    <3>1. CASE mode # "closed"
      <4>1. nextOrd' >= nextOrd /\ biggest' >= biggest
        BY <2>4, <3>1, CountersGrow
      <4> QED BY <1>0, <2>1, <3>1, <4>1
    <3>2. CASE mode = "closed"
      <4>1. Open
        <5>1. UNCHANGED vars => mode' = mode
          BY DEF vars
        <5> QED BY <2>4, <3>2, <5>1, ModeSteps
      <4>2. snap # <<>> /\ snap[1] = s
        BY <1>1
      <4>3. biggest' = s.biggest /\ nextOrd' = s.nextOrd
        BY <4>1, <4>2 DEF Open
      <4> QED BY <1>0, <4>3
    <3> QED BY <3>1, <3>2
  <2>5. ASSUME NEW f \in DOMAIN s.wms, NEW i \in DOMAIN disk'[f], i <= s.wms[f]
        PROVE  disk'[f][i].ord < s.nextOrd
    <3>1. CASE Shrinks
      <4>1. i \in DOMAIN disk[f] /\ disk'[f][i] = disk[f][i]
        <5>1. f \in Files
          BY <1>0, <2>1
        <5> QED BY <2>5, <3>1, <5>1 DEF Shrinks
      <4> QED BY <2>1, <2>5, <4>1
    <3>2. ASSUME NEW file, NEW more, Grows(file, more) PROVE disk'[f][i].ord < s.nextOrd
      <4>1. /\ mode = "open" /\ file \in Files /\ disk' = [disk EXCEPT ![file] = more]
            /\ \A j \in 1..Len(disk[file]) : more[j] = disk[file][j]
            /\ file \in {active, NextFile} \cup Out /\ disk \in [Files -> Log]
        BY <3>2 DEF Grows, Types, DiskTypes
      <4>2. f \in Files
        BY <1>0
      <4>3. CASE f # file
        BY <2>1, <2>5, <4>1, <4>2, <4>3
      <4>4. CASE f = file
        <5>1. f <= biggest
          BY <2>2, <4>1
        <5>2. f # NextFile
          BY <1>0, <4>1, <5>1, NoFileYet DEF NextFile
        <5>3. f \in {active} \cup Out
          BY <4>1, <4>4, <5>2
        <5>4. s.wms[f] <= Len(disk[f])
          BY <2>1, <5>3 DEF Covers
        <5>5. i \in 1..Len(disk[f])
          BY <1>0, <2>5, <4>2, <5>4
        <5>6. disk'[f][i] = disk[f][i]
          BY <4>1, <4>4, <5>5
        <5> QED BY <1>0, <2>1, <2>5, <4>2, <5>5, <5>6
      <4> QED BY <4>3, <4>4
    <3> QED BY <3>1, <3>2, GrowingSteps
  <2> QED BY <2>1, <2>3, <2>4, <2>5
<1>2. CASE (CkptSave /\ snap' = <<Snapshot(ck.wms)>>) \/ (MergeSave /\ snap' = <<Snapshot(mg.wms)>>)
  <2>1. PICK wms \in Marks : Marked(wms) /\ s = Snapshot(wms)
    <3>1. CASE CkptSave /\ snap' = <<Snapshot(ck.wms)>>
      <4>1. ck.wms \in Marks /\ Marked(ck.wms)
        BY <3>1, JobFacts DEF CkptSave, Saving, MarksInUse
      <4> QED BY <3>1, <4>1
    <3>2. CASE MergeSave /\ snap' = <<Snapshot(mg.wms)>>
      <4>1. mg.wms \in Marks /\ Marked(mg.wms)
        BY <3>2, JobFacts DEF MergeSave, Saving, MarksInUse
      <4> QED BY <3>2, <4>1
    <3> QED BY <1>2, <3>1, <3>2
  <2>2. UNCHANGED <<disk, active, mode, biggest, nextOrd>> /\ mode = "open" /\ Out' \subseteq Out
    BY <1>2 DEF CkptSave, MergeSave, index, Places, Idle, Out, Copies
  <2>3. /\ s.wms = wms /\ s.biggest = biggest /\ s.nextOrd = nextOrd
        /\ \A f \in DOMAIN wms :
              /\ f <= biggest
              /\ \A i \in DOMAIN disk'[f] : i <= wms[f] => disk'[f][i].ord < nextOrd
    BY <2>1, <2>2, SavedNow DEF Marked
  <2>4. Covers(s.wms)'
    BY <2>1, <2>2, <2>3 DEF Marked, Covers
  <2> QED BY <1>0, <2>2, <2>3, <2>4
<1>3. CASE Close /\ snap' = <<Snapshot([f \in present' |-> Len(disk[f])])>>
  <2>1. /\ mode = "open" /\ mode' = "closed" /\ active' = 0 /\ Out' = {}
        /\ present' = present \ Gone
        /\ disk' = [f \in Files |-> IF f \in Gone THEN <<>> ELSE disk[f]]
    BY <1>3 DEF Close, Forget, Out, Copies, Idle
  <2>2. PICK wms : wms = [f \in present' |-> Len(disk[f])]
    OBVIOUS
  <2>3. wms \in Marks /\ \A f \in DOMAIN wms : f <= biggest
    <3>1. present' \in SUBSET Files
      BY DEF Types, DiskTypes
    <3>2. wms \in [present' -> Nat]
      BY <1>0, <2>2, <3>1
    <3>3. wms \in Marks
      BY <3>1, <3>2 DEF Marks
    <3>4. DOMAIN wms \subseteq present
      BY <2>1, <2>2
    <3> QED BY <2>1, <3>3, <3>4 DEF Places
  <2>4. s = Snapshot(wms)
    BY <1>3, <2>2
  <2>5. \A f \in Files : disk'[f] = disk[f] \/ disk'[f] = <<>>
    BY <2>1
  <2>6. /\ s.wms = wms /\ s.biggest = biggest /\ s.nextOrd = nextOrd
        /\ \A f \in DOMAIN wms :
              /\ f <= biggest
              /\ \A i \in DOMAIN disk'[f] : i <= wms[f] => disk'[f][i].ord < nextOrd
    BY <2>1, <2>3, <2>4, <2>5, SavedNow
  <2>7. Covers(s.wms)'
    <3>1. 0 \notin Files
      BY Numbers
    <3> QED BY <1>0, <2>1, <3>1 DEF Covers
  <2> QED BY <2>1, <2>6, <2>7
<1> QED BY <1>1, <1>2, <1>3, SnapSteps

(***************************************************************************)
(* Recovery                                                                *)
(***************************************************************************)
\* Every record a worker takes over is counted, is before the watermark, or
\* has a row that is: a header's batch follows it.
LEMMA TakenRows ==
    ASSUME Types, Types', Hints, Batches, OrdsSaved, mode = "recovering",
           rc.wms = IF snap = <<>> THEN <<>> ELSE snap[1].wms,
           NEW f \in Files, NEW i \in 1..Len(TornTailCut(f))
    PROVE  \/ disk[f][i].ord < nextOrd
           \/ \E j \in DOMAIN RowsOf(f) : RowsOf(f)[j].ord >= disk[f][i].ord
<1> DEFINE from == IF UsesHint(f) THEN 0 ELSE FoldStart(f)
           last == LastValidEnd(disk[f], from)
<1>1. /\ disk[f] \in Log /\ Len(disk[f]) \in Nat /\ DOMAIN disk[f] = 1..Len(disk[f])
      /\ i \in 1..Len(disk[f]) /\ from \in Nat /\ nextOrd \in Nat
  <2>1. disk[f] \in Log /\ Len(disk[f]) \in Nat /\ DOMAIN disk[f] = 1..Len(disk[f])
    BY DEF Types, DiskTypes, Log
  <2>2. Len(TornTailCut(f)) \in 0..Len(disk[f]) /\ FoldStart(f) \in Nat
    BY TailCutType
  <2>3. i \in 1..Len(disk[f])
    BY <2>1, <2>2
  <2> QED BY <2>1, <2>2, <2>3 DEF Types, IndexTypes
<1>2. RowsOf(f) = RowsFrom(disk[f], from)
  BY TailCutType DEF UsesHint, Hints
<1>3. last \in Nat /\ (i > last => i <= from)
  <2>1. last \in Nat /\ last >= from
        /\ (Whole(disk[f]) => last = Larger(from, Len(disk[f])))
    BY <1>1, EndOfFold DEF Log
  <2>2. CASE UsesHint(f)
    <3>1. Whole(disk[f]) /\ from = 0
      BY <2>2 DEF UsesHint, Hints
    <3>2. last = Len(disk[f])
      BY <1>1, <2>1, <3>1 DEF Larger
    <3> QED BY <1>1, <2>1, <3>2
  <2>3. CASE ~UsesHint(f)
    <3>1. from = FoldStart(f)
      BY <2>3
    <3>2. \/ last > Len(disk[f])
          \/ Len(TornTailCut(f)) = last
      BY <2>3, <3>1, TailCutType
    <3> QED BY <1>1, <2>1, <3>2
  <2> QED BY <2>2, <2>3
<1> HIDE DEF from, last
<1>4. CASE i <= from
  <2>1. ~UsesHint(f) /\ from = FoldStart(f) /\ from # 0
    BY <1>1, <1>4 DEF from
  <2>2. f \in DOMAIN rc.wms /\ from = rc.wms[f]
    BY <2>1 DEF FoldStart
  <2>3. snap # <<>>
    <3>1. DOMAIN <<>> = {}
      OBVIOUS
    <3> QED BY <2>2, <3>1
  <2>4. PICK s \in Saved : snap = <<s>>
    BY <2>3 DEF Types, DiskTypes
  <2>5. snap[1] = s /\ rc.wms = s.wms
    BY <2>3, <2>4
  <2>6. disk[f][i].ord < s.nextOrd /\ s.nextOrd <= nextOrd
    BY <1>1, <1>4, <2>2, <2>4, <2>5 DEF OrdsSaved
  <2>7. disk[f][i].ord \in Nat /\ s.nextOrd \in Nat
    BY <1>1, Records DEF Log, Saved
  <2> QED BY <1>1, <2>6, <2>7
<1>5. ASSUME NEW x \in Found(disk[f], from), disk[f][x].ord >= disk[f][i].ord
      PROVE  \E j \in DOMAIN RowsOf(f) : RowsOf(f)[j].ord >= disk[f][i].ord
  <2>1. PICK j \in DOMAIN RowsFrom(disk[f], from) :
           RowsFrom(disk[f], from)[j] = Row(disk[f], x)
    BY <1>1, RowsAreRecords DEF Log
  <2>2. Row(disk[f], x).ord = disk[f][x].ord
    BY DEF Row
  <2> QED BY <1>2, <1>5, <2>1, <2>2
<1>6. CASE ~(i <= from)
  <2>1. i \in (from + 1)..last
    BY <1>1, <1>3, <1>6
  <2>2. CASE ~IsHead(disk[f][i])
    <3>1. i \in Found(disk[f], from)
      BY <2>1, <2>2 DEF Found, last
    <3>2. disk[f][i].ord \in Nat
      BY <1>1, Records DEF Log
    <3> QED BY <1>5, <3>1, <3>2
  <2>3. CASE IsHead(disk[f][i])
    <3>1. PICK m \in Nat, n \in Nat : m = Len(disk[f]) /\ n = disk[f][i].span /\ n >= 1
      BY <1>1, <2>3, Records DEF Batches, Log
    <3>2. /\ ~IsCutShort(disk[f], i)
          /\ last < m => IsCutShort(disk[f], last + 1)
          /\ last \in Nat
      BY <1>1, <2>1, <3>1, EndOfFold DEF Log, last
    <3>3. i + n <= m
      BY <1>1, <2>3, <3>1, <3>2 DEF IsCutShort
    <3>4. i + 1 \in 1..m /\ i < m
      BY <1>1, <3>1, <3>3
    <3>5. ~IsHead(disk[f][i + 1]) /\ disk[f][i].ord < disk[f][i + 1].ord
      BY <1>1, <2>3, <3>1, <3>4 DEF Batches
    <3>6. i + 1 <= last
      <4> SUFFICES ASSUME ~(i + 1 <= last) PROVE FALSE
        OBVIOUS
      <4>1. last = i
        BY <1>1, <2>1, <3>2
      <4>2. IsHead(disk[f][i + 1])
        BY <3>2, <3>4, <4>1 DEF IsCutShort
      <4> QED BY <3>5, <4>2
    <3>7. i + 1 \in Found(disk[f], from)
      BY <1>1, <1>3, <2>1, <3>5, <3>6 DEF Found, last
    <3>8. disk[f][i].ord \in Nat /\ disk[f][i + 1].ord \in Nat
      BY <1>1, <3>1, <3>4, Records DEF Log
    <3> QED BY <1>5, <3>5, <3>7, <3>8
  <2> QED BY <2>2, <2>3
<1> QED BY <1>4, <1>6

LEMMA OrdsRecoveringKept ==
    ASSUME Types, Types', Places, Hints, Batches, OrdsSaved, OrdsRecovering, [Next]_vars
    PROVE  OrdsRecovering'
<1> SUFFICES ASSUME mode' = "recovering" PROVE OrdsRecovering'
  BY DEF OrdsRecovering
<1>0. /\ nextOrd \in Nat /\ nextOrd' \in Nat /\ disk \in [Files -> Log]
      /\ \A f \in Files : DOMAIN disk[f] = 1..Len(disk[f]) /\ Len(disk[f]) \in Nat
      /\ \A f \in Files : \A i \in DOMAIN disk[f] : disk[f][i].ord \in Nat
      /\ rc \in [todo : SUBSET Files, wms : Marks, work : [Workers -> Work]]
  <2>1. disk \in [Files -> Log] /\ nextOrd \in Nat /\ nextOrd' \in Nat
        /\ rc \in [todo : SUBSET Files, wms : Marks, work : [Workers -> Work]]
    BY DEF Types, DiskTypes, IndexTypes, RecoveryTypes
  <2> QED BY <2>1, Records DEF Log
<1>1. CASE Open
  <2>1. /\ UNCHANGED <<disk, snap>> /\ rc'.todo = present
        /\ rc'.wms = IF snap # <<>> THEN snap[1].wms ELSE <<>>
    BY <1>1 DEF Open, NoRecovery, onDisk
  <2>2. \A f \in Files \ present : DOMAIN disk[f] = {}
    BY DEF Places
  <2> QED BY <2>1, <2>2 DEF OrdsRecovering
<1>2. CASE UNCHANGED vars
  BY <1>2 DEF OrdsRecovering, vars, onDisk, index
<1>3. ASSUME NEW w \in Workers, TakeFile(w) PROVE OrdsRecovering'
  <2>1. PICK g \in Files :
           /\ g \in rc.todo /\ mode = "recovering" /\ rc.work[w] = NoWork
           /\ rc' = [rc EXCEPT !.todo = rc.todo \ {g},
                       !.work[w] = IF RowsOf(g) = <<>> THEN NoWork
                                   ELSE [file |-> g, rows |-> RowsOf(g)]]
           /\ disk' = [disk EXCEPT ![g] = TornTailCut(g)]
    BY <1>3, TakenFile
  <2>2. UNCHANGED <<snap, nextOrd>>
    BY <1>3 DEF TakeFile
  <2>3. /\ rc.wms = IF snap = <<>> THEN <<>> ELSE snap[1].wms
        /\ \A f \in Files \ rc.todo : \A i \in DOMAIN disk[f] :
              \/ disk[f][i].ord < nextOrd
              \/ \E v \in Workers : \E j \in DOMAIN rc.work[v].rows :
                    rc.work[v].rows[j].ord >= disk[f][i].ord
    BY <2>1 DEF OrdsRecovering
  <2>4. /\ rc'.wms = rc.wms /\ rc'.todo = rc.todo \ {g}
        /\ rc'.work[w].rows = RowsOf(g)
        /\ \A v \in Workers \ {w} : rc'.work[v] = rc.work[v]
    <3>1. rc'.work[w] = IF RowsOf(g) = <<>> THEN NoWork ELSE [file |-> g, rows |-> RowsOf(g)]
      BY <1>0, <2>1
    <3>2. rc'.work[w].rows = RowsOf(g)
      BY <3>1 DEF NoWork
    <3> QED BY <1>0, <2>1, <3>2
  <2>5. DOMAIN rc.work[w].rows = {}
    BY <2>1 DEF NoWork
  <2>6. ASSUME NEW f \in Files \ rc'.todo, NEW i \in DOMAIN disk'[f]
        PROVE  \/ disk'[f][i].ord < nextOrd
               \/ \E v \in Workers : \E j \in DOMAIN rc'.work[v].rows :
                     rc'.work[v].rows[j].ord >= disk'[f][i].ord
    <3>1. CASE f # g
      <4>1. disk'[f] = disk[f] /\ f \in Files \ rc.todo
        BY <1>0, <2>1, <2>4, <3>1
      <4>2. CASE disk[f][i].ord < nextOrd
        BY <4>1, <4>2
      <4>3. ASSUME NEW v \in Workers, NEW j \in DOMAIN rc.work[v].rows,
                   rc.work[v].rows[j].ord >= disk[f][i].ord
            PROVE  \E u \in Workers : \E k \in DOMAIN rc'.work[u].rows :
                     rc'.work[u].rows[k].ord >= disk'[f][i].ord
        <5>1. rc'.work[v] = rc.work[v]
          BY <2>4, <2>5
        <5> QED BY <4>1, <4>3, <5>1
      <4> QED BY <2>3, <4>1, <4>2, <4>3
    <3>2. CASE f = g
      <4>1. disk'[f] = TornTailCut(f)
        BY <1>0, <2>1, <3>2
      <4>2. /\ TornTailCut(f) \in Log
            /\ \A k \in 1..Len(TornTailCut(f)) : TornTailCut(f)[k] = disk[f][k]
        BY <2>1, <3>2, TailCutType
      <4>3. i \in 1..Len(TornTailCut(f)) /\ disk'[f][i] = disk[f][i]
        BY <4>1, <4>2 DEF Log
      <4>4. \/ disk[f][i].ord < nextOrd
            \/ \E j \in DOMAIN RowsOf(f) : RowsOf(f)[j].ord >= disk[f][i].ord
        BY <2>1, <2>3, <4>3, TakenRows
      <4> QED BY <2>4, <3>2, <4>3, <4>4
    <3> QED BY <3>1, <3>2
  <2> QED BY <2>2, <2>3, <2>4, <2>6 DEF OrdsRecovering
<1>4. ASSUME NEW w \in Workers, RecoverRow(w) PROVE OrdsRecovering'
  <2>1. PICK g \in Files, r \in Row0 :
             /\ rc.work[w].rows # <<>> /\ r = rc.work[w].rows[1]
             /\ mode = "recovering" /\ nextOrd' = OrdAfter(r)
             /\ \/ Len(rc.work[w].rows) = 1 /\ rc' = [rc EXCEPT !.work[w] = NoWork]
                \/ /\ Len(rc.work[w].rows) > 1
                   /\ rc' = [rc EXCEPT !.work[w] = [file |-> g, rows |-> Tail(rc.work[w].rows)]]
    BY <1>4, RecoveredRow
  <2>2. UNCHANGED <<snap, disk>>
    BY <1>4 DEF RecoverRow, onDisk
  <2>3. PICK rows \in Seq(Row0) : rows = rc.work[w].rows
    <3>1. rc.work[w] \in {NoWork} \cup [file : Files, rows : Seq(Row0) \ {<<>>}]
      BY <1>0 DEF Work
    <3>2. rc.work[w] # NoWork
      BY <2>1 DEF NoWork
    <3> QED BY <3>1, <3>2
  <2>3a. /\ Tail(rows) \in Seq(Row0) /\ Len(Tail(rows)) = Len(rows) - 1 /\ Len(rows) \in Nat
         /\ \A i \in 1..Len(Tail(rows)) : Tail(rows)[i] = rows[i + 1]
         /\ DOMAIN rows = 1..Len(rows) /\ DOMAIN Tail(rows) = 1..Len(Tail(rows))
    <3>1. rows # <<>>
      BY <2>1, <2>3
    <3> QED BY <3>1, HeadTailProperties
  <2>4. /\ rc'.wms = rc.wms /\ rc'.todo = rc.todo
        /\ rc'.work[w].rows = Tail(rc.work[w].rows)
        /\ \A v \in Workers \ {w} : rc'.work[v] = rc.work[v]
    <3>1. CASE Len(rc.work[w].rows) = 1 /\ rc' = [rc EXCEPT !.work[w] = NoWork]
      <4>1. Len(Tail(rows)) = 0
        BY <2>3, <2>3a, <3>1
      <4>2. Tail(rows) = <<>>
        BY <2>3a, <4>1, EmptySeq
      <4> QED BY <1>0, <2>3, <3>1, <4>2 DEF NoWork
    <3>2. CASE rc' = [rc EXCEPT !.work[w] = [file |-> g, rows |-> Tail(rc.work[w].rows)]]
      BY <1>0, <3>2
    <3> QED BY <2>1, <3>1, <3>2
  <2>5. nextOrd' >= nextOrd /\ r.ord < nextOrd' /\ r.ord \in Nat
    BY <1>0, <2>1 DEF OrdAfter, Larger, Row0
  <2>6. ASSUME NEW f \in Files \ rc.todo, NEW i \in DOMAIN disk[f]
        PROVE  \/ disk[f][i].ord < nextOrd'
               \/ \E v \in Workers : \E j \in DOMAIN rc'.work[v].rows :
                     rc'.work[v].rows[j].ord >= disk[f][i].ord
    <3>1. PICK o \in Nat : o = disk[f][i].ord
      BY <1>0
    <3>2. CASE o < nextOrd
      BY <1>0, <2>5, <3>1, <3>2
    <3>3. ASSUME NEW v \in Workers, NEW j \in DOMAIN rc.work[v].rows, rc.work[v].rows[j].ord >= o
          PROVE  \/ o < nextOrd'
                 \/ \E u \in Workers : \E k \in DOMAIN rc'.work[u].rows :
                       rc'.work[u].rows[k].ord >= o
      <4>1. CASE v # w
        BY <2>4, <3>3, <4>1
      <4>2. CASE v = w /\ j = 1
        BY <1>0, <2>1, <2>5, <3>3, <4>2
      <4>3. CASE v = w /\ j # 1
        <5>1. j \in 1..Len(rows) /\ j # 1
          BY <2>3, <2>3a, <3>3, <4>3
        <5>2. j - 1 \in 1..Len(Tail(rows)) /\ (j - 1) + 1 = j
          BY <2>3a, <5>1
        <5>3. j - 1 \in DOMAIN Tail(rows) /\ Tail(rows)[j - 1] = rows[j]
          BY <2>3a, <5>2
        <5> QED BY <2>3, <2>4, <3>3, <4>3, <5>3
      <4> QED BY <4>1, <4>2, <4>3
    <3>4. \/ o < nextOrd
          \/ \E v \in Workers : \E j \in DOMAIN rc.work[v].rows : rc.work[v].rows[j].ord >= o
      BY <2>1, <3>1 DEF OrdsRecovering
    <3>5. \/ o < nextOrd'
          \/ \E v \in Workers : \E j \in DOMAIN rc'.work[v].rows : rc'.work[v].rows[j].ord >= o
      <4>1. CASE o < nextOrd
        BY <1>0, <2>5, <4>1
      <4>2. CASE ~(o < nextOrd)
        BY <3>3, <3>4, <4>2
      <4> QED BY <4>1, <4>2
    <3> QED BY <3>1, <3>5
  <2> QED BY <2>1, <2>2, <2>4, <2>6 DEF OrdsRecovering
<1>5. Open \/ UNCHANGED vars \/ \E w \in Workers : TakeFile(w) \/ RecoverRow(w)
  <2>1. mode \in {"open", "closed", "recovering"}
    BY DEF Types, IndexTypes
  <2>2. Recovered => mode' = "open"
    BY DEF Recovered
  <2> QED BY <2>1, <2>2, ModeSteps
<1> QED BY <1>1, <1>2, <1>3, <1>4, <1>5

\* OrdsAlwaysAhead: alloc_ord never gives out an ord that a record in the log
\* already has, whatever was lost in a crash, however the recovering threads
\* interleave, and whether the ords come from the snapshot, from hints or from
\* the data (load_recovery_snapshots, fold_one, advance_ord): ord order stays
\* the order of the writes.
THEOREM OrdsAlwaysAhead ==
    ASSUME Tidy
    PROVE  Spec => []OrdsStayAhead
<1> DEFINE IInv == Types /\ Places /\ Calm /\ Hints /\ Batches /\ Ords
<1>1. Init => IInv
  <2>1. Init => Batches /\ Ords
    BY DEF Init, Batches, Ords, OrdsInUse, MarksInUse, OrdsSaved, OrdsRecovering, Writing,
           Copies, Idle
  <2> QED BY <2>1, TypesInit, PlacesInit, CalmInit, HintsInit
<1>2. IInv /\ [Next]_vars => IInv'
  <2> SUFFICES ASSUME Types, Places, Calm, Hints, Batches, OrdsInUse, MarksInUse, OrdsSaved,
                      OrdsRecovering, [Next]_vars
               PROVE  IInv'
    BY DEF Ords
  <2>1. Types' /\ Places' /\ Calm'
    BY TypesKept, PlacesKept, CalmKept
  <2>2. Hints'
    BY <2>1, HintsKept
  <2>3. Batches'
    BY <2>1, GrowingSteps, BatchesKept
  <2>4. OrdsInUse' /\ MarksInUse' /\ OrdsSaved' /\ OrdsRecovering'
    BY <2>1, OrdsInUseKept, MarksKept, OrdsSavedKept, OrdsRecoveringKept
  <2> QED BY <2>1, <2>2, <2>3, <2>4 DEF Ords
<1>3. IInv => OrdsStayAhead
  <2>1. Types => present \subseteq Files
    BY DEF Types, DiskTypes
  <2> QED BY <2>1 DEF Ords, OrdsInUse, OrdsStayAhead
<1> QED BY <1>1, <1>2, <1>3, PTL DEF Spec
=============================================================================
