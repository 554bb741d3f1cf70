----------------------------- MODULE MCReading -----------------------------
(***************************************************************************)
(* What readers do while others change what they read.  A behaviour is one *)
(* of these, and the variables of the others do not change:                *)
(*   handles  Reads: gets and folds beside rolls and merges                *)
(*   table    SeqTable: lock-free look-ups beside a shard's writer         *)
(*   build    RunBuilder: a run is built, spilled, merged and probed       *)
(*   scan     RangeScan: a cursor over two runs and a delta beside writes  *)
(***************************************************************************)
EXTENDS Reads, TLC

CONSTANTS
    Allowed,       \* what README section 6 describes: {} in the passing run
    k1, k2, k3, va, vb, None

VARIABLES
    part,
    tab, mem, wr, rd, count,
    added, buf, spills, srcs, out, pc, drop,
    live, index, it, got, writes, since

handles == vars
table   == <<tab, mem, wr, rd, count>>
build   == <<added, buf, spills, srcs, out, pc, drop>>
scan    == <<live, index, it, got, writes, since>>

-----------------------------------------------------------------------------
(* Reads.  Unless Allowed says otherwise, nothing is deleted that a fold   *)
(* still needs and has no handle on; a fold and a call do not overlap, for *)
(* they share nothing but the handles.                                     *)
Deleted == disk.files \ disk'.files
Needed == {fold.snap[k].file : k \in fold.todo}

(* From the snapshot to the handles, nothing the snapshot needs; and after *)
(* that, not the file that was active then and is without a handle.        *)
WindowKept == fold.pc \in {"list", "pin"} => Deleted \intersect Needed = {}
SparedKept == fold.pc = "next" => Deleted \intersect {fold.spared} \intersect Needed = {}

HandlesNext ==
    /\ Next
    /\ fold'.pc = "idle" \/ used'.calls = 0
    /\ "window" \in Allowed \/ WindowKept
    /\ "rolled" \in Allowed \/ SparedKept

-----------------------------------------------------------------------------
(* Three keys: two of one hash, whose home is the last slot, and one at    *)
(* home in the first.                                                      *)
HashOf == k1 :> 3 @@ k2 :> 3 @@ k3 :> 4
T == INSTANCE SeqTable WITH
    Keys <- {k1, k2, k3}, Vals <- {va, vb}, Readers <- {1}, Long <- {k3},
    Hash <- HashOf, MinBuckets <- 2, ReclaimAt <- 2,
    Attempts <- 2, MaxOps <- 4, MaxCalls <- 1

(* The writer begins with one value for k1 and for k3, and the reader      *)
(* looks when these are there; the rest is free.                            *)
SameStart ==
    /\ count'.ops = count.ops + 1 =>
        /\ count.ops = 0 => wr'.key = k1
        /\ count.ops = 1 => wr'.key = k3 /\ wr'.val = tab.truth[k1]
    /\ rd' # rd => count.ops >= 3

-----------------------------------------------------------------------------
(* Keys of two characters that share prefixes.                             *)
Row(key, ord, tomb, loc) == [key |-> key, ord |-> ord, tomb |-> tomb, loc |-> loc]
NoLoc == [file |-> 0, ts |-> 0]
BuildKeys == {<<1>>, <<1, 1>>, <<1, 2>>, <<2>>}
OfferedRows ==
    {Row(k, 3, FALSE, [file |-> f, ts |-> (3 * f + Len(k)) % 5]) : k \in BuildKeys, f \in {1, 2}}
        \union {Row(k, 2 * Len(k), TRUE, NoLoc) : k \in BuildKeys}
Probes == BuildKeys \union {<<>>, <<1, 1, 1>>, <<2, 2>>}

B == INSTANCE RunBuilder WITH
    BlockTarget <- 10, W <- 5, SpillAt <- 2, MaxRows <- 4, Offered <- OfferedRows, Probes <- Probes

-----------------------------------------------------------------------------
(* Two runs and a delta with up to two rows each.  The ordinals rise with  *)
(* age, but a merge of runs may have put a newer row below an older.       *)
X == <<1>>
Y == <<1, 1>>
Z == <<2>>
Has(k, o)   == Row(k, o, FALSE, NoLoc)
Hasnt(k, o) == Row(k, o, TRUE, NoLoc)
Views == {[runs |-> <<a, b>>, delta |-> d] :
    a \in {<<Has(X, 1), Has(Y, 2), Has(Z, 3)>>, <<Has(X, 8), Hasnt(Y, 2), Has(Z, 3)>>, <<>>},
    b \in {<<Hasnt(X, 4), Has(Y, 5)>>, <<Has(Y, 5), Has(Z, 6)>>},
    d \in {<<>>, <<Has(Z, 8), Hasnt(Y, 9)>>, <<Hasnt(X, 9), Has(Z, 10), Has(X, 11)>>,
           <<Has(Y, 9), Has(Y, 9), Hasnt(Z, 12)>>}}

Bounds == {<<<<>>, <<>>>>, <<Y, <<>>>>, <<X, Z>>, <<Y, Y>>}

C == INSTANCE RangeScan WITH
    BlockTarget <- 10, W <- 16, Keys <- {X, Y, Z}, Views <- Views, Ranges <- Bounds,
    Prefetch <- {1, 2}, Threads <- 2, Metas <- {0, 2}, Wanted <- {{0, 2}, {2}},
    MaxWrites <- 1, MaxFails <- 1

-----------------------------------------------------------------------------
NoTable == tab = 0 /\ mem = 0 /\ wr = 0 /\ rd = 0 /\ count = 0
NoBuild == added = 0 /\ buf = 0 /\ spills = 0 /\ srcs = 0 /\ out = 0 /\ pc = 0 /\ drop = 0
NoScan  == live = 0 /\ index = 0 /\ it = 0 /\ got = 0 /\ writes = 0 /\ since = 0

ReadingInit ==
    /\ Init
    /\ \/ part = "handles" /\ NoTable /\ NoBuild /\ NoScan
       \/ part = "table" /\ T!Init /\ NoBuild /\ NoScan
       \/ part = "build" /\ B!Init /\ NoTable /\ NoScan
       \/ part = "scan" /\ C!Init /\ NoTable /\ NoBuild
ReadingNext ==
    /\ part' = part
    /\ \/ part = "handles" /\ HandlesNext /\ UNCHANGED <<table, build, scan>>
       \/ part = "table" /\ T!Next /\ SameStart /\ UNCHANGED <<handles, build, scan>>
       \/ part = "build" /\ B!Next /\ UNCHANGED <<handles, table, scan>>
       \/ part = "scan" /\ C!Next /\ UNCHANGED <<handles, table, build>>
ReadingSpec == ReadingInit /\ [][ReadingNext]_<<part, handles, table, build, scan>>

-----------------------------------------------------------------------------
\* A look-up without a lock answers what the table held at some moment of the
\* call, and reads no memory that was freed (SeqTable).
LookupsAreSound == part = "table" => T!AnswersWereTrue /\ T!ReadsLiveMemory

\* The run that is written holds of every key the newest row it was given, and a
\* probe finds it (RunBuilder); a scan gives, in order and each once, the keys that
\* were there all along, and no key that was never there (RangeScan).
RunsAndScansAreRight ==
    /\ part = "build" => B!RunIsNewest
    /\ part = "scan" => C!ScanIsFair

Symmetric == Permutations({va, vb})
=============================================================================
