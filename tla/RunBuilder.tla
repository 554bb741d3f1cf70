------------------------------ MODULE RunBuilder ------------------------------
(***************************************************************************)
(* SpillingRunBuilder of src/fileops/oki_run.cpp: rows come in any order,  *)
(* the same key many times, and leave as one sorted run that holds the     *)
(* newest of each key.  What does not fit in memory is spilled into small  *)
(* runs, which are merged at the end.                                      *)
(***************************************************************************)
EXTENDS RunFormat

CONSTANTS
    Offered,          \* the rows a caller may add
    SpillAt,        \* rows kept in memory
    MaxRows,        \* bound: how many rows are added
    Probes          \* the keys asked for afterwards

VARIABLES
    added,      \* every row given, in order
    buf,        \* the rows in memory, each with its number
    spills,     \* the runs spilled
    srcs,       \* while merging: what is left of each source
    out,        \* the writer of the run
    pc,
    drop        \* are tombstones dropped

vars == <<added, buf, spills, srcs, out, pc, drop>>

Init ==
    /\ added = <<>> /\ buf = <<>> /\ spills = <<>> /\ srcs = <<>>
    /\ out = NewWriter
    /\ pc = "adding"
    /\ drop \in BOOLEAN

-----------------------------------------------------------------------------
Newer_Early(a, b) == a.row.ord > b.row.ord \/ (a.row.ord = b.row.ord /\ a.seq < b.seq)
Newer(a, b) == a.row.ord > b.row.ord \/ (a.row.ord = b.row.ord /\ a.seq > b.seq)

(* sort_dedup: by key, and the newest row of each. *)
SortDedup(rows) ==
    LET newest == {r \in ToSet(rows) : \A s \in ToSet(rows) :
                      (s.row.key = r.row.key /\ s # r) => Newer(r, s)}
    IN  SetToSortSeq({r.row : r \in newest}, LAMBDA a, b : Less(a.key, b.key))

AddRow(r) ==
    /\ pc = "adding"
    /\ Len(added) < MaxRows
    /\ added' = Append(added, r)
    /\ LET grown == Append(buf, [row |-> r, seq |-> Len(added)])
       IN  IF Len(grown) >= SpillAt
           THEN buf' = <<>> /\ spills' = Append(spills, WriteRun(SortDedup(grown)))
           ELSE buf' = grown /\ UNCHANGED spills
    /\ UNCHANGED <<srcs, out, pc, drop>>

(* finish: the spilled runs in order, and last what memory still holds.    *)
StartMerge ==
    /\ pc = "adding"
    /\ srcs' = [i \in 1..Len(spills) |-> From(spills[i], 1)] \o <<SortDedup(buf)>>
    /\ pc' = "merging"
    /\ UNCHANGED <<added, buf, spills, out, drop>>

Heads == {i \in DOMAIN srcs : srcs[i] # <<>>}
LowestKey == CHOOSE k \in {Head(srcs[i]).key : i \in Heads} :
                \A i \in Heads : ~Less(Head(srcs[i]).key, k)

Beats(i, j) ==
    \/ Head(srcs[i]).ord > Head(srcs[j]).ord
    \/ Head(srcs[i]).ord = Head(srcs[j]).ord /\ i > j

(* The lowest key, the newest of its rows; every source with it goes on.   *)
MergeKey ==
    /\ pc = "merging"
    /\ Heads # {}
    /\ LET same == {i \in Heads : Head(srcs[i]).key = LowestKey}
           win == CHOOSE i \in same : \A j \in same \ {i} : Beats(i, j)
           r == Head(srcs[win])
       IN  /\ out' = IF drop /\ r.tomb THEN out ELSE Add(out, r)
           /\ srcs' = [i \in DOMAIN srcs |-> IF i \in same THEN Tail(srcs[i]) ELSE srcs[i]]
    /\ UNCHANGED <<added, buf, spills, pc, drop>>

MergeDone ==
    /\ pc = "merging"
    /\ Heads = {}
    /\ pc' = "done"
    /\ spills' = <<>>
    /\ buf' = <<>>
    /\ UNCHANGED <<added, srcs, out, drop>>

Next == StartMerge \/ MergeKey \/ MergeDone \/ \E r \in Offered : AddRow(r)

Spec == Init /\ [][Next]_vars

-----------------------------------------------------------------------------
(* The reference: of every key the row that came last among its highest    *)
(* ordinal, without the keys whose row is a tombstone when those go.       *)
Latest(k) ==
    LET of == {i \in DOMAIN added : added[i].key = k}
        top == {i \in of : \A j \in of : added[j].ord <= added[i].ord}
    IN  added[Max(top)]
Kept == {r \in {Latest(added[i].key) : i \in DOMAIN added} : ~(drop /\ r.tomb)}

(* What is written, read from the start, is the newest row of each key in  *)
(* the order of the keys, whichever rows were spilled together; reading    *)
(* from any key gives exactly the rows from there on, and a look-up finds  *)
(* the row of a key that is there, by the filter and by the blocks.        *)
RunIsNewest ==
    pc = "done" =>
        LET run == Finish(out)
            whole == SetToSortSeq(Kept, LAMBDA a, b : Less(a.key, b.key))
        IN  /\ out.ok
            /\ Opens(run)
            /\ From(run, 1) = whole
            /\ \A k \in Probes :
                /\ Seek(run, k) = SelectSeq(whole, LAMBDA r : ~Less(r.key, k))
                /\ Find(run, k) = SelectSeq(whole, LAMBDA r : r.key = k)
                /\ Find(run, k) # <<>> => MayContain(run, k, {})
=============================================================================
