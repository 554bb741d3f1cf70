------------------------------ MODULE RangeScan ------------------------------
(***************************************************************************)
(* The ordered range iterator: src/cask/cask_range_iter.cpp over the runs  *)
(* of RunFormat and the delta of src/fileops/oki_state.cpp.  It merges a   *)
(* frozen view of the index by key, and looks every key up in the keydir   *)
(* at the time: alone, or a batch ahead by several threads.  Meanwhile     *)
(* keys are put and removed.                                               *)
(***************************************************************************)
EXTENDS RunFormat

CONSTANTS
    Keys,
    Views,          \* the runs and deltas an index may have: sequences of rows
    Ranges,         \* pairs of lowest key and end, <<>> for none
    Prefetch,       \* batch sizes
    Threads,        \* threads of a batch
    Metas,          \* what a value's meta may be; 0 is none
    Wanted,         \* filters: sets of metas, or all of them for none
    MaxWrites,      \* bounds: writes and failing reads during the scan
    MaxFails

VARIABLES
    live,       \* what a key has now: a meta, or nothing
    index,      \* the runs, the delta as it came
    it,         \* the iterator
    got,        \* what the caller has had
    writes,
    since       \* for each key what it has been since the scan began

vars == <<live, index, it, got, writes, since>>

Nothing == -1
Asleep == [pc |-> "none", lo |-> <<>>, hi |-> <<>>, batch |-> 1, filter |-> {}, srcs |-> <<>>,
           done |-> FALSE, todo |-> <<>>, slots |-> <<>>, left |-> {}, buf |-> <<>>, ok |-> TRUE, fails |-> 0]

NewestRow(k, rowsets) ==
    LET of == {r \in UNION {ToSet(rows) : rows \in rowsets} : r.key = k}
    IN  {r \in of : \A s \in of : s.ord <= r.ord}

(* A key is there when its newest row is no tombstone; its value may have  *)
(* run out nevertheless, and the row stays.                                *)
Init ==
    /\ index \in Views
    /\ live \in [Keys -> {Nothing} \union Metas]
    /\ \A k \in Keys : live[k] # Nothing =>
        \E r \in NewestRow(k, {index.delta} \union ToSet(index.runs)) : ~r.tomb
    /\ it = Asleep
    /\ got = <<>>
    /\ writes = 0
    /\ since = [k \in Keys |-> {}]

-----------------------------------------------------------------------------
(* make_read_view: the delta sorted, of equal keys the newest row.         *)
SortedDelta(rows) ==
    LET last == {i \in DOMAIN rows : \A j \in DOMAIN rows : (rows[j].key = rows[i].key /\ j # i) =>
                    (rows[j].ord < rows[i].ord \/ (rows[j].ord = rows[i].ord /\ j < i))}
    IN  SetToSortSeq({rows[i] : i \in last}, LAMBDA a, b : Less(a.key, b.key))

(* make_range_iter: every run from its first row at or above lo. *)
Make ==
    /\ it.pc = "none"
    /\ \E range \in Ranges, n \in Prefetch, f \in Wanted :
        it' = [Asleep EXCEPT !.pc = "idle", !.lo = range[1], !.hi = range[2], !.batch = n, !.filter = f,
                  !.srcs = [i \in DOMAIN index.runs |-> Seek(WriteRun(index.runs[i]), range[1])]
                           \o <<SelectSeq(SortedDelta(index.delta), LAMBDA r : ~Less(r.key, range[1]))>>]
    /\ since' = [k \in Keys |-> {live[k]}]
    /\ UNCHANGED <<live, index, got, writes>>

(* next_merged_key: the lowest key of all sources, all its rows used up;   *)
(* the row with the highest ordinal says whether it is there.              *)
Heads == {i \in DOMAIN it.srcs : it.srcs[i] # <<>>}
LowestKey == CHOOSE k \in {Head(it.srcs[i]).key : i \in Heads} :
                \A i \in Heads : ~Less(Head(it.srcs[i]).key, k)
Same == {i \in Heads : Head(it.srcs[i]).key = LowestKey}
Decides(i) == \A j \in Same \ {i} :
    \/ Head(it.srcs[j]).ord < Head(it.srcs[i]).ord
    \/ Head(it.srcs[j]).ord = Head(it.srcs[i]).ord /\ i < j
PastEnd == Heads = {} \/ (it.hi # <<>> /\ ~Less(LowestKey, it.hi))

(* next: the buffer is empty, and a batch of keys is merged. *)
MergeKey ==
    /\ it.pc \in {"idle", "merge"}
    /\ it.buf = <<>>
    /\ ~it.done
    /\ Len(it.todo) < it.batch
    /\ it' = IF PastEnd THEN [it EXCEPT !.done = TRUE, !.pc = "merge"]
             ELSE LET win == CHOOSE i \in Same : Decides(i)
                  IN  [it EXCEPT !.pc = "merge",
                         !.srcs = [i \in DOMAIN it.srcs |-> IF i \in Same THEN Tail(it.srcs[i]) ELSE it.srcs[i]],
                         !.todo = IF Head(it.srcs[win]).tomb THEN @ ELSE Append(@, LowestKey)]
    /\ UNCHANGED <<live, index, got, writes, since>>

(* The batch is dealt out to the threads in pieces. *)
Deal ==
    /\ it.pc = "merge"
    /\ it.done \/ Len(it.todo) = it.batch
    /\ LET total == Len(it.todo)
           nthr == Min({Threads, total})
           chunk == (total + nthr - 1) \div nthr
       IN  it' = IF total = 0 THEN [it EXCEPT !.pc = "idle"]
                 ELSE [it EXCEPT !.pc = "fetch", !.ok = TRUE, !.slots = [i \in 1..total |-> Nothing],
                         !.left = {[at |-> (t - 1) * chunk + 1, last |-> Min({t * chunk, total})] :
                                     t \in {t \in 1..nthr : (t - 1) * chunk < total}}]
    /\ UNCHANGED <<live, index, got, writes, since>>

(* fetch_entry: what the key has now, if the filter takes it.  Without     *)
(* meta nothing passes a filter.                                           *)
Passes(m) == m # Nothing /\ (it.filter = Metas \/ (m # 0 /\ m \in it.filter))

Fetch ==
    /\ it.pc = "fetch"
    /\ \E th \in it.left :
        LET m == live[it.todo[th.at]]
            on == IF th.at = th.last THEN {} ELSE {[th EXCEPT !.at = @ + 1]}
        IN  \/ it' = IF ~it.ok THEN [it EXCEPT !.left = @ \ {th}]
                     ELSE [it EXCEPT !.left = (@ \ {th}) \union on,
                                     !.slots[th.at] = IF Passes(m) THEN m ELSE Nothing]
            \/ /\ it.ok
               /\ it.fails < MaxFails
               /\ m # Nothing
               /\ it' = [it EXCEPT !.left = @ \ {th}, !.ok = FALSE, !.fails = @ + 1]
    /\ UNCHANGED <<live, index, got, writes, since>>

(* The threads are joined, and what is left of the batch is in order.      *)
Collect ==
    /\ it.pc = "fetch"
    /\ it.left = {}
    /\ it' = [it EXCEPT !.pc = "idle", !.todo = <<>>, !.slots = <<>>,
                !.buf = IF ~it.ok THEN <<>>
                        ELSE SelectSeq([i \in DOMAIN it.todo |-> <<it.todo[i], it.slots[i]>>],
                                       LAMBDA e : e[2] # Nothing)]
    /\ UNCHANGED <<live, index, got, writes, since>>

Give ==
    /\ it.pc = "idle"
    /\ it.buf # <<>>
    /\ got' = Append(got, Head(it.buf))
    /\ it' = [it EXCEPT !.buf = Tail(@)]
    /\ UNCHANGED <<live, index, writes, since>>

(* Others write. *)
Write(k, m) ==
    /\ it.pc # "none"
    /\ writes < MaxWrites
    /\ live[k] # m
    /\ live' = [live EXCEPT ![k] = m]
    /\ since' = [since EXCEPT ![k] = @ \union {m}]
    /\ writes' = writes + 1
    /\ UNCHANGED <<index, it, got>>

Next ==
    \/ Make \/ MergeKey \/ Deal \/ Fetch \/ Collect \/ Give
    \/ \E k \in Keys, m \in {Nothing} \union Metas : Write(k, m)

Spec == Init /\ [][Next]_vars

-----------------------------------------------------------------------------
InRange(k) == ~Less(k, it.lo) /\ (it.hi = <<>> \/ Less(k, it.hi))

(* The caller gets keys of the range in rising order, each once, with a    *)
(* value it had during the scan and the filter takes; and when the scan is *)
(* over without an error, every key that was there all the time with       *)
(* values the filter takes.                                                *)
ScanIsFair ==
    /\ \A i \in 2..Len(got) : Less(got[i-1][1], got[i][1])
    /\ \A e \in ToSet(got) : InRange(e[1]) /\ e[2] \in since[e[1]] /\ Passes(e[2])
    /\ (it.done /\ it.pc = "idle" /\ it.buf = <<>> /\ it.fails = 0) =>
        {k \in Keys : InRange(k) /\ \A m \in since[k] : Passes(m)} \subseteq {e[1] : e \in ToSet(got)}
=============================================================================
