--------------------------- MODULE MCStoreMerges ---------------------------
(***************************************************************************)
(* Merges.  The constants of the cfg allow more than one run can visit, so *)
(* a behaviour is kept to one of three kinds:                              *)
(*   apart   it begins with a sync(), which has nothing to do: the calls,  *)
(*           a checkpoint and a merge of the oldest files one after        *)
(*           another, with crashes and one recovering thread               *)
(*   beside  a merge of any subset of the files beside a writer that also  *)
(*           removes and writes batches, without a crash                   *)
(*   twice   puts beside two merges in a row, with a process that dies and *)
(*           a recovery by two threads                                     *)
(***************************************************************************)
EXTENDS MCStore

CONSTANTS w1, w2

LimitMerges == Times(3, 1, 1, 2, 1, 0)

Marked == used["sync"] = 1
MarkedFirst == used'["sync"] = used["sync"] \/ used["write"] = 0

Busy(x)   == x.pc # "idle"
OldestIn  == "ins" \in DOMAIN mg =>
                \A f \in mg.ins, g \in present \ {active, mg.out} : g <= f => g \in mg.ins
Alternate == ~(Busy(wr) /\ (Busy(mg) \/ Busy(ck))) /\ ~(Busy(mg) /\ Busy(ck))
Batched   == Busy(wr) /\ wr.kind = "batch"
Tombs     == \E k \in Keys : \E v \in DOMAIN hist[k] : hist[k][v]

Apart  == Alternate /\ OldestIn /\ ~Batched /\ used["merge"] <= 1 /\ rc.work[w2] = NoWork
Beside == /\ Batched => used["write"] = 3
          /\ used["crash"] = 0 /\ used["ckpt"] = 0 /\ used["merge"] <= 1
Twice  == ~Tombs /\ ~Batched /\ used["ckpt"] = 0

\* Beside a merge: every save fails, the crash is the process's, it comes late
\* and is the end but for the recovery; the last calls overlap.
Spends(b, n) == used'[b] = n /\ used[b] < n
LateCrash == /\ mode' = "closed" => UNCHANGED onDisk
             /\ Spends("crash", 1) => used["write"] = 3 /\ used["merge"] = 2 /\ Busy(mg)
             /\ used["crash"] = 1 => used' = used
Overlapping == /\ Spends("write", 3) => Busy(mg)
               /\ Spends("merge", 2) => Busy(wr)
Limits ==
    /\ MarkedFirst
    /\ IF Marked' THEN Apart'
       ELSE (Beside \/ Twice)' /\ snap' = <<>> /\ LateCrash /\ Overlapping
=============================================================================
