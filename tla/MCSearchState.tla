--------------------------- MODULE MCSearchState ---------------------------
(***************************************************************************)
(* What a library with a search index keeps.  A behaviour is one of these, *)
(* and the variables of the other do not change:                           *)
(*   saved   Checkpoint: the document map, the search files and the keydir *)
(*           snapshot are saved, and recovered after a crash               *)
(*   text    TextIndex: segments are filled, sealed, merged and searched   *)
(*                                                                         *)
(* The passing run keeps out the orders of events in which the code loses  *)
(* or resurrects something (README section 6); Allowed lets them in again, *)
(* one by one.  In Checkpoint:                                             *)
(*   gap       an ord is out while a checkpoint captures what it covers    *)
(*   reissue   an ord that the saved files cover is given out again        *)
(*   shadow    the power fails after a snapshot of a key's newer record    *)
(*   relocate  the lane applies while a merge updates the document map     *)
(*   copy      a key is deleted while a merge writes its copy              *)
(*   refold    the fold meets the records in another order than the ords'  *)
(*   ahead     the keydir snapshot at a merge's end is ahead of its base   *)
(*   behind    a plugin's write fails and the manifest is committed        *)
(*             without it, while the plugin counts as sound                *)
(* in TextIndex:                                                           *)
(*   ghost     a dead mark waits on a segment whose marks are being copied *)
(*   sidecar   a segment takes the name of an uncommitted one that left    *)
(*             its dead marks behind                                       *)
(*   window    a query looks while a segment is between its slot and the   *)
(*             list                                                        *)
(*   swap      a query looks while a merged segment is beside its inputs   *)
(*   fill      an answer is kept after the words it depends on were        *)
(*             written                                                     *)
(***************************************************************************)
EXTENDS Checkpoint, TLC

CONSTANTS
    k1, k2,
    MaxWait,  \* bound: operations the lane has not applied
    Parts,    \* the behaviours looked at
    TextOrds, TextFlushes, TextQueries,  \* bounds of TextIndex
    Allowed   \* the orders of events let in: {} in the passing run

VARIABLES part, log, at, objs, slot, set, loc, wk, red, tdisk, qry, tused

texts == <<log, at, objs, slot, set, loc, wk, red, tdisk, qry, tused>>

X == INSTANCE TextIndex WITH
    disk <- tdisk, used <- tused, Keys <- {k1, k2}, Builders <- {1, 2}, QueueCap <- 1,
    SegCap <- 2, FanIn <- 2, MaxOrd <- TextOrds, MaxFlush <- TextFlushes, MaxCrash <- 1,
    MaxQueries <- TextQueries

-----------------------------------------------------------------------------
(* Checkpoint.                                                             *)

Taken(whats) == Len(ops') > Len(ops) /\ Last(ops').what \in whats
Reopened ==
    \/ used'.crashes # used.crashes
    \/ used'.tasks # used.tasks /\ cap' = cap /\ merge' = merge /\ LaneIdle

\* An ord is written before anything else happens, and none is taken from a
\* checkpoint's own ord to its submission.
QuietCapture ==
    /\ pend # 0 => pend' = 0 /\ ops' = ops /\ used' = used
    /\ Taken({"put", "del"}) => cap = NoCap /\ merge.pc \notin {"wms", "ord", "submit"}

\* An ord the saved files cover is not given out again.
OrdsGoOn == Reopened => lane'.next >= disk'.man.doc.wm

\* What a power loss drops was not in the keydir when the snapshot was saved.
CalmSnapshot ==
    Reopened => \A o \in OrdsOn(disk) \ OrdsOn(disk') : o >= disk'.snap.next

\* The lane waits while a copy is told to the document map.
AtomicRelocate == merge.pc \in {"get", "put"} => lane' = lane

\* The fold meets the records in the order of their ords, and what it skips
\* lies below what the saved document map covers.
InOrder(fold) == \A i, j \in DOMAIN fold : i < j => fold[i].ord < fold[j].ord
Covered(fold) ==
    disk'.man.kept =>
        \A o \in OrdsOn(disk') \ {fold[i].ord : i \in DOMAIN fold} : o < disk'.man.doc.wm
PlainReplay ==
    Reopened => \A wms \in {Loading(disk').wms} : \A fold \in {ToFold(disk', wms)} :
        /\ "refold" \in Allowed \/ InOrder(fold)
        /\ "ahead"  \in Allowed \/ Covered(fold)

\* A record is not deleted while its copy is being written.
CopyStaysLive == merge.pc = "swap" /\ merge' # merge => kd[merge.key].ord = merge.ord

\* A plugin whose write failed has had a base, and has none on disk now: the
\* next open finds it unsound.
NoneBehind ==
    disk'.man # disk.man =>
        /\ disk'.man.text # NoChain /\ disk'.man.vec # NoChain
        /\ vec'.dirty => disk'.vec.gen # disk'.man.vec.base

\* Bound: operations the lane has not applied.
FewWait == Len(ops') - lane'.next < MaxWait

CheckpointCalm ==
    /\ FewWait
    /\ "gap"      \in Allowed \/ QuietCapture
    /\ "reissue"  \in Allowed \/ OrdsGoOn
    /\ "shadow"   \in Allowed \/ CalmSnapshot
    /\ "relocate" \in Allowed \/ AtomicRelocate
    /\ "copy"     \in Allowed \/ CopyStaysLive
    /\ "behind"   \in Allowed \/ NoneBehind
    /\ PlainReplay

-----------------------------------------------------------------------------
(* TextIndex.                                                              *)

NoLateMark == \A s \in X!Slots :
    wk[s].pc = "repoint" /\ wk'[s].pc # "repoint" =>
        wk[s].old \notin {wk[t].mark.seg : t \in X!Slots} \union {red.mark.seg}

FreshName ==
    tused'.crashes = tused.crashes /\ set'.next # set.next => set.next \notin DOMAIN tdisk.lives

Looks == qry.pc = "list" /\ qry' # qry
NoWindow ==
    /\ Looks => \A s \in X!Slots : wk[s].pc # "save"
    /\ qry.pc = "slots" => slot' = slot
NoSwap == Looks => red.pc # "swap"
NoLateFill == qry.pc = "keep" => \A s \in X!Slots : wk[s].pc = "invalidate" => wk'[s] = wk[s]

\* A query before two documents were written has nothing to miss.
LateQuery == qry.pc = "idle" /\ qry' # qry => Len(log) >= 2

TextCalm ==
    /\ LateQuery
    /\ "ghost"   \in Allowed \/ NoLateMark
    /\ "sidecar" \in Allowed \/ FreshName
    /\ "window"  \in Allowed \/ NoWindow
    /\ "swap"    \in Allowed \/ NoSwap
    /\ "fill"    \in Allowed \/ NoLateFill

-----------------------------------------------------------------------------
SearchStateInit == part \in Parts /\ Init /\ X!Init /\ (part = "saved" => red = X!Rest(FALSE))
SearchStateNext ==
    /\ part' = part
    /\ \/ part = "saved" /\ Next /\ CheckpointCalm /\ UNCHANGED texts
       \/ part = "text" /\ X!Next /\ TextCalm /\ UNCHANGED vars
SearchStateSpec == SearchStateInit /\ [][SearchStateNext]_<<part, vars, texts>>

-----------------------------------------------------------------------------
\* No document has two live rows in the segments, so that none is counted or
\* returned twice, whatever merges, seals and recoveries did; and a query finds what
\* was indexed before it began and no document that was dead by then, whatever the
\* workers move in the meantime (TextIndex).
SegmentsAnswer == part = "text" => X!OneLiveRow /\ X!AnswersComplete

Symmetric == Permutations({k1, k2})
ASSUME X!TextIndexAssumption
=============================================================================
