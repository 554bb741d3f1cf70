----------------------------- MODULE Checkpoint -----------------------------
(***************************************************************************)
(* The search checkpoint of a library with an index (src/cask/cask.cpp,    *)
(* src/keydir/docmap_ckpt.cpp, the flush and open of the text and vector   *)
(* plugins) and the recovery that starts from it (src/cask/                *)
(* cask_recovery.cpp).                                                     *)
(*                                                                         *)
(* Four stores describe the log: the keydir, the document map, the text    *)
(* segments and the vector graph.  A put reaches the log and the keydir    *)
(* under write_mu_; the index lane applies it to the other three in ord    *)
(* order, later.  A checkpoint is a task of that lane.  It saves each      *)
(* store as a base or as a delta on a base, commits them in index.manifest *)
(* and, with a base of the document map, saves a keydir snapshot; the      *)
(* bytes of the log that recovery may skip are captured before.            *)
(*                                                                         *)
(* An ord names an operation of ops; a file is the sequence of the ords it *)
(* holds; a place is a file's number.  All records have one timestamp.     *)
(***************************************************************************)
EXTENDS Integers, Sequences, FiniteSets, SequencesExt, FiniteSetsExt

CONSTANTS
    Keys,
    MaxChain,    \* max_delta_chain
    MaxOrd,      \* bound: ords given out
    MaxFile,     \* bound: data files, those an open starts not counted
    MaxTasks,    \* bound: checkpoints, closes and merges
    MaxFaults,   \* bound: failed writes of theirs
    MaxCrash,    \* bound: crashes
    Flaky,       \* which of the writes of a checkpoint may fail
    Texts        \* {TRUE}: every value has text; {TRUE, FALSE}: some are empty

ASSUME CheckpointAssumption ==
    /\ IsFiniteSet(Keys) /\ Texts \subseteq BOOLEAN
    /\ Flaky \subseteq {"doc", "segs", "text", "vec", "man", "snap"}
    /\ {MaxChain, MaxOrd, MaxFile, MaxTasks, MaxFaults, MaxCrash} \subseteq Nat

VARIABLES
    ops,      \* what each ord was given out for
    disk,     \* data files, checkpoint files, the manifest and the snapshot
    kd,       \* the keydir
    doc,      \* the document map (Index) and its chain
    text,     \* the text plugin: where each key's document is, and its chain
    vec,      \* the vector plugin: the graph, the insert log and its chain
    lane,     \* the index lane: the next ord to apply and the tasks that wait
    pend,     \* the ord write_mu_'s holder has taken and not yet used, or 0
    cap,      \* the checkpoint that captures its watermarks
    merge,    \* the merge in progress
    used      \* tasks, failed writes and crashes so far

vars == <<ops, disk, kd, doc, text, vec, lane, pend, cap, merge, used>>

NoEntry == [ord |-> 0, file |-> 0, tomb |-> TRUE]
NoRow   == [ord |-> 0, file |-> 0]
NoChain == [base |-> 0, seq |-> 0, wm |-> 0]
NoFile  == [gen |-> 0, data |-> {}]
NoSnap  == [kept |-> FALSE, rows |-> [k \in Keys |-> NoEntry], next |-> 1, wms |-> <<>>]
NoMan   == [kept |-> FALSE, doc |-> NoChain, text |-> NoChain, vec |-> NoChain]
NoMerge == [pc |-> "idle", out |-> 0, inputs |-> {}, todo |-> {}, key |-> CHOOSE k \in Keys : TRUE,
            ord |-> 0, base |-> 0, wms |-> <<>>]
NoCap   == [pc |-> "idle", ord |-> 0, wms |-> <<>>]

EmptyDoc  == [rows |-> [k \in Keys |-> NoRow], win |-> 0, rems |-> {}, dirty |-> FALSE,
              chain |-> NoChain]
EmptyText == [loc |-> [k \in Keys |-> NoEntry], dirty |-> TRUE, chain |-> NoChain]
EmptyVec  == [has |-> {}, max |-> 0, log |-> {}, win |-> 0, dirty |-> FALSE, rebase |-> TRUE,
              chain |-> NoChain]

\* The library has just been created: no manifest, so every flush is a base.
Init ==
    /\ ops = <<>>
    /\ disk = [files |-> <<<<>>>>, active |-> 1, synced |-> 0, gone |-> {}, retired |-> {},
               doc |-> NoFile, docPrev |-> NoFile, docDeltas |-> <<>>,
               text |-> [gen |-> 0, data |-> EmptyText.loc], vec |-> NoFile, vecPrev |-> NoFile, vecDeltas |-> <<>>,
               man |-> NoMan, snap |-> NoSnap]
    /\ kd = [k \in Keys |-> NoEntry]
    /\ doc = EmptyDoc /\ text = EmptyText /\ vec = EmptyVec
    /\ lane = [next |-> 1, tasks |-> {}, man |-> NoMan, rebase |-> TRUE]
    /\ pend = 0 /\ cap = NoCap /\ merge = NoMerge
    /\ used = [tasks |-> 0, faults |-> 0, crashes |-> 0]

NextOrd == Len(ops) + 1
Max0(S) == Max({0} \union S)
Op(what, k, t) == [what |-> what, key |-> k, text |-> t]
Control(what) == Op(what, CHOOSE k \in Keys : TRUE, FALSE)

-----------------------------------------------------------------------------
(* The rules by which each store takes an operation.                       *)

\* KeyDir::put of a replay: a tombstone yields to a greater ord (and one that
\* has none, to any), an entry to a later place.
KeyPut(d, k, o, f) ==
    LET e == d[k]
        accept == IF e.tomb THEN e.ord = 0 \/ o > e.ord
                  ELSE f > e.file \/ (f = e.file /\ o > e.ord)
    IN  IF accept THEN [d EXCEPT ![k] = [ord |-> o, file |-> f, tomb |-> FALSE]] ELSE d

KeyDel(d, k, o) ==
    [d EXCEPT ![k] = [ord |-> IF d[k].tomb THEN Max({o, d[k].ord}) ELSE o,
                      file |-> 0, tomb |-> TRUE]]

\* remove_if_older, which leaves a tombstone without an ord.
KeyDelOlder(d, k, o) == IF d[k].tomb \/ d[k].ord >= o THEN d ELSE [d EXCEPT ![k] = NoEntry]

\* Index::put_doc and remove: the last to come stays.
DocPut(d, k, o, f) == [d EXCEPT !.rows[k] = [ord |-> o, file |-> f], !.dirty = TRUE]
DocDel(d, k, o) ==
    [d EXCEPT !.rows[k] = NoRow, !.dirty = TRUE,
              !.rems = IF o >= d.win THEN @ \union {[key |-> k, ord |-> o]} ELSE @]

\* TextPlugin's upsert and on_delete: an older ord is dropped.
TextPut(t, k, o) ==
    [t EXCEPT !.dirty = TRUE,
              !.loc[k] = IF @.ord > o THEN @ ELSE [ord |-> o, file |-> 0, tomb |-> FALSE]]
TextDel(t, k, o) ==
    [t EXCEPT !.dirty = TRUE,
              !.loc[k] = IF @.ord > o THEN @ ELSE [ord |-> o, file |-> 0, tomb |-> TRUE]]

VecPut_Late(v, o) ==
    [v EXCEPT !.dirty = TRUE,
              !.log = IF o > v.win THEN @ \union {o} ELSE @,
              !.has = IF o > v.max THEN @ \union {o} ELSE @,
              !.max = Max({@, o})]

\* VectorPlugin::insert: the log takes what lies in the window, the graph what
\* is beyond its greatest ord.
VecPut(v, o) ==
    [v EXCEPT !.dirty = TRUE,
              !.log = IF o >= v.win THEN @ \union {o} ELSE @,
              !.has = IF o > v.max THEN @ \union {o} ELSE @,
              !.max = Max({@, o})]

-----------------------------------------------------------------------------
(* Writers.  The ord, the append and the keydir are one critical section   *)
(* of write_mu_; only a checkpoint, which does not take it, sees between.  *)

Biggest == Len(disk.files)

\* A put whose file a merge's output has passed goes to a new file.
Rolled(d) == [d EXCEPT !.files = Append(@, <<>>), !.active = Len(d.files) + 1, !.synced = 0]

TakeOrd(what, k, t) ==
    /\ pend = 0 /\ NextOrd <= MaxOrd
    /\ disk.active = Biggest \/ what = "del"
    /\ ops' = Append(ops, Op(what, k, t))
    /\ pend' = NextOrd
    /\ UNCHANGED <<disk, kd, doc, text, vec, lane, cap, merge, used>>

Write ==
    /\ pend # 0
    /\ disk' = [disk EXCEPT !.files[disk.active] = Append(@, pend)]
    /\ LET k == ops[pend].key
       IN  kd' = IF ops[pend].what = "put"
                 THEN [kd EXCEPT ![k] = [ord |-> pend, file |-> disk.active, tomb |-> FALSE]]
                 ELSE IF kd[k] = NoEntry THEN kd ELSE KeyDel(kd, k, pend)
    /\ pend' = 0
    /\ UNCHANGED <<ops, doc, text, vec, lane, cap, merge, used>>

Roll ==
    /\ pend = 0 /\ Biggest < MaxFile
    /\ disk.files[disk.active] # <<>> \/ disk.active # Biggest
    /\ disk' = Rolled(disk)
    /\ UNCHANGED <<ops, kd, doc, text, vec, lane, pend, cap, merge, used>>

-----------------------------------------------------------------------------
(* save_checkpoint_paired, as it goes: three components, the manifest and  *)
(* the snapshot.  A base is written after the one before has been renamed  *)
(* to .prev: a write that fails, or is cut off by a crash, leaves no base. *)
(* A component whose write fails keeps its old entry.                      *)

Chained(base, seq, wm) == [base |-> base, seq |-> seq, wm |-> wm]

RowsIn_Late(d, from, to) ==
    {[key |-> k, ord |-> d.rows[k].ord, file |-> d.rows[k].file] :
        k \in {k \in Keys : d.rows[k] # NoRow /\ d.rows[k].ord \in from + 1 .. to - 1}}

RowsIn(d, from, to) ==
    {[key |-> k, ord |-> d.rows[k].ord, file |-> d.rows[k].file] :
        k \in {k \in Keys : d.rows[k] # NoRow /\ d.rows[k].ord \in from .. to - 1}}

\* What a component's flush leaves: its files on disk, itself, and its entry.
Flushed(files, self, entry) == [disk |-> files, self |-> self, entry |-> entry]

CleanDoc(d, t, chain) == [d EXCEPT !.win = t.wm, !.rems = {}, !.dirty = FALSE, !.chain = chain]

DocRotated(f) == [f EXCEPT !.docPrev = IF f.doc = NoFile THEN @ ELSE f.doc, !.doc = NoFile]

DocBase(f, d, t, entry, ok) ==
    LET chain == Chained(t.wm, 0, t.wm)
    IN  IF ok THEN Flushed([DocRotated(f) EXCEPT !.doc = [gen |-> t.wm, data |-> d.rows],
                                                 !.docDeltas = <<>>],
                           CleanDoc(d, t, chain), chain)
        ELSE Flushed(DocRotated(f), d, entry)

DocDelta(f, d, t, entry, ok) ==
    LET seq == d.chain.seq + 1
        chain == Chained(d.chain.base, seq, t.wm)
        delta == [base |-> d.chain.base, from |-> d.chain.wm, wm |-> t.wm,
                  rows |-> RowsIn(d, d.chain.wm, t.wm), rems |-> d.rems, wms |-> t.wms]
    IN  IF ok THEN Flushed([f EXCEPT !.docDeltas = Append(SubSeq(@, 1, seq - 1), delta)],
                           CleanDoc(d, t, chain), chain)
        ELSE Flushed(f, d, entry)

\* The segments are committed before the base that lists them: of a base that is
\* not there (gen 0) an open still finds the segments committed last.
TextFlush(f, x, t, force, entry, bad) ==
    LET chain == Chained(t.wm, 0, t.wm)
    IN  IF ~x.dirty /\ ~force THEN Flushed(f, x, entry)
        ELSE IF "segs" \in bad THEN Flushed([f EXCEPT !.text.gen = 0], x, entry)
        ELSE IF "text" \in bad THEN Flushed([f EXCEPT !.text = [gen |-> 0, data |-> x.loc]], x, entry)
        ELSE Flushed([f EXCEPT !.text = [gen |-> t.wm, data |-> x.loc]],
                     [x EXCEPT !.dirty = FALSE, !.chain = chain], chain)

CleanVec(v, t, chain) ==
    [v EXCEPT !.win = t.wm, !.log = {}, !.dirty = FALSE, !.rebase = FALSE, !.chain = chain]

VecRotated(f) == [f EXCEPT !.vecPrev = IF f.vec = NoFile THEN @ ELSE f.vec, !.vec = NoFile]

VecBase(f, v, t, entry, ok) ==
    LET chain == Chained(t.wm, 0, t.wm)
    IN  IF ok THEN Flushed([VecRotated(f) EXCEPT !.vec = [gen |-> t.wm, data |-> v.has],
                                                 !.vecDeltas = <<>>],
                           CleanVec(v, t, chain), chain)
        ELSE Flushed(VecRotated(f), v, entry)

VecDelta(f, v, t, entry, ok) ==
    LET seq == v.chain.seq + 1
        chain == Chained(v.chain.base, seq, t.wm)
        delta == [base |-> v.chain.base, from |-> v.chain.wm, wm |-> t.wm, ords |-> v.log]
    IN  IF ok THEN Flushed([f EXCEPT !.vecDeltas = Append(SubSeq(@, 1, seq - 1), delta)],
                           CleanVec(v, t, chain), chain)
        ELSE Flushed(f, v, entry)

AtCap(chain) == MaxChain > 0 /\ chain.seq >= MaxChain

VecFlush(f, v, t, force, entry, ok) ==
    IF force \/ v.rebase \/ AtCap(v.chain) THEN VecBase(f, v, t, entry, ok)
    ELSE IF ~v.dirty \/ v.log = {} THEN Flushed(f, [v EXCEPT !.dirty = FALSE], entry)
    ELSE VecDelta(f, v, t, entry, ok)

DocFlush(f, d, t, force, entry, ok) ==
    IF force \/ AtCap(d.chain) THEN DocBase(f, d, t, entry, ok)
    ELSE IF d.dirty THEN DocDelta(f, d, t, entry, ok)
    ELSE Flushed(f, d, entry)

\* save_snapshot: the live entries below the watermarks captured before.
PlaceOf(f, o) == CHOOSE i \in DOMAIN f : f[i] = o
Beyond(f, wms, e) ==
    e.file \in DOMAIN wms /\ PlaceOf(f[e.file], e.ord) > wms[e.file]
Snapshot(f, d, wms, next) ==
    [kept |-> TRUE, next |-> next, wms |-> wms,
     rows |-> [k \in Keys |-> IF d[k].tomb \/ Beyond(f, wms, d[k]) THEN NoEntry ELSE d[k]]]

\* The files and stores after the first n of the five steps, the writes of bad failed.
Saved(t, bad, n) ==
    LET force == lane.rebase \/ t.force \/ ~(doc.dirty \/ text.dirty \/ vec.dirty)
        keep(f, x, e) == Flushed(f, x, e)
        d == IF n < 1 THEN keep(disk, doc, lane.man.doc)
             ELSE DocFlush(disk, doc, t, force, lane.man.doc, "doc" \notin bad)
        x == IF n < 2 THEN keep(d.disk, text, lane.man.text)
             ELSE TextFlush(d.disk, text, t, force, lane.man.text, bad)
        v == IF n < 3 THEN keep(x.disk, vec, lane.man.vec)
             ELSE VecFlush(x.disk, vec, t, force, lane.man.vec, "vec" \notin bad)
        man == [kept |-> TRUE, doc |-> d.entry, text |-> x.entry, vec |-> v.entry]
        committed == n >= 4 /\ "man" \notin bad
        f == IF committed THEN [v.disk EXCEPT !.man = man] ELSE v.disk
        based == "doc" \notin bad /\ d.self.chain.base = t.wm
    IN  [disk |-> IF committed /\ based /\ n >= 5 /\ "snap" \notin bad
                  THEN [f EXCEPT !.snap = Snapshot(f.files, kd, t.wms, NextOrd)] ELSE f,
         doc |-> d.self, text |-> x.self, vec |-> v.self,
         man |-> IF committed THEN man ELSE lane.man,
         rebase |-> lane.rebase /\ ~force]

\* Which writes of a save fail.
Failing == {bad \in SUBSET Flaky : used.faults + Cardinality(bad) <= MaxFaults}

-----------------------------------------------------------------------------
(* The lane: the reducer takes the ords in order, each once submitted.     *)

Unsubmitted == {pend, cap.ord, merge.base} \ {0}
LaneIdle == lane.next > Len(ops) \/ lane.next \in Unsubmitted
TaskAt(o) == CHOOSE t \in lane.tasks : t.ord = o

\* Where the record was appended, whatever a merge has made of it since.
Written(o) == Min({f \in DOMAIN disk.files : o \in Range(disk.files[f])})

ApplyPut(o, k, t) ==
    /\ doc' = DocPut(doc, k, o, Written(o))
    /\ text' = IF t THEN TextPut(text, k, o) ELSE text
    /\ vec' = IF t THEN VecPut(vec, o) ELSE vec

\* A delete of a document the map does not know is not told to it.
ApplyDelete(o, k) ==
    /\ doc' = IF doc.rows[k] = NoRow THEN doc ELSE DocDel(doc, k, o)
    /\ text' = TextDel(text, k, o)
    /\ UNCHANGED vec

\* VectorPlugin::rebuild: the nodes whose documents are live.
LiveOrds == {doc.rows[k].ord : k \in Keys}
Rebuild ==
    /\ vec' = [vec EXCEPT !.has = @ \intersect LiveOrds, !.dirty = TRUE, !.rebase = TRUE]
    /\ UNCHANGED <<doc, text>>

Apply ==
    LET o == lane.next
    IN  /\ ~LaneIdle
        /\ \/ ops[o].what = "put" /\ ApplyPut(o, ops[o].key, ops[o].text)
           \/ ops[o].what = "del" /\ ApplyDelete(o, ops[o].key)
           \/ ops[o].what = "rebuild" /\ Rebuild
        /\ lane' = [lane EXCEPT !.next = @ + 1]
        /\ UNCHANGED <<ops, disk, kd, pend, cap, merge, used>>

Save(bad) ==
    LET o == lane.next
        s == Saved(TaskAt(o), bad, 5)
    IN  /\ ~LaneIdle /\ ops[o].what = "save"
        /\ disk' = s.disk /\ doc' = s.doc /\ text' = s.text /\ vec' = s.vec
        /\ lane' = [next |-> o + 1, tasks |-> lane.tasks \ {TaskAt(o)},
                    man |-> s.man, rebase |-> s.rebase]
        /\ used' = [used EXCEPT !.faults = @ + Cardinality(bad)]
        /\ UNCHANGED <<ops, kd, pend, cap, merge>>

-----------------------------------------------------------------------------
(* checkpoint, by hand or automatic: an ord, the bytes known to be durable *)
(* after a sync of the active file, and then the ords the task will cover. *)

Durable(f) == [i \in DOMAIN f.files |-> IF i = f.active THEN f.synced ELSE Len(f.files[i])]
Synced(f) == [f EXCEPT !.synced = Len(f.files[f.active])]

CkptOrd ==
    /\ cap.pc = "idle" /\ used.tasks < MaxTasks /\ NextOrd <= MaxOrd
    /\ ops' = Append(ops, Control("save"))
    /\ cap' = [NoCap EXCEPT !.pc = "wms", !.ord = NextOrd]
    /\ disk' = [disk EXCEPT !.gone = @ \union disk.retired, !.retired = {}]
    /\ used' = [used EXCEPT !.tasks = @ + 1]
    /\ UNCHANGED <<kd, doc, text, vec, lane, pend, merge>>

CkptWms ==
    /\ cap.pc = "wms"
    /\ disk' = Synced(disk)
    /\ cap' = [cap EXCEPT !.pc = "submit", !.wms = Durable(Synced(disk))]
    /\ UNCHANGED <<ops, kd, doc, text, vec, lane, pend, merge, used>>

Task(o, wms, force) == [ord |-> o, wms |-> wms, wm |-> NextOrd, force |-> force]

CkptSubmit ==
    /\ cap.pc = "submit"
    /\ lane' = [lane EXCEPT !.tasks = @ \union {Task(cap.ord, cap.wms, FALSE)}]
    /\ cap' = NoCap
    /\ UNCHANGED <<ops, disk, kd, doc, text, vec, pend, merge, used>>

-----------------------------------------------------------------------------
(* merge: the sealed files' live records go to a new file, the keydir and  *)
(* the document map follow one by one; then a base, and the inputs retire. *)
(* A put that loses its file to the output's number is module Store's.     *)

Live(f) == DOMAIN f.files \ f.gone

MergeStart ==
    LET inputs == Live(disk) \ (disk.retired \union {disk.active})
    IN  /\ merge.pc = "idle" /\ pend = 0 /\ used.tasks < MaxTasks /\ Biggest < MaxFile
        /\ \E f \in inputs : disk.files[f] # <<>>
        /\ merge' = [NoMerge EXCEPT !.pc = "pick", !.out = Biggest + 1, !.inputs = inputs,
                                    !.todo = Keys]
        /\ disk' = [disk EXCEPT !.files = Append(@, <<>>),
                                !.gone = @ \union disk.retired, !.retired = {}]
        /\ used' = [used EXCEPT !.tasks = @ + 1]
        /\ UNCHANGED <<ops, kd, doc, text, vec, lane, pend, cap>>

\* A record is copied if the keydir points at it when the fold meets it.
Pick(k) ==
    /\ merge.pc = "pick" /\ k \in merge.todo
    /\ LET next == [merge EXCEPT !.todo = @ \ {k}]
       IN  merge' = IF kd[k].tomb \/ kd[k].file \notin merge.inputs THEN next
                    ELSE [next EXCEPT !.pc = "swap", !.key = k, !.ord = kd[k].ord]
    /\ UNCHANGED <<ops, disk, kd, doc, text, vec, lane, pend, cap, used>>

\* apply_pending: write and sync the copy, then put it if nothing has come since.
Swap ==
    LET k == merge.key
        same == ~kd[k].tomb /\ kd[k].ord = merge.ord
    IN  /\ merge.pc = "swap"
        /\ disk' = [disk EXCEPT !.files[merge.out] = Append(@, merge.ord)]
        /\ kd' = IF same THEN [kd EXCEPT ![k].file = merge.out] ELSE kd
        /\ merge' = [merge EXCEPT !.pc = IF same THEN "get" ELSE "pick"]
        /\ UNCHANGED <<ops, doc, text, vec, lane, pend, cap, used>>

\* DocmapRelocator::on_relocate: two calls of the document map.
RelocateGet ==
    /\ merge.pc = "get"
    /\ merge' = [merge EXCEPT !.pc = IF doc.rows[merge.key] = NoRow THEN "pick" ELSE "put"]
    /\ UNCHANGED <<ops, disk, kd, doc, text, vec, lane, pend, cap, used>>

RelocatePut ==
    /\ merge.pc = "put"
    /\ doc' = DocPut(doc, merge.key, merge.ord, merge.out)
    /\ merge' = [merge EXCEPT !.pc = "pick"]
    /\ UNCHANGED <<ops, disk, kd, text, vec, lane, pend, cap, used>>

\* on_merge_commit has the vector plugin queue its rebuild.
MergeCommit ==
    /\ merge.pc = "pick" /\ merge.todo = {} /\ NextOrd <= MaxOrd
    /\ ops' = Append(ops, Control("rebuild"))
    /\ merge' = [merge EXCEPT !.pc = "wms"]
    /\ UNCHANGED <<disk, kd, doc, text, vec, lane, pend, cap, used>>

MergeWms(pc, next) ==
    /\ merge.pc = pc
    /\ disk' = Synced(disk)
    /\ merge' = [merge EXCEPT !.pc = next, !.wms = Durable(Synced(disk))]
    /\ UNCHANGED <<ops, kd, doc, text, vec, lane, pend, cap, used>>

MergeOrd ==
    /\ merge.pc = "ord" /\ LaneIdle /\ NextOrd <= MaxOrd
    /\ ops' = Append(ops, Control("save"))
    /\ merge' = [merge EXCEPT !.pc = "submit", !.base = NextOrd]
    /\ UNCHANGED <<disk, kd, doc, text, vec, lane, pend, cap, used>>

MergeSubmit ==
    /\ merge.pc = "submit"
    /\ lane' = [lane EXCEPT !.tasks = @ \union {Task(merge.base, merge.wms, TRUE)}]
    /\ merge' = [merge EXCEPT !.pc = "retire", !.base = 0]
    /\ UNCHANGED <<ops, disk, kd, doc, text, vec, pend, cap, used>>

Retire ==
    /\ merge.pc = "retire" /\ LaneIdle
    /\ disk' = [disk EXCEPT !.retired = @ \union merge.inputs]
    /\ merge' = [merge EXCEPT !.pc = "snapwms"]
    /\ UNCHANGED <<ops, kd, doc, text, vec, lane, pend, cap, used>>

\* The keydir snapshot at the end, on watermarks of its own.
MergeSnapshot ==
    /\ merge.pc = "snapshot"
    /\ disk' = [disk EXCEPT !.snap = Snapshot(disk.files, kd, merge.wms, NextOrd)]
    /\ merge' = NoMerge
    /\ UNCHANGED <<ops, kd, doc, text, vec, lane, pend, cap, used>>

Merge ==
    \/ MergeStart \/ \E k \in Keys : Pick(k)
    \/ Swap \/ RelocateGet \/ RelocatePut \/ MergeCommit
    \/ MergeWms("wms", "ord") \/ MergeOrd \/ MergeSubmit \/ Retire
    \/ MergeWms("snapwms", "snapshot") \/ MergeSnapshot

-----------------------------------------------------------------------------
(* Opening: the snapshot, the manifest, each component, then the log from  *)
(* the watermarks on, or from the start unless all of them are sound.      *)

\* A base of the generation the manifest names; .prev never makes a component sound.
Sound(main, deltas, entry) ==
    /\ main.gen > 0 /\ main.gen = entry.base /\ Len(deltas) >= entry.seq
    /\ \A i \in 1..entry.seq :
           /\ deltas[i].base = entry.base
           /\ deltas[i].from = IF i = 1 THEN entry.base ELSE deltas[i - 1].wm

Chain(deltas, entry) == SubSeq(deltas, 1, entry.seq)

\* apply_docmap_delta_section: rows and removals in the order of their ords.
DeltaApplied(rows, d) ==
    [k \in Keys |->
        LET put == {r \in d.rows : r.key = k}
            del == {m.ord : m \in {m \in d.rems : m.key = k}}
        IN  IF put = {} /\ del = {} THEN rows[k]
            ELSE IF put = {} \/ (CHOOSE r \in put : TRUE).ord < Max0(del) THEN NoRow
            ELSE LET r == CHOOSE r \in put : TRUE IN [ord |-> r.ord, file |-> r.file]]

DocOpened(f) ==
    LET entry == f.man.doc
    IN  IF Sound(f.doc, f.docDeltas, entry)
        THEN [EmptyDoc EXCEPT !.rows = FoldLeft(DeltaApplied, f.doc.data, Chain(f.docDeltas, entry)),
                              !.win = entry.wm, !.chain = entry]
        ELSE [EmptyDoc EXCEPT !.rows = IF f.docPrev # NoFile /\ f.docPrev.gen = entry.base
                                       THEN f.docPrev.data ELSE @]

\* The segments hold no tombstones once they are reopened.  They are the ones a
\* sound base lists, or else the ones segments.manifest does.
TextOpened(f) ==
    LET sound == Sound(f.text, <<>>, f.man.text)
        loc == [k \in Keys |-> IF f.text.data[k].tomb THEN NoEntry ELSE f.text.data[k]]
    IN  [loc |-> loc, dirty |-> ~sound, chain |-> IF sound THEN f.man.text ELSE NoChain]

VecOpened(f) ==
    LET entry == f.man.vec
        sound == Sound(f.vec, f.vecDeltas, entry)
        has == IF sound
               THEN f.vec.data \union UNION {d.ords : d \in Range(Chain(f.vecDeltas, entry))}
               ELSE IF f.vecPrev # NoFile /\ f.vecPrev.gen = entry.base THEN f.vecPrev.data ELSE {}
    IN  [EmptyVec EXCEPT !.has = has, !.max = Max0(has), !.rebase = ~sound,
                         !.win = IF sound THEN entry.wm ELSE 0,
                         !.chain = IF sound THEN entry ELSE NoChain]

\* replay_delta_to_keydir: rows, then removals.
Replayed(d, delta) ==
    LET put(e, r) == KeyPut(e, r.key, r.ord, r.file)
        del(e, m) == KeyDelOlder(e, m.key, m.ord)
    IN  FoldLeft(del, FoldLeft(put, d, SetToSeq(delta.rows)), SetToSeq(delta.rems))

\* A component is sound if it covers what its entry says.
AllSound(f, d, x, v) ==
    f.man.kept /\ d.chain # NoChain /\ x.chain = f.man.text /\ v.chain = f.man.vec

\* The records to fold, file after file.
ToFold(f, wms) ==
    LET from(i) == IF i \in DOMAIN wms THEN wms[i] ELSE 0
        one(i) == IF i \in f.gone THEN <<>>
                  ELSE [j \in 1 .. Len(f.files[i]) - from(i) |->
                           [ord |-> f.files[i][from(i) + j], file |-> i]]
    IN  FoldLeft(LAMBDA s, i : s \o one(i), <<>>, [i \in DOMAIN f.files |-> i])

\* apply_rec: a tombstone is not told to the plugins, a value without text to nobody.
FoldOne(s, r) ==
    LET op == ops[r.ord]
    IN  IF op.what = "del"
        THEN [s EXCEPT !.kd = KeyDel(@, op.key, r.ord), !.doc = DocDel(@, op.key, r.ord)]
        ELSE [kd |-> KeyPut(s.kd, op.key, r.ord, r.file),
              doc |-> IF op.text THEN DocPut(s.doc, op.key, r.ord, r.file) ELSE s.doc,
              text |-> IF op.text THEN TextPut(s.text, op.key, r.ord) ELSE s.text,
              vec |-> IF op.text THEN VecPut(s.vec, r.ord) ELSE s.vec]

\* What is loaded, before the fold; from where it starts; and the next ord known.
Loading(f) ==
    LET d == DocOpened(f)  x == TextOpened(f)  v == VecOpened(f)
        deltas == IF f.snap.kept /\ d.chain # NoChain THEN Chain(f.docDeltas, f.man.doc) ELSE <<>>
        sound == AllSound(f, d, x, v)
        skip == f.snap.kept /\ sound
    IN  [store |-> [kd |-> FoldLeft(Replayed, f.snap.rows, deltas), doc |-> d, text |-> x, vec |-> v],
         wms |-> IF ~skip THEN <<>> ELSE IF deltas = <<>> THEN f.snap.wms ELSE Last(deltas).wms,
         next |-> IF deltas = <<>> THEN f.snap.next ELSE Max({f.snap.next, Last(deltas).wm}),
         sound |-> sound]

OrdsOn(f) == UNION {Range(f.files[i]) : i \in Live(f)}

\* Opened on the files f; the ords of lost records may be given out again.
Open(f) == \E load \in {Loading(f)} :
    \E s \in {FoldLeft(FoldOne, load.store, ToFold(f, load.wms))} :
    LET next == Max({load.next} \union {o + 1 : o \in OrdsOn(f)})
    IN  /\ disk' = IF f.files[f.active] = <<>> /\ f.active = Len(f.files) THEN f ELSE Rolled(f)
        /\ kd' = s.kd /\ doc' = s.doc /\ text' = s.text /\ vec' = s.vec
        /\ ops' = [o \in 1 .. next - 1 |->
                      IF o \in OrdsOn(f) THEN ops[o] ELSE Control("lost")]
        /\ lane' = [next |-> next, tasks |-> {}, man |-> f.man, rebase |-> ~load.sound]
        /\ pend' = 0 /\ cap' = NoCap /\ merge' = NoMerge

\* A crash, of the process or of the power: part of the unsynced tail survives.
Cut(f, n) == [f EXCEPT !.files[f.active] = SubSeq(@, 1, n), !.retired = {}, !.synced = n]

Crash(f, n) ==
    /\ used.crashes < MaxCrash
    /\ n \in f.synced .. Len(f.files[f.active])
    /\ \E left \in {Cut(f, n)} : Open(left)

CrashBetween == \E n \in disk.synced .. Len(disk.files[disk.active]) :
    /\ Crash(disk, n)
    /\ used' = [used EXCEPT !.crashes = @ + 1]

\* Within a step of a save a crash leaves what a failing write of it would.
CutOff == <<{"doc"}, {"segs", "text"}, {"vec"}, {}>>

\* In the middle of a save: only some of its files are there.
CrashInSave ==
    /\ ~LaneIdle /\ ops[lane.next].what = "save" /\ used.crashes < MaxCrash
    /\ LET left(i) == {Saved(TaskAt(lane.next), bad, i).disk :
                          bad \in {{}} \union {{w} : w \in CutOff[i]}}
       IN  \E f \in UNION {left(i) : i \in 1..4} :
           \E n \in f.synced .. Len(f.files[f.active]) : Crash(f, n)
    /\ used' = [used EXCEPT !.crashes = @ + 1]

\* close, and an open of what it left.
Close(bad) ==
    LET f == Synced([disk EXCEPT !.gone = @ \union disk.retired, !.retired = {}])
        wms == Durable(f)
        s == Saved(Task(0, wms, TRUE), bad, 4)
    IN  /\ pend = 0 /\ cap = NoCap /\ merge = NoMerge /\ LaneIdle
        /\ used.tasks < MaxTasks
        /\ Open([s.disk EXCEPT !.gone = f.gone, !.retired = {}, !.synced = f.synced,
                               !.snap = Snapshot(f.files, kd, wms, NextOrd)])
        /\ used' = [used EXCEPT !.tasks = @ + 1, !.faults = @ + Cardinality(bad)]

-----------------------------------------------------------------------------
Next ==
    \/ \E k \in Keys, t \in Texts : TakeOrd("put", k, t)
    \/ \E k \in Keys : TakeOrd("del", k, FALSE)
    \/ Write \/ Roll \/ Apply
    \/ CkptOrd \/ CkptWms \/ CkptSubmit
    \/ \E bad \in Failing : Save(bad) \/ Close(bad)
    \/ Merge \/ CrashBetween \/ CrashInSave

Spec == Init /\ [][Next]_vars

-----------------------------------------------------------------------------
(* Properties.                                                             *)

\* The operations that survive on disk and are not overruled; pend's has not happened.
LastOf(k) == Max0({o \in OrdsOn(disk) : ops[o].key = k})

\* The keydir says of every key what the log says: a record that is there
\* and is the key's last is found where it lies, and no other.  Snapshot,
\* deltas and the fold from the watermarks must add up to that at every open.
KeysKept ==
    \A k \in Keys :
        LET o == LastOf(k)
        IN  IF o = 0 \/ ops[o].what = "del" THEN kd[k].tomb
            ELSE /\ ~kd[k].tomb /\ kd[k].ord = o
                 /\ kd[k].file \in Live(disk) /\ o \in Range(disk.files[kd[k].file])

\* Once the lane has applied everything, search finds exactly the keydir's
\* documents: the map names their ords, and the text and vector stores hold
\* what the map names.
DocsSearchable ==
    LaneIdle /\ pend = 0 =>
        \A k \in Keys :
            LET row == doc.rows[k]
            IN  /\ row.ord = IF kd[k].tomb THEN 0 ELSE kd[k].ord
                /\ row # NoRow => /\ row.ord \in vec.has
                                  /\ text.loc[k].ord = row.ord /\ ~text.loc[k].tomb

\* "keydir_covered <= search_covered": what a kept keydir snapshot lets the
\* fold skip is covered by the document map that index.manifest commits.
KeydirBehindSearch ==
    disk.snap.kept /\ disk.man.kept =>
        \A f \in DOMAIN disk.snap.wms : \A i \in 1 .. disk.snap.wms[f] :
            disk.files[f][i] < disk.man.doc.wm
=============================================================================
