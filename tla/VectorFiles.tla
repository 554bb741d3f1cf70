---------------------------- MODULE VectorFiles ----------------------------
(***************************************************************************)
(* The files of the vector graph: a checkpoint names its nodes in order,   *)
(* the vectors and their quantised codes lie in two payload files beside   *)
(* it, by position.  A save appends to a payload in place, a rebuild       *)
(* renumbers the nodes and writes new payloads, deltas hang on the         *)
(* checkpoint, the manifest says which of it all counts.  Any step may be  *)
(* the last before a crash, a file may fail to be written, and a reader    *)
(* keeps reading the graph that a rebuild replaced.                        *)
(*                                                                         *)
(* src/vector/hnsw.cpp (payloads, serialize, clone_live's spill) and       *)
(* src/search/vector_plugin.cpp (flush, open, rebuild).  A vector is the   *)
(* ord of its document; one of these is inserted per document.             *)
(***************************************************************************)
EXTENDS Integers, Sequences, SequencesExt

CONSTANTS
    MaxOrd,      \* bound: documents
    MaxChain,    \* max_delta_chain
    MaxFlushes,  \* bound: flushes
    MaxRebuilds, \* bound: rebuilds
    MaxCrashes,  \* bound: crashes
    MaxFails     \* bound: writes that fail

VectorFilesAssumption == MaxOrd \in Nat /\ MaxChain \in Nat

VARIABLES
    docs,   \* the store: the ords given out and the dead among them; it survives
    inodes, \* the payload files ever made, by kind
    disk,   \* what the directory holds, and the committed manifest
    graph,  \* hnsw_ : node ids are positions
    held,   \* the graph the last rebuild replaced, which readers may still hold
    self,   \* the plugin's chain, delta log and flags
    step,   \* where a flush or a rebuild is
    used    \* counters for the bounds

vars == <<docs, inodes, disk, graph, held, self, step, used>>

Kinds == {"vec", "qc"}
After(k) == IF k = "vec" THEN "qc" ELSE "base"

None == [wm |-> 0, gen |-> 0, ids |-> <<>>, made |-> FALSE]
Nowhere == [k \in Kinds |-> [ino |-> 0, n |-> 0]]
\* file: VecFileState, where an append may go on; map: what is read from the file.
EmptyGraph == [ids |-> <<>>, max |-> 0, gen |-> 0, file |-> Nowhere, map |-> Nowhere]
FreshSelf == [base |-> 0, wm |-> 0, next |-> 1, log |-> <<>>, win |-> 0, dirty |-> FALSE, rebase |-> TRUE]
Idle == [pc |-> "idle", wm |-> 0, fresh |-> EmptyGraph, spilt |-> FALSE]

Init ==
    /\ docs = [last |-> 0, dead |-> {}]
    /\ inodes = [k \in Kinds |-> <<>>]
    /\ disk = [path |-> [k \in Kinds |-> 0], base |-> None, prev |-> None, deltas |-> <<>>,
               man |-> [base |-> 0, seq |-> 0]]
    /\ graph = EmptyGraph /\ held = EmptyGraph /\ self = FreshSelf /\ step = Idle
    /\ used = [gens |-> 0, flushes |-> 0, rebuilds |-> 0, crashes |-> 0, fails |-> 0]

Live == (1 .. docs.last) \ docs.dead
Fails == used.fails < MaxFails
OneMore(field) == [used EXCEPT ![field] = @ + 1]

-----------------------------------------------------------------------------
(* VectorPlugin::insert, HnswIndex::insert: the id is the next position. *)

Inserted(g, o) ==
    IF o <= g.max THEN g ELSE [g EXCEPT !.ids = Append(@, o), !.max = o]

Recorded(s, o) == [s EXCEPT !.dirty = TRUE, !.log = IF o >= s.win THEN Append(@, o) ELSE @]

Put(over) ==
    LET o == docs.last + 1
    IN  /\ step.pc = "idle" /\ o <= MaxOrd
        /\ docs' = [last |-> o, dead |-> docs.dead \union over]
        /\ graph' = Inserted(graph, o)
        /\ self' = Recorded(self, o)
        /\ UNCHANGED <<inodes, disk, held, step, used>>

-----------------------------------------------------------------------------
(* VectorPlugin::flush *)

AtCap == MaxChain > 0 /\ self.next > MaxChain

Flush(force) ==
    LET base == force \/ self.rebase \/ AtCap
        clean == ~self.dirty \/ self.log = <<>>
    IN  /\ step.pc = "idle" /\ used.flushes < MaxFlushes
        /\ used' = OneMore("flushes")
        /\ self' = IF ~base /\ clean THEN [self EXCEPT !.dirty = FALSE] ELSE self
        /\ step' = IF base THEN [Idle EXCEPT !.pc = "rotate", !.wm = docs.last + 1]
                   ELSE IF clean THEN Idle ELSE [Idle EXCEPT !.pc = "delta", !.wm = docs.last + 1]
        /\ UNCHANGED <<docs, inodes, disk, graph, held>>

\* kDeltaInfo: the checkpoint a delta belongs to, and where the one before ended.
Link_Chained == [base |-> self.wm, from |-> self.wm]
Link == [base |-> self.base, from |-> self.wm]

\* The file is written whole or not at all.
Delta ==
    LET d == [base |-> Link.base, from |-> Link.from, wm |-> step.wm, log |-> self.log]
        kept == SubSeq(disk.deltas, 1, self.next - 1)
        beyond == SubSeq(disk.deltas, self.next + 1, Len(disk.deltas))
    IN  /\ step.pc = "delta"
        /\ disk' = [disk EXCEPT !.deltas = kept \o <<d>> \o beyond]
        /\ self' = [self EXCEPT !.wm = step.wm, !.next = @ + 1, !.win = step.wm, !.log = <<>>, !.dirty = FALSE]
        /\ step' = [step EXCEPT !.pc = "commit"]
        /\ UNCHANGED <<docs, inodes, graph, held, used>>

\* save_component_base: the old checkpoint is kept aside first.
Rotate ==
    /\ step.pc = "rotate"
    /\ disk' = IF disk.base.made THEN [disk EXCEPT !.prev = disk.base, !.base = None] ELSE disk
    /\ step' = [step EXCEPT !.pc = "vec"]
    /\ UNCHANGED <<docs, inodes, graph, held, self, used>>

\* try_append_*_payload: the file is still the one known, and long enough.
MayAppend(k) ==
    LET f == graph.file[k]
    IN  /\ f.ino # 0 /\ f.ino = disk.path[k]
        /\ Len(graph.ids) >= f.n /\ Len(inodes[k][f.ino].data) >= f.n

Nothing(k) == MayAppend(k) /\ graph.file[k].n = Len(graph.ids)

AlreadyThere(k) ==
    /\ step.pc = k /\ Nothing(k)
    /\ step' = [step EXCEPT !.pc = After(k)]
    /\ UNCHANGED <<docs, inodes, disk, graph, held, self, used>>

\* The new records, over whatever lies behind the known ones; cutting off what
\* is longer still may fail unnoticed.
AppendData(k, cut) ==
    LET f == graph.file[k]
        old == inodes[k][f.ino].data
        n == Len(graph.ids)
        new == SubSeq(old, 1, f.n) \o SubSeq(graph.ids, f.n + 1, n)
    IN  /\ step.pc = k /\ MayAppend(k) /\ ~Nothing(k)
        /\ inodes' = [inodes EXCEPT ![k][f.ino].data = IF cut THEN new ELSE new \o SubSeq(old, n + 1, Len(old))]
        /\ step' = [step EXCEPT !.pc = "head " \o k]
        /\ UNCHANGED <<docs, disk, graph, held, self, used>>

AppendHead(k) ==
    LET f == graph.file[k]
        n == Len(graph.ids)
    IN  /\ step.pc = "head " \o k
        /\ inodes' = [inodes EXCEPT ![k][f.ino].count = n, ![k][f.ino].gen = graph.gen]
        /\ graph' = [graph EXCEPT !.file[k].n = n]
        /\ step' = [step EXCEPT !.pc = After(k)]
        /\ UNCHANGED <<docs, disk, held, self, used>>

\* A failed append forgets the file; the rewrite below follows.
AppendFails(k) ==
    /\ step.pc = "head " \o k /\ Fails
    /\ graph' = [graph EXCEPT !.file[k] = [ino |-> 0, n |-> 0]]
    /\ step' = [step EXCEPT !.pc = k]
    /\ used' = OneMore("fails")
    /\ UNCHANGED <<docs, inodes, disk, held, self>>

\* ensure_payload_gen
Gen(g) == IF g.gen = 0 THEN used.gens + 1 ELSE g.gen
Counted(g) == IF g.gen = 0 THEN OneMore("gens") ELSE used

\* The whole payload to another file, renamed over the old one.
Rewrite(k) ==
    LET n == Len(graph.ids)
        ino == Len(inodes[k]) + 1
    IN  /\ step.pc = k /\ ~MayAppend(k)
        /\ inodes' = [inodes EXCEPT ![k] = Append(@, [gen |-> Gen(graph), count |-> n, data |-> graph.ids])]
        /\ disk' = [disk EXCEPT !.path[k] = ino]
        /\ graph' = [graph EXCEPT !.gen = Gen(graph), !.file[k] = [ino |-> ino, n |-> n]]
        /\ step' = [step EXCEPT !.pc = After(k)]
        /\ used' = Counted(graph)
        /\ UNCHANGED <<docs, held, self>>

RewriteFails(k) ==
    /\ step.pc = k /\ ~MayAppend(k) /\ Fails
    /\ graph' = [graph EXCEPT !.gen = Gen(graph), !.file[k] = [ino |-> 0, n |-> 0]]
    /\ step' = Idle
    /\ used' = [Counted(graph) EXCEPT !.fails = @ + 1]
    /\ UNCHANGED <<docs, inodes, disk, held, self>>

WriteBase ==
    /\ step.pc = "base"
    /\ disk' = [disk EXCEPT !.base = [wm |-> step.wm, gen |-> Gen(graph), ids |-> graph.ids, made |-> TRUE]]
    /\ graph' = [graph EXCEPT !.gen = Gen(graph)]
    /\ used' = Counted(graph)
    /\ step' = [step EXCEPT !.pc = "collapse"]
    /\ UNCHANGED <<docs, inodes, held, self>>

\* No checkpoint, no delta: the host keeps the manifest it has.
WriteFails ==
    /\ step.pc \in {"base", "delta"} /\ Fails
    /\ step' = Idle
    /\ used' = OneMore("fails")
    /\ UNCHANGED <<docs, inodes, disk, graph, held, self>>

Collapse ==
    /\ step.pc = "collapse"
    /\ disk' = [disk EXCEPT !.deltas = <<>>]
    /\ self' = [base |-> step.wm, wm |-> step.wm, next |-> 1, log |-> <<>>, win |-> step.wm,
                dirty |-> FALSE, rebase |-> FALSE]
    /\ step' = [step EXCEPT !.pc = "commit"]
    /\ UNCHANGED <<docs, inodes, graph, held, used>>

\* The host writes the manifest when the flush has returned.
Commit ==
    /\ step.pc = "commit"
    /\ disk' = [disk EXCEPT !.man = [base |-> self.base, seq |-> self.next - 1]]
    /\ step' = Idle
    /\ UNCHANGED <<docs, inodes, graph, held, self, used>>

-----------------------------------------------------------------------------
(* VectorPlugin::rebuild, HnswIndex::clone_live *)

LiveIds(ids) == SelectSeq(ids, LAMBDA o : o \in Live)

\* A graph without a live node is made without files.
Rebuild ==
    LET fresh == [EmptyGraph EXCEPT !.ids = LiveIds(graph.ids), !.max = graph.max]
    IN  /\ step.pc = "idle" /\ used.rebuilds < MaxRebuilds /\ docs.dead # {}
        /\ self' = [self EXCEPT !.dirty = TRUE, !.rebase = TRUE]
        /\ step' = [Idle EXCEPT !.fresh = IF fresh.ids = <<>> THEN fresh ELSE [fresh EXCEPT !.gen = used.gens + 1],
                                !.pc = IF fresh.ids = <<>> THEN "swap" ELSE "spill vec"]
        /\ used' = [OneMore("rebuilds") EXCEPT !.gens = @ + 1]
        /\ UNCHANGED <<docs, inodes, disk, graph, held>>

Spill(k) ==
    /\ step.pc = "spill " \o k
    /\ inodes' = [inodes EXCEPT ![k] = Append(@, [gen |-> step.fresh.gen, count |-> Len(step.fresh.ids),
                                                  data |-> step.fresh.ids])]
    /\ disk' = [disk EXCEPT !.path[k] = Len(inodes[k]) + 1]
    /\ step' = [step EXCEPT !.pc = IF k = "vec" THEN "spill qc" ELSE "swap", !.spilt = (k = "qc")]
    /\ UNCHANGED <<docs, graph, held, self, used>>

\* One file of the two failed: the graph keeps everything in memory.
SpillFails ==
    /\ step.pc \in {"spill vec", "spill qc"} /\ Fails
    /\ step' = [step EXCEPT !.pc = "swap"]
    /\ used' = OneMore("fails")
    /\ UNCHANGED <<docs, inodes, disk, graph, held, self>>

Swap ==
    LET at == [k \in Kinds |-> [ino |-> disk.path[k], n |-> Len(step.fresh.ids)]]
    IN  /\ step.pc = "swap"
        /\ held' = graph
        /\ graph' = IF step.spilt THEN [step.fresh EXCEPT !.file = at, !.map = at] ELSE step.fresh
        /\ step' = Idle
        /\ UNCHANGED <<docs, inodes, disk, self, used>>

-----------------------------------------------------------------------------
(* A crash, and VectorPlugin::open with the replay of the store's log. *)

Crash ==
    /\ step.pc # "down" /\ used.crashes < MaxCrashes
    /\ graph' = EmptyGraph /\ held' = EmptyGraph /\ self' = FreshSelf
    /\ step' = [Idle EXCEPT !.pc = "down"]
    /\ used' = OneMore("crashes")
    /\ UNCHANGED <<docs, inodes, disk>>

\* load_*_payload: the generation is the checkpoint's, and the file holds at
\* least the nodes of the checkpoint; more is the tail of a later save.

Paired(k, c) ==
    /\ disk.path[k] # 0
    /\ LET f == inodes[k][disk.path[k]]
       IN  f.gen = c.gen /\ f.count >= Len(c.ids) /\ Len(f.data) >= Len(c.ids)

\* The next append goes behind the checkpoint's nodes, not behind the file's.
Known(k, c) == [ino |-> disk.path[k], n |-> Len(c.ids)]

Loaded(c) ==
    [ids |-> c.ids, max |-> IF c.ids = <<>> THEN 0 ELSE Last(c.ids), gen |-> c.gen,
     file |-> [k \in Kinds |-> Known(k, c)],
     map |-> [k \in Kinds |-> [ino |-> disk.path[k], n |-> Len(c.ids)]]]

\* The checkpoint of the manifest's watermark, the one set aside if need be.
Source ==
    IF disk.base.made /\ disk.base.wm = disk.man.base THEN disk.base
    ELSE IF disk.prev.made /\ disk.prev.wm = disk.man.base THEN disk.prev ELSE None
Aside == ~(disk.base.made /\ disk.base.wm = disk.man.base)

\* walk_chain: applied as far as every link fits.
Links ==
    LET fits(s) == /\ s <= Len(disk.deltas) /\ disk.deltas[s].base = disk.man.base
                   /\ disk.deltas[s].from = IF s = 1 THEN disk.man.base ELSE disk.deltas[s - 1].wm
        whole == {n \in 0 .. disk.man.seq : \A s \in 1 .. n : fits(s)}
    IN  CHOOSE n \in whole : \A m \in whole : m <= n

\* The watermark of a chain that was refused.
Refused(wm) == FreshSelf

Opened ==
    LET found == Source.made /\ \A k \in Kinds : Paired(k, Source)
        links == IF found /\ ~Aside THEN Links ELSE 0
        logs == FlattenSeq([s \in 1 .. links |-> disk.deltas[s].log])
        ok == found /\ ~Aside /\ links = disk.man.seq
        wm == IF links = 0 THEN disk.man.base ELSE disk.deltas[links].wm
        g == IF found THEN FoldLeft(Inserted, Loaded(Source), logs) ELSE EmptyGraph
    IN  [ok |-> ok, graph |-> g,
         self |-> IF ok THEN [FreshSelf EXCEPT !.base = disk.man.base, !.wm = wm, !.next = links + 1,
                                               !.win = wm, !.rebase = FALSE]
                  ELSE Refused(wm)]

\* What the plugin does not cover comes again from the log, the live documents
\* only; a graph that was loaded stays even when its chain is not trusted.
Open ==
    LET again == SelectSeq([i \in 1 .. docs.last |-> i], LAMBDA o : o \in Live /\ o >= Opened.self.wm)
    IN  /\ step.pc = "down"
        /\ graph' = FoldLeft(Inserted, Opened.graph, again)
        /\ self' = FoldLeft(Recorded, Opened.self, again)
        /\ step' = Idle
        /\ UNCHANGED <<docs, inodes, disk, held, used>>

-----------------------------------------------------------------------------
Save ==
    \/ Delta \/ Rotate \/ WriteBase \/ WriteFails \/ Collapse \/ Commit
    \/ \E k \in Kinds :
        \/ AlreadyThere(k) \/ AppendHead(k) \/ AppendFails(k) \/ Rewrite(k) \/ RewriteFails(k)
        \/ \E cut \in BOOLEAN : AppendData(k, cut)

Next ==
    \/ Put({}) \/ \E o \in Live : Put({o})
    \/ \E force \in BOOLEAN : Flush(force)
    \/ Save
    \/ Rebuild \/ SpillFails \/ Swap \/ \E k \in Kinds : Spill(k)
    \/ Crash \/ Open

Spec == Init /\ [][Next]_vars

-----------------------------------------------------------------------------
\* A node read from a payload file is that node's own vector: of the graph in
\* use, of the one a reader still holds, of one loaded after any crash and
\* grown and saved since.
VectorsAreTheirs ==
    \A g \in {graph, held} : \A k \in Kinds :
        g.map[k].n > 0 =>
            LET data == inodes[k][g.map[k].ino].data
            IN  Len(data) >= g.map[k].n /\ SubSeq(data, 1, g.map[k].n) = SubSeq(g.ids, 1, g.map[k].n)

\* Every live document is in the graph, however often saves, rebuilds and loads
\* were broken off.
NothingMissing == step.pc # "down" => Live \subseteq ToSet(graph.ids)

\* Between two flushes what is committed would open, chain and all, and with it
\* every node the delta log does not hold; a write that failed may cost that.
CommittedOpens ==
    step.pc = "idle" /\ disk.man.base > 0 /\ ~self.rebase /\ used.fails = 0 =>
        Opened.ok /\ Opened.graph.ids \o self.log = graph.ids
=============================================================================
