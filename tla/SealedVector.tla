---------------------------- MODULE SealedVector ----------------------------
(***************************************************************************)
(* The vector engines that keep their vectors on disk: an immutable        *)
(* segment, a graph in memory (the window) for what came since, and a log  *)
(* of the window that deltas persist.  A base save writes the live         *)
(* vectors of both into a new segment and starts an empty window.          *)
(* Searches run beside the saves; a file may fail to be written; any step  *)
(* may be the last before a crash.                                         *)
(*                                                                         *)
(* include/bitcask/detail/sealed_segment_vector_plugin.hpp.  A vector is   *)
(* the ord of its document, scores are left out, an answer is the set of   *)
(* the documents a search with room for all of them returns.               *)
(***************************************************************************)
EXTENDS Integers, Sequences, SequencesExt

CONSTANTS
    MaxOrd,      \* bound: ords given out
    MaxChain,    \* max_delta_chain
    RebaseMin,   \* rebase_min_docs; 0 is none
    MaxFlushes,  \* bound: flushes
    MaxCrashes,  \* bound: crashes
    MaxFails,    \* bound: writes that fail
    MaxSearches, \* bound: searches
    Allowed      \* what the runs that pass leave out, see the README

ASSUME SealedVectorAssumption ==
    /\ MaxOrd \in Nat /\ MaxChain \in Nat /\ RebaseMin \in Nat
    /\ Allowed \subseteq STRING

VARIABLES
    docs,   \* the store: the ords given out, which of them hold a vector, which died
    disk,   \* the segment, the checkpoint and the one set aside, the deltas, the manifest
    plug,   \* the plugin's members
    step,   \* where a flush is
    reader, \* a search in flight
    used    \* counters for the bounds

vars == <<docs, disk, plug, step, reader, used>>

NoGate == 0
None == [made |-> FALSE, wm |-> 0, gen |-> 0]
Fresh == [sealed |-> {}, window |-> {}, log |-> {}, win |-> 0, gate |-> NoGate, since |-> 0,
          dirty |-> TRUE, rebase |-> TRUE, base |-> 0, wm |-> 0, next |-> 1]
Idle == [pc |-> "idle", wm |-> 0, seg |-> [gen |-> 0, ords |-> {}]]
NoReader == [pc |-> "none", seg |-> {}, win |-> {}, due |-> {}]

Init ==
    /\ docs = [last |-> 0, has |-> {}, dead |-> {}, marks |-> {}]
    /\ disk = [seg |-> [gen |-> 0, ords |-> {}], base |-> None, prev |-> None, deltas |-> <<>>,
               man |-> [base |-> 0, seq |-> 0]]
    /\ plug = Fresh /\ step = Idle /\ reader = NoReader
    /\ used = [gens |-> 0, flushes |-> 0, crashes |-> 0, fails |-> 0, searches |-> 0]

Live == docs.has \ docs.dead
Running == step.pc # "down"
Fails == used.fails < MaxFails
OneMore(field) == [used EXCEPT ![field] = @ + 1]

-----------------------------------------------------------------------------
(* insert; the store's deletions *)

\* DeltaLog::record takes what the last save does not cover, the window's graph
\* what it does not hold.
Inserted(p, o) ==
    IF p.gate # NoGate /\ o <= p.gate THEN p
    ELSE [p EXCEPT !.dirty = TRUE,
                   !.log = IF o >= p.win THEN @ \union {o} ELSE @,
                   !.window = @ \union {o},
                   !.since = IF o \in p.window THEN @ ELSE @ + 1]

\* The ord a save ended at goes to a document only when that is allowed: after
\* a restart the gate takes it for one the save covers.
Put(over) ==
    LET o == docs.last + 1
    IN  /\ step.pc = "idle" /\ o <= MaxOrd
        /\ "gate" \in Allowed \/ o \notin docs.marks
        /\ docs' = [docs EXCEPT !.last = o, !.has = @ \union {o}, !.dead = @ \union over]
        /\ plug' = Inserted(plug, o)
        /\ reader' = [reader EXCEPT !.due = @ \ over]
        /\ UNCHANGED <<disk, step, used>>

\* A deletion, or a task that is no document: it takes an ord, and no vector.
Other(dies) ==
    /\ step.pc = "idle" /\ docs.last < MaxOrd
    /\ docs' = [docs EXCEPT !.last = @ + 1, !.dead = @ \union dies]
    /\ reader' = [reader EXCEPT !.due = @ \ dies]
    /\ UNCHANGED <<disk, plug, step, used>>

-----------------------------------------------------------------------------
(* flush: save_component_base, save_component_delta *)

WantBase(force) ==
    \/ force \/ plug.rebase
    \/ MaxChain > 0 /\ plug.next > MaxChain
    \/ RebaseMin > 0 /\ plug.since >= RebaseMin

\* The watermark of a save is the next ord.
Flush(force) ==
    LET clean == ~plug.dirty \/ plug.log = {}
        to(pc) == [Idle EXCEPT !.pc = pc, !.wm = docs.last + 1]
    IN  /\ step.pc = "idle" /\ used.flushes < MaxFlushes
        /\ used' = OneMore("flushes")
        /\ docs' = [docs EXCEPT !.marks = @ \union {docs.last + 1}]
        /\ IF WantBase(force) THEN step' = to("build") /\ UNCHANGED plug
           ELSE IF clean THEN plug' = [plug EXCEPT !.dirty = FALSE] /\ UNCHANGED step
           ELSE step' = to("delta") /\ UNCHANGED plug
        /\ UNCHANGED <<disk, reader>>

\* build_sealed over what is live in the segment and in the window, renamed over
\* the old segment, which the searches keep mapped.
Entries == (plug.sealed \union plug.window) \ docs.dead

Build ==
    LET seg == [gen |-> used.gens + 1, ords |-> Entries]
    IN  /\ step.pc = "build"
        /\ disk' = [disk EXCEPT !.seg = seg]
        /\ step' = [step EXCEPT !.pc = "rotate", !.seg = seg]
        /\ used' = OneMore("gens")
        /\ UNCHANGED <<docs, plug, reader>>

\* The checkpoint is set aside, as far as that succeeds.
Rotate ==
    /\ step.pc = "rotate"
    /\ disk' = IF disk.base.made THEN [disk EXCEPT !.prev = disk.base, !.base = None] ELSE disk
    /\ step' = [step EXCEPT !.pc = "base"]
    /\ UNCHANGED <<docs, plug, reader, used>>

RotateFails ==
    /\ step.pc = "rotate" /\ disk.base.made /\ Fails
    /\ step' = [step EXCEPT !.pc = "base"]
    /\ used' = OneMore("fails")
    /\ UNCHANGED <<docs, disk, plug, reader>>

WriteBase ==
    /\ step.pc = "base"
    /\ disk' = [disk EXCEPT !.base = [made |-> TRUE, wm |-> step.wm, gen |-> step.seg.gen]]
    /\ step' = [step EXCEPT !.pc = "unchain"]
    /\ UNCHANGED <<docs, plug, reader, used>>

\* The plugin stays as it is and says how far its chain reaches.
WriteFails ==
    /\ step.pc \in {"build", "base", "delta"} /\ Fails
    /\ step' = Idle
    /\ used' = OneMore("fails")
    /\ UNCHANGED <<docs, disk, plug, reader>>


Unchain ==
    /\ step.pc = "unchain"
    /\ disk' = [disk EXCEPT !.deltas = <<>>]
    /\ plug' = [plug EXCEPT !.base = step.wm, !.wm = step.wm, !.next = 1, !.win = step.wm,
                            !.log = {}, !.dirty = FALSE]
    /\ step' = [step EXCEPT !.pc = "seal"]
    /\ UNCHANGED <<docs, reader, used>>

PublishSegment ==
    /\ step.pc = "seal"
    /\ plug' = [plug EXCEPT !.sealed = step.seg.ords]
    /\ step' = [step EXCEPT !.pc = "window"]
    /\ UNCHANGED <<docs, disk, reader, used>>

PublishWindow ==
    /\ step.pc = "window"
    /\ "straddle" \in Allowed \/ reader.pc # "second"
    /\ plug' = [plug EXCEPT !.window = {}, !.rebase = FALSE, !.since = 0]
    /\ step' = [step EXCEPT !.pc = "commit"]
    /\ UNCHANGED <<docs, disk, reader, used>>

\* kDeltaInfo, kHnswDelta; written whole or not at all.
Delta ==
    LET d == [base |-> plug.base, from |-> plug.wm, wm |-> step.wm, log |-> plug.log]
        kept == SubSeq(disk.deltas, 1, plug.next - 1)
        beyond == SubSeq(disk.deltas, plug.next + 1, Len(disk.deltas))
    IN  /\ step.pc = "delta"
        /\ disk' = [disk EXCEPT !.deltas = kept \o <<d>> \o beyond]
        /\ plug' = [plug EXCEPT !.wm = step.wm, !.next = @ + 1, !.win = step.wm, !.log = {}, !.dirty = FALSE]
        /\ step' = [step EXCEPT !.pc = "commit"]
        /\ UNCHANGED <<docs, reader, used>>

\* The host writes the manifest when the flush has returned.
Commit ==
    /\ step.pc = "commit"
    /\ disk' = [disk EXCEPT !.man = [base |-> plug.base, seq |-> plug.next - 1]]
    /\ step' = Idle
    /\ UNCHANGED <<docs, plug, reader, used>>

Rebuild ==
    /\ step.pc = "idle" /\ ~plug.rebase
    /\ plug' = [plug EXCEPT !.dirty = TRUE, !.rebase = TRUE]
    /\ UNCHANGED <<docs, disk, step, reader, used>>

-----------------------------------------------------------------------------
(* search: the segment is taken first, then the window. *)

Search ==
    /\ Running /\ reader.pc = "none" /\ used.searches < MaxSearches
    /\ reader' = [pc |-> "second", seg |-> plug.sealed, win |-> {}, due |-> Live]
    /\ used' = OneMore("searches")
    /\ UNCHANGED <<docs, disk, plug, step>>

Second ==
    /\ reader.pc = "second"
    /\ reader' = [reader EXCEPT !.pc = "both", !.win = plug.window]
    /\ UNCHANGED <<docs, disk, plug, step, used>>

\* What both hold, once each, without the dead.
Answer == (reader.seg \union reader.win) \ docs.dead

Answered ==
    /\ reader.pc = "both"
    /\ reader' = NoReader
    /\ UNCHANGED <<docs, disk, plug, step, used>>

-----------------------------------------------------------------------------
(* A crash, and open with the replay of the store's log. *)

Crash ==
    /\ Running /\ used.crashes < MaxCrashes
    /\ plug' = Fresh /\ reader' = NoReader
    /\ step' = [Idle EXCEPT !.pc = "down"]
    /\ used' = OneMore("crashes")
    /\ UNCHANGED <<docs, disk>>

Source ==
    IF disk.base.made /\ disk.base.wm = disk.man.base THEN disk.base
    ELSE IF disk.prev.made /\ disk.prev.wm = disk.man.base THEN disk.prev ELSE None
Aside == ~(disk.base.made /\ disk.base.wm = disk.man.base)

\* open_sealed: the segment of the checkpoint's generation.
Paired == Source.made /\ disk.seg.gen = Source.gen

\* walk_chain
Links ==
    LET fits(s) == /\ s <= Len(disk.deltas) /\ disk.deltas[s].base = disk.man.base
                   /\ disk.deltas[s].from = IF s = 1 THEN disk.man.base ELSE disk.deltas[s - 1].wm
        whole == {n \in 0 .. disk.man.seq : \A s \in 1 .. n : fits(s)}
    IN  CHOOSE n \in whole : \A m \in whole : m <= n

\* load_component; a checkpoint set aside never carries its chain, so it never
\* loads, but what was opened by then stays open.
Opened ==
    LET links == IF Paired /\ ~Aside THEN Links ELSE 0
        logs == UNION {disk.deltas[s].log : s \in 1 .. links}
        wm == IF links = 0 THEN disk.man.base ELSE disk.deltas[links].wm
        ok == Paired /\ ~Aside /\ links = disk.man.seq
        held == [Fresh EXCEPT !.sealed = IF Paired THEN disk.seg.ords ELSE {},
                              !.window = logs, !.dirty = ~ok, !.rebase = ~ok]
    IN  IF ok THEN [held EXCEPT !.base = disk.man.base, !.wm = wm, !.next = links + 1,
                                !.win = wm, !.gate = wm, !.since = Len(SetToSeq(logs))]
              ELSE held

\* The store replays from the least watermark of its indexes on.
Open(from) ==
    LET p == Opened
    IN  /\ step.pc = "down" /\ from <= p.wm
        /\ plug' = FoldLeft(Inserted, p,
                            SelectSeq([o \in 1 .. docs.last |-> o], LAMBDA o : o >= from /\ o \in docs.has))
        /\ step' = Idle
        /\ UNCHANGED <<docs, disk, reader, used>>

-----------------------------------------------------------------------------

Next ==
    \/ \E d \in {{}} \union {{o} : o \in Live} : Put(d) \/ (d # {} /\ Other(d))
    \/ Other({})
    \/ \E f \in BOOLEAN : Flush(f)
    \/ Build \/ Rotate \/ RotateFails \/ WriteBase \/ WriteFails \/ Unchain
    \/ PublishSegment \/ PublishWindow \/ Delta \/ Commit \/ Rebuild
    \/ Search \/ Second \/ Answered
    \/ Crash \/ (\E w \in 0 .. MaxOrd + 1 : Open(w))

Spec == Init /\ [][Next]_vars

-----------------------------------------------------------------------------

\* Every live vector is in the segment or in the window, and in one of them
\* only, whatever was saved, refused or replayed: the next segment would hold a
\* vector of both twice, and half the answers would be its copies.  Between the
\* two publications it is in both.
HeldOnce ==
    /\ Running => Live \subseteq plug.sealed \union plug.window
    /\ Running /\ step.pc # "window" => plug.sealed \intersect plug.window = {}

\* A search finds what was live all the while, though the segment and the
\* window are swapped under it.
SearchFindsAll == reader.pc = "both" => reader.due \subseteq Answer

\* A chain that was committed and not overwritten since opens, and covers what
\* its watermark says, unless a write failed; the store is not replayed whole.
CommittedOpens ==
    /\ step.pc = "idle" /\ used.fails = 0 /\ plug.wm > 0
    /\ disk.man = [base |-> plug.base, seq |-> plug.next - 1]
    => Opened.wm = plug.wm /\ Live \intersect 1 .. plug.wm - 1 \subseteq Opened.sealed \union Opened.window
=============================================================================
