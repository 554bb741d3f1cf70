----------------------------- MODULE TextIndex -----------------------------
(***************************************************************************)
(* The text plugin (src/search/text_plugin.cpp) over its segments          *)
(* (include/bitcask/segment.hpp, segment_set.hpp, segment_merge.hpp): how  *)
(* puts and deletes become rows and dead marks, how a building segment is  *)
(* sealed, merged and committed, and what a query finds meanwhile.         *)
(*                                                                         *)
(* The reducer takes the operations in the order of their ords.  It        *)
(* applies a put itself (builder_threads = 0) or hands it to a builder,    *)
(* round robin; a delete it applies itself.  Segments are of format v2: sealing  *)
(* one replaces it by an object over the file just written.  A text either *)
(* has the word that queries ask for ("hit") or has not.                   *)
(***************************************************************************)
EXTENDS Integers, Sequences, FiniteSets, SequencesExt, FiniteSetsExt

CONSTANTS
    Keys,
    Builders,    \* the builder threads if there are any, numbered from 1
    QueueCap,    \* kBuilderQueueCap
    SegCap,      \* kBuildingFlushDocThreshold
    FanIn,       \* merge_fan_in
    MaxOrd,      \* bound: operations
    MaxFlush,    \* bound: checkpoints and compactions
    MaxCrash,    \* bound: crashes
    MaxQueries   \* bound: queries

TextIndexAssumption ==
    /\ Builders = 1 .. Cardinality(Builders)
    /\ QueueCap \in Nat \ {0} /\ SegCap \in Nat \ {0} /\ FanIn \in Nat \ {0}

Main == 0
Slots == Builders \union {Main}
None == [seg |-> 0, doc |-> 0, ord |-> 0, tomb |-> FALSE]

VARIABLES
    log,     \* ord -> what was done: the data files
    at,      \* the greatest ord the reducer has taken
    objs,    \* the segment objects ever made: rows, dead marks, and the file's id (0: none)
    slot,    \* slot -> the object it builds
    set,     \* SegmentSet: the listed objects, the next id, the ids to unlink
    loc,     \* key_to_location_
    wk,      \* slot -> what its writer is doing
    red,     \* what the reducer is doing
    disk,    \* segment files, .live sidecars, segments.manifest, bm25.ckpt, index.manifest
    qry,     \* a query and the cache
    used     \* counters for the bounds

vars == <<log, at, objs, slot, set, loc, wk, red, disk, qry, used>>

Op(what, k, hit) == [what |-> what, key |-> k, hit |-> hit]
Obj(rows, dead, id) == [rows |-> rows, dead |-> dead, id |-> id]
NewObj == Obj(<<>>, {}, 0)
Idle == [pc |-> "idle", ord |-> 0, doc |-> 0, mark |-> None, old |-> 0, new |-> 0, queue |-> <<>>]
Rest(pool) == [pc |-> "idle", pool |-> pool, next |-> 1, mark |-> None, new |-> 0, ins |-> {}]
NoCkpt == [wm |-> 0, ids |-> <<>>]
NoQuery == [pc |-> "idle", from |-> 0, views |-> <<>>, found |-> <<>>, cache |-> [kept |-> FALSE, ords |-> <<>>]]

Init ==
    /\ log = <<>> /\ at = 0
    /\ objs = [i \in 1 .. Cardinality(Slots) |-> NewObj]
    /\ slot = [s \in Slots |-> s + 1]
    /\ set = [list |-> <<>>, next |-> 0, unlink |-> {}]
    /\ loc = [k \in Keys |-> None]
    /\ wk = [s \in Slots |-> Idle]
    /\ red \in {Rest(pool) : pool \in BOOLEAN}
    /\ disk = [files |-> <<>>, lives |-> <<>>, man |-> [ids |-> <<>>, next |-> 0],
               ckpt |-> NoCkpt, prev |-> NoCkpt, committed |-> 0]
    /\ qry = NoQuery
    /\ used = [flushes |-> 0, crashes |-> 0, queries |-> 0]

-----------------------------------------------------------------------------
(* The document map, which the host updates before it tells the plugin.    *)

LastOf(k, n) == Max({0} \union {o \in 1..n : log[o].key = k})
IsLive(o) == log[o].what = "put" /\ LastOf(log[o].key, Len(log)) = o

RowsOf(g) == {[seg |-> g, doc |-> d] : d \in 1 .. Len(objs[g].rows)}
RowLive(r) == r.doc \notin objs[r.seg].dead
OrdOf(r) == objs[r.seg].rows[r.doc]
LiveCount(g) == Len(objs[g].rows) - Cardinality(objs[g].dead)

MarkDead(m) == IF m.seg = 0 THEN objs ELSE [objs EXCEPT ![m.seg].dead = @ \union {m.doc}]
Uncached(q) == [q EXCEPT !.cache = NoQuery.cache]
With(f, x, v) == [y \in DOMAIN f \union {x} |-> IF y = x THEN v ELSE f[y]]

-----------------------------------------------------------------------------
(* apply_job_impl_in: the writer of a slot, its builder or the reducer.    *)

\* The row is added unless a later version is known already.  (The code looks
\* under the lock, then adds: what comes between is met again by Register.)
Begin(s, o, queue) ==
    LET g == slot[s]
        late == loc[log'[o].key].ord > o
    IN  /\ wk' = [wk EXCEPT ![s] = [Idle EXCEPT !.pc = IF late THEN "invalidate" ELSE "register",
                                   !.ord = o, !.doc = Len(objs[g].rows) + 1, !.queue = queue]]
        /\ objs' = IF late THEN objs ELSE [objs EXCEPT ![g].rows = Append(@, o)]

TakeJob(s) ==
    /\ wk[s].pc = "idle" /\ wk[s].queue # <<>>
    /\ UNCHANGED <<log, at, slot, set, loc, red, disk, qry, used>>
    /\ Begin(s, Head(wk[s].queue), Tail(wk[s].queue))

Won_Always(prior, o) == TRUE

\* The later ord has the key, whichever comes first.
Won(prior, o) == prior.ord <= o

\* Under key_loc_mu_; the loser's row is marked after it.
Register(s) ==
    LET o == wk[s].ord  k == log[o].key
        own == [seg |-> slot[s], doc |-> wk[s].doc, ord |-> o, tomb |-> FALSE]
    IN  /\ wk[s].pc = "register"
        /\ loc' = IF Won(loc[k], o) THEN [loc EXCEPT ![k] = own] ELSE loc
        /\ wk' = [wk EXCEPT ![s].pc = "mark", ![s].mark = IF Won(loc[k], o) THEN loc[k] ELSE own]
        /\ UNCHANGED <<log, at, objs, slot, set, red, disk, qry, used>>

MarkLoser(s) ==
    /\ wk[s].pc = "mark"
    /\ objs' = MarkDead(wk[s].mark)
    /\ wk' = [wk EXCEPT ![s].pc = IF Len(objs[slot[s]].rows) >= SegCap THEN "switch" ELSE "invalidate",
                        ![s].mark = None]
    /\ UNCHANGED <<log, at, slot, set, loc, red, disk, qry, used>>

Invalidate(s) ==
    /\ wk[s].pc = "invalidate"
    /\ qry' = IF wk[s].ord # 0 /\ log[wk[s].ord].hit THEN Uncached(qry) ELSE qry
    /\ wk' = [wk EXCEPT ![s] = [Idle EXCEPT !.queue = wk[s].queue]]
    /\ UNCHANGED <<log, at, objs, slot, set, loc, red, disk, used>>

-----------------------------------------------------------------------------
(* flush_building_slot: an empty segment takes the slot; the full one is    *)
(* written, opened from its file and listed; then, under key_loc_mu_, the   *)
(* marks that came meanwhile are copied and the keys point at the new one. *)

\* A sidecar left by an earlier file of that name is read as this file's own.
Loadable(d, id) == id \in DOMAIN d.files /\ (id \in DOMAIN d.lives => d.lives[id].n = Len(d.files[id]))
Loaded(d, id) == Obj(d.files[id], IF id \in DOMAIN d.lives THEN d.lives[id].dead ELSE {}, id)

SideCar(g) == [n |-> Len(g.rows), dead |-> g.dead]

\* save_v2: the sidecar only if a row is dead.
Written(d, id, g) ==
    [d EXCEPT !.files = With(@, id, g.rows),
              !.lives = IF g.dead = {} THEN @ ELSE With(@, id, SideCar(g))]

Switch(s) ==
    /\ wk[s].pc = "switch"
    /\ objs' = Append(objs, NewObj)
    /\ slot' = [slot EXCEPT ![s] = Len(objs) + 1]
    /\ wk' = [wk EXCEPT ![s].pc = "save", ![s].old = slot[s]]
    /\ UNCHANGED <<log, at, set, loc, red, disk, qry, used>>

\* add_pending; if it fails, the slot gets its segment back.
Save(s) ==
    LET d == Written(disk, set.next, objs[wk[s].old])
        ok == Loadable(d, set.next)
    IN  /\ wk[s].pc = "save"
        /\ disk' = d
        /\ objs' = IF ok THEN Append(objs, Loaded(d, set.next)) ELSE objs
        /\ set' = [set EXCEPT !.next = @ + 1, !.list = IF ok THEN Append(@, Len(objs) + 1) ELSE @]
        /\ slot' = IF ok THEN slot ELSE [slot EXCEPT ![s] = wk[s].old]
        /\ wk' = [wk EXCEPT ![s].pc = IF ok THEN "repoint" ELSE "invalidate", ![s].new = Len(objs) + 1]
        /\ UNCHANGED <<log, at, loc, red, qry, used>>

Repointed(old, new, map) ==
    [k \in Keys |-> IF loc[k].seg = old /\ loc[k].doc \in DOMAIN map
                    THEN [loc[k] EXCEPT !.seg = new, !.doc = map[loc[k].doc]] ELSE loc[k]]

Repoint(s) ==
    LET old == wk[s].old  new == wk[s].new
    IN  /\ wk[s].pc = "repoint"
        /\ objs' = [objs EXCEPT ![new].dead = @ \union objs[old].dead]
        /\ loc' = Repointed(old, new, [d \in DOMAIN objs[old].rows |-> d])
        /\ wk' = [wk EXCEPT ![s].pc = "invalidate"]
        /\ UNCHANGED <<log, at, slot, set, red, disk, qry, used>>

-----------------------------------------------------------------------------
(* The reducer. *)

Drained == \A s \in Slots : wk[s].pc = "idle" /\ wk[s].queue = <<>>
ReducerFree == red.pc = "idle" /\ wk[Main].pc = "idle"

\* on_put: dispatch_job, which waits for room, or apply_job.
Put(o) ==
    LET b == red.next
    IN  IF red.pool
        THEN /\ Len(wk[b].queue) < QueueCap
             /\ wk' = [wk EXCEPT ![b].queue = Append(@, o)]
             /\ red' = [red EXCEPT !.next = IF b + 1 \in Builders THEN b + 1 ELSE 1]
             /\ UNCHANGED objs
        ELSE /\ Begin(Main, o, <<>>)
             /\ UNCHANGED red

\* on_delete: the cached answers go, the key gets a tombstone, its row is marked later.
Delete(o) ==
    LET k == log'[o].key  prior == loc[k]
        tomb == [seg |-> 0, doc |-> 0, ord |-> o, tomb |-> TRUE]
    IN  /\ loc' = IF Won(prior, o) THEN [loc EXCEPT ![k] = tomb] ELSE loc
        /\ red' = IF Won(prior, o) THEN [red EXCEPT !.pc = "mark", !.mark = prior] ELSE red
        /\ qry' = Uncached(qry)

MarkDeleted ==
    /\ red.pc = "mark"
    /\ objs' = MarkDead(red.mark)
    /\ red' = [red EXCEPT !.pc = "idle", !.mark = None]
    /\ UNCHANGED <<log, at, slot, set, loc, wk, disk, qry, used>>

Operate(what, k, hit) ==
    /\ ReducerFree /\ at = Len(log) /\ at < MaxOrd
    /\ log' = Append(log, Op(what, k, hit)) /\ at' = at + 1
    /\ \/ what = "put" /\ Put(at + 1) /\ UNCHANGED <<loc, qry>>
       \/ /\ what = "del" /\ LastOf(k, at) # 0 /\ IsLive(LastOf(k, at))
          /\ Delete(at + 1) /\ UNCHANGED <<wk, objs>>
    /\ UNCHANGED <<slot, set, disk, used>>

\* After a restart: puts are replayed, tombstones reach the document map only.
Replay ==
    /\ ReducerFree /\ at < Len(log)
    /\ at' = at + 1
    /\ UNCHANGED <<log, slot, set, loc, disk, qry, used>>
    /\ IF log[at + 1].what = "put" THEN Put(at + 1) ELSE UNCHANGED <<wk, red, objs>>

\* flush: the builders are drained, then every building segment is sealed.
Flush ==
    /\ ReducerFree /\ at = Len(log) /\ Drained /\ used.flushes < MaxFlush
    /\ used' = [used EXCEPT !.flushes = @ + 1]
    /\ red' = [red EXCEPT !.pc = "seal", !.new = 0]
    /\ UNCHANGED <<log, at, objs, slot, set, loc, wk, disk, qry>>

SealNext ==
    LET s == red.new
    IN  /\ red.pc = "seal" /\ Drained
        /\ IF s \in Slots
           THEN /\ wk' = [wk EXCEPT ![s].pc = IF objs[slot[s]].rows = <<>> THEN "idle" ELSE "switch"]
                /\ red' = [red EXCEPT !.new = s + 1]
           ELSE red' = [red EXCEPT !.pc = "merge", !.new = 0] /\ UNCHANGED wk
        /\ UNCHANGED <<log, at, objs, slot, set, loc, disk, qry, used>>

\* maybe_merge_segments: the segments half dead, or the oldest FanIn of a tier.
Count(i) == Len(objs[set.list[i]].rows)
HalfDead == {i \in DOMAIN set.list : Count(i) > 0 /\ 2 * LiveCount(set.list[i]) <= Count(i)}
Tier(i) == CHOOSE t \in 1..20 : 2^(t - 1) <= Count(i) /\ Count(i) < 2^t
Oldest(is) == {i \in is : Cardinality({j \in is : j < i}) < FanIn}
Tiers == {is \in {{j \in DOMAIN set.list : Count(j) > 0 /\ Tier(j) = t} : t \in 1..4} :
             Cardinality(is) >= FanIn}
Picks == IF HalfDead # {} THEN {Oldest(HalfDead)} ELSE {Oldest(is) : is \in Tiers}

\* merge_segments_v2: the live rows in the order of the inputs.
LiveRows(gs) ==
    FoldLeft(LAMBDA rows, g : rows \o SelectSeq([d \in DOMAIN objs[g].rows |-> [seg |-> g, doc |-> d]], RowLive),
             <<>>, gs)

\* The merged segment is listed beside its inputs.
MergeAdd ==
    /\ red.pc = "merge"
    /\ IF Picks = {} THEN /\ red' = [red EXCEPT !.pc = "resave"]
                         /\ UNCHANGED <<objs, set, disk>>
       ELSE \E pick \in Picks :
            LET gs == [n \in 1 .. Cardinality(pick) |->
                         set.list[CHOOSE i \in pick : Cardinality({j \in pick : j < i}) = n - 1]]
                rows == [n \in DOMAIN LiveRows(gs) |-> OrdOf(LiveRows(gs)[n])]
                d == Written(disk, set.next, Obj(rows, {}, set.next))
                ok == Loadable(d, set.next)
            IN  /\ disk' = IF ok THEN d ELSE disk
                /\ objs' = IF ok THEN Append(objs, Loaded(d, set.next)) ELSE objs
                /\ set' = [set EXCEPT !.next = @ + 1, !.list = IF ok THEN Append(@, Len(objs) + 1) ELSE @]
                /\ red' = IF ok THEN [red EXCEPT !.pc = "swap", !.new = Len(objs) + 1, !.ins = ToSet(gs)]
                          ELSE [red EXCEPT !.pc = "resave"]
    /\ UNCHANGED <<log, at, slot, loc, wk, qry, used>>


\* drop_pending: off the list now, the files go with the next commit.
Dropped(st, gs) ==
    [st EXCEPT !.list = SelectSeq(@, LAMBDA g : g \notin gs),
               !.unlink = @ \union {objs[g].id : g \in gs}]

\* The keys point at the merged segment, the inputs leave the list.
MergeSwap ==
    LET ins == SelectSeq(set.list, LAMBDA g : g \in red.ins)
        rows == LiveRows(ins)
        moved(k) == {n \in DOMAIN rows : rows[n].seg = loc[k].seg /\ rows[n].doc = loc[k].doc}
    IN  /\ red.pc = "swap"
        /\ loc' = [k \in Keys |-> IF moved(k) = {} THEN loc[k]
                                  ELSE [loc[k] EXCEPT !.seg = red.new, !.doc = CHOOSE n \in moved(k) : TRUE]]
        /\ set' = Dropped(set, red.ins)
        /\ red' = [red EXCEPT !.pc = "resave", !.new = 0, !.ins = {}]
        /\ UNCHANGED <<log, at, objs, slot, wk, disk, qry, used>>

-----------------------------------------------------------------------------
(* save_component_base, and the host's commit after it. *)

MarksOn(d, id) == IF id \in DOMAIN d.lives THEN d.lives[id].dead ELSE {}

Resaved(d, g) ==
    IF objs[g].dead = MarksOn(d, objs[g].id) THEN d
    ELSE [d EXCEPT !.lives = With(@, objs[g].id, SideCar(objs[g]))]

Resave ==
    /\ red.pc = "resave"
    /\ disk' = FoldLeft(Resaved, disk, set.list)
    /\ red' = [red EXCEPT !.pc = "list"]
    /\ UNCHANGED <<log, at, objs, slot, set, loc, wk, qry, used>>

Ids == [i \in DOMAIN set.list |-> objs[set.list[i]].id]
Without(f, xs) == [x \in DOMAIN f \ xs |-> f[x]]

\* segments.manifest, after which the files of the dropped segments go.
CommitList ==
    /\ red.pc = "list"
    /\ disk' = [disk EXCEPT !.man = [ids |-> Ids, next |-> set.next],
                            !.files = Without(@, set.unlink), !.lives = Without(@, set.unlink)]
    /\ set' = [set EXCEPT !.unlink = {}]
    /\ red' = [red EXCEPT !.pc = "ckpt"]
    /\ UNCHANGED <<log, at, objs, slot, loc, wk, qry, used>>

WriteCkpt ==
    /\ red.pc = "ckpt"
    /\ disk' = [disk EXCEPT !.prev = disk.ckpt, !.ckpt = [wm |-> at + 1, ids |-> Ids]]
    /\ red' = [red EXCEPT !.pc = "commit"]
    /\ UNCHANGED <<log, at, objs, slot, set, loc, wk, qry, used>>

Commit ==
    /\ red.pc = "commit"
    /\ disk' = [disk EXCEPT !.committed = at + 1]
    /\ red' = [red EXCEPT !.pc = "idle"]
    /\ UNCHANGED <<log, at, objs, slot, set, loc, wk, qry, used>>

\* compact, after a merge of the data files: the segments without a live row go.
Compact ==
    LET gone == {g \in ToSet(set.list) : LiveCount(g) = 0}
    IN  /\ ReducerFree /\ at = Len(log) /\ Drained /\ used.flushes < MaxFlush /\ gone # {}
        /\ set' = Dropped(set, gone)
        /\ used' = [used EXCEPT !.flushes = @ + 1]
        /\ UNCHANGED <<log, at, objs, slot, loc, wk, red, disk, qry>>

-----------------------------------------------------------------------------
(* A crash, and the open after it: load_component, init_segment_set. *)

AllLoad(d, ids) == \A i \in DOMAIN ids : Loadable(d, ids[i])

Opened(d) ==
    LET byCkpt == d.ckpt.wm = d.committed /\ d.committed # 0
        none == [ids |-> <<>>, next |-> 0]
        man == IF AllLoad(d, d.man.ids) THEN d.man ELSE none
        after(ids) == IF ids = <<>> THEN 0 ELSE Max(ToSet(ids)) + 1
    IN  IF byCkpt /\ AllLoad(d, d.ckpt.ids)
        THEN [ids |-> d.ckpt.ids, next |-> after(d.ckpt.ids), wm |-> d.committed]
        ELSE [ids |-> man.ids, next |-> man.next,
              wm |-> IF byCkpt /\ AllLoad(d, d.man.ids) THEN d.committed ELSE 1]

\* rebuild_key_locations: segment after segment, the last live row of a key.
Located(gs, first) ==
    [k \in Keys |->
        LET rows == {<<i, d>> \in (DOMAIN gs) \X (1..MaxOrd * 2) :
                        /\ d \in DOMAIN gs[i].rows \ gs[i].dead
                        /\ log[gs[i].rows[d]].key = k}
            last == CHOOSE r \in rows : \A q \in rows : q[1] < r[1] \/ (q[1] = r[1] /\ q[2] <= r[2])
        IN  IF rows = {} THEN None
            ELSE [seg |-> first + last[1], doc |-> last[2], ord |-> gs[last[1]].rows[last[2]], tomb |-> FALSE]]

Crash ==
    /\ used.crashes < MaxCrash
    /\ used' = [used EXCEPT !.crashes = @ + 1]
    /\ LET o == Opened(disk)
           gs == [i \in DOMAIN o.ids |-> Loaded(disk, o.ids[i])]
           first == Cardinality(Slots)
       IN  /\ objs' = [i \in 1..first |-> NewObj] \o gs
           /\ set' = [list |-> [i \in DOMAIN gs |-> first + i], next |-> o.next, unlink |-> {}]
           /\ loc' = Located(gs, first)
           /\ at' = o.wm - 1
    /\ slot' = [s \in Slots |-> s + 1]
    /\ wk' = [s \in Slots |-> Idle] /\ red' \in {Rest(pool) : pool \in BOOLEAN}
    /\ qry' = NoQuery
    /\ UNCHANGED <<log, disk>>

-----------------------------------------------------------------------------
(* A query (search_text): it waits until what was submitted is applied,    *)
(* then looks into the cache; else it takes the list of segments, then     *)
(* reads the slots, and keeps what it found.                               *)

\* materialize_hits: what the document map has as live.
Answered(found) == SelectSeq(found, IsLive)
Hits(views) ==
    FoldLeft(LAMBDA hits, g : hits \o
                 SelectSeq([d \in DOMAIN objs[g].rows |-> IF d \in objs[g].dead THEN 0 ELSE objs[g].rows[d]],
                           LAMBDA o : o # 0 /\ log[o].hit),
             <<>>, views)

Ask ==
    /\ qry.pc = "idle" /\ used.queries < MaxQueries
    /\ ReducerFree /\ at = Len(log) /\ Drained
    /\ used' = [used EXCEPT !.queries = @ + 1]
    /\ qry' = [qry EXCEPT !.pc = IF qry.cache.kept THEN "answer" ELSE "list",
                          !.from = at, !.found = qry.cache.ords]
    /\ UNCHANGED <<log, at, objs, slot, set, loc, wk, red, disk>>

TakeList ==
    /\ qry.pc = "list"
    /\ qry' = [qry EXCEPT !.pc = "slots", !.views = set.list]
    /\ UNCHANGED <<log, at, objs, slot, set, loc, wk, red, disk, used>>

ReadSlots ==
    /\ qry.pc = "slots"
    /\ LET views == qry.views \o [i \in 1 .. Cardinality(Slots) |-> slot[i - 1]]
       IN  qry' = [qry EXCEPT !.pc = "keep", !.found = Hits(views), !.views = <<>>]
    /\ UNCHANGED <<log, at, objs, slot, set, loc, wk, red, disk, used>>

Keep ==
    /\ qry.pc = "keep"
    /\ qry' = [qry EXCEPT !.pc = "answer", !.cache = [kept |-> TRUE, ords |-> qry.found]]
    /\ UNCHANGED <<log, at, objs, slot, set, loc, wk, red, disk, used>>

Answer ==
    /\ qry.pc = "answer"
    /\ qry' = [qry EXCEPT !.pc = "idle", !.from = 0, !.found = <<>>]
    /\ UNCHANGED <<log, at, objs, slot, set, loc, wk, red, disk, used>>

-----------------------------------------------------------------------------
Write(s) ==
    TakeJob(s) \/ Register(s) \/ MarkLoser(s) \/ Switch(s) \/ Save(s) \/ Repoint(s) \/ Invalidate(s)

Reduce ==
    \/ \E k \in Keys, hit \in BOOLEAN : Operate("put", k, hit)
    \/ \E k \in Keys : Operate("del", k, FALSE)
    \/ Replay \/ MarkDeleted
    \/ Flush \/ SealNext \/ MergeAdd \/ MergeSwap
    \/ Resave \/ CommitList \/ WriteCkpt \/ Commit \/ Compact

Query == Ask \/ TakeList \/ ReadSlots \/ Keep \/ Answer

Next == (\E s \in Slots : Write(s)) \/ Reduce \/ Query \/ Crash

Spec == Init /\ [][Next]_vars

-----------------------------------------------------------------------------
Listed == ToSet(set.list) \union {slot[s] : s \in Slots}
AllRows == UNION {RowsOf(g) : g \in Listed}
Quiet == ReducerFree /\ at = Len(log) /\ Drained

\* Whenever nothing is in progress, the segments hold one live row of every key
\* that exists, that of its last put, at the place key_to_location_ says, and
\* none of a key deleted since the last open: whatever the order the builders
\* came in, the marks, seals and merges between, and where a crash fell.
OneLiveRow ==
    Quiet => \A k \in Keys :
        LET o == LastOf(k, at)
            rows == {r \in AllRows : RowLive(r) /\ log[OrdOf(r)].key = k}
        IN  IF o # 0 /\ log[o].what = "put"
            THEN rows = {[seg |-> loc[k].seg, doc |-> loc[k].doc]} /\ loc[k].ord = o
            ELSE used.crashes = 0 => rows = {}

\* A query finds every document that was there when it was asked and still is,
\* once, and no other: no document is missed or found twice because it moved
\* from a building segment to a sealed one or from there to a merged one, or
\* because an answer was kept from before.
AnswersComplete ==
    qry.pc = "answer" =>
        LET found == Answered(qry.found)
        IN  /\ \A o \in 1 .. qry.from : IsLive(o) /\ log[o].hit => o \in ToSet(found)
            /\ IsInjective(found)
=============================================================================
