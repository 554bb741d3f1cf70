-------------------------------- MODULE Reads --------------------------------
(***************************************************************************)
(* The read path: get, parallel_scan, the cache of read handles and the    *)
(* retired files of src/cask/cask.cpp, and the fold iterator of            *)
(* src/cask/cask_iter.cpp.  A reader looks a location up and opens the     *)
(* file later; in between a writer rolls its active file and a merge moves *)
(* records, retires its inputs and deletes those of the merge before.      *)
(*                                                                         *)
(* A record is a key with the number of its version.  Files that are open  *)
(* can be read after they are deleted.  Expiry, filters and checksums are  *)
(* left out.                                                               *)
(***************************************************************************)
EXTENDS Integers, Sequences, FiniteSets, SequencesExt, FiniteSetsExt

CONSTANTS
    Keys,
    Readers,
    HandleCap,      \* how many read handles the cache keeps
    MaxPuts,        \* bounds: versions, rolls, merges, checkpoints, calls
    MaxRolls,
    MaxMerges,
    MaxDrains,
    MaxCalls

VARIABLES
    disk,       \* the files there are, and what was ever written to each
    kd,         \* the location of every key
    active,     \* the file the writer appends to, and the number of the next
    cache,      \* the read handles, the one used longest ago first
    retired,
    merge,
    reader,
    fold,
    used,
    closed

vars == <<disk, kd, active, cache, retired, merge, reader, fold, used, closed>>

Nowhere == [file |-> 0, ver |-> 0]
NoMerge == [pc |-> "idle", inputs |-> {}, out |-> 0, left |-> {}, copied |-> {}]
Resting == [pc |-> "idle", kind |-> "get", todo |-> {}, key |-> CHOOSE k \in Keys : TRUE, at |-> Nowhere,
            attempt |-> 0, df |-> [file |-> 0, mapped |-> {}], got |-> <<>>, failed |-> FALSE, since |-> <<>>, over |-> 0]
NoFold == [pc |-> "idle", snap |-> <<>>, listed |-> {}, spared |-> 0, pinned |-> {}, todo |-> {}, got |-> <<>>, failed |-> FALSE]

(* One sealed file with every key, and a fresh active one. *)
Init ==
    /\ disk = [files |-> {1, 2}, rows |-> <<[k \in Keys |-> {1}], [k \in Keys |-> {}]>>]
    /\ kd = [k \in Keys |-> [file |-> 1, ver |-> 1]]
    /\ active = [file |-> 2, next |-> 3]
    /\ cache = <<>>
    /\ retired = {}
    /\ merge = NoMerge
    /\ reader = [r \in Readers |-> Resting]
    /\ fold = NoFold
    /\ used = [puts |-> 1, rolls |-> 0, merges |-> 0, drains |-> 0, calls |-> 0]
    /\ closed = FALSE

Holds(f, k, v) == v \in disk.rows[f][k]

-----------------------------------------------------------------------------
(* The writer. *)

(* What the readers at work have lived through. *)
Noted(k, v) == [r \in Readers |-> IF reader[r].pc \in {"idle", "done"} THEN reader[r]
                                  ELSE [reader[r] EXCEPT !.since[k] = @ \union {v}]]

Put(k) ==
    /\ ~closed
    /\ active.file # 0
    /\ used.puts < MaxPuts
    /\ LET v == used.puts + 1
       IN  /\ disk' = [disk EXCEPT !.rows[active.file][k] = @ \union {v}]
           /\ kd' = [kd EXCEPT ![k] = [file |-> active.file, ver |-> v]]
           /\ reader' = Noted(k, v)
           /\ used' = [used EXCEPT !.puts = v]
    /\ UNCHANGED <<active, cache, retired, merge, fold, closed>>

RemoveKey(k) ==
    /\ ~closed
    /\ active.file # 0
    /\ used.puts < MaxPuts
    /\ kd[k] # Nowhere
    /\ kd' = [kd EXCEPT ![k] = Nowhere]
    /\ reader' = Noted(k, 0)
    /\ used' = [used EXCEPT !.puts = @ + 1]
    /\ UNCHANGED <<disk, active, cache, retired, merge, fold, closed>>

(* The active file is sealed and the next one begun. *)
Roll ==
    /\ ~closed
    /\ used.rolls < MaxRolls
    /\ active' = [file |-> active.next, next |-> active.next + 1]
    /\ disk' = [files |-> disk.files \union {active.next},
                rows |-> Append(disk.rows, [k \in Keys |-> {}])]
    /\ used' = [used EXCEPT !.rolls = @ + 1]
    /\ UNCHANGED <<kd, cache, retired, merge, reader, fold, closed>>

(* drain_retired_files: what the merge before has left is deleted now.     *)
Drained == [disk EXCEPT !.files = @ \ retired]

(* checkpoint begins with it, *)
Checkpoint ==
    /\ ~closed
    /\ used.drains < MaxDrains
    /\ disk' = Drained
    /\ retired' = {}
    /\ used' = [used EXCEPT !.drains = @ + 1]
    /\ UNCHANGED <<kd, active, cache, merge, reader, fold, closed>>

(* and so does a merge.  It takes sealed files, *)
MergeStart ==
    /\ ~closed
    /\ merge.pc = "idle"
    /\ used.merges < MaxMerges
    /\ \E inputs \in SUBSET (disk.files \ (retired \union {active.file})) :
        /\ inputs # {}
        /\ merge' = [NoMerge EXCEPT !.pc = "copy", !.inputs = inputs, !.out = active.next, !.left = inputs]
    /\ disk' = [files |-> Drained.files \union {active.next},
                rows |-> Append(disk.rows, [k \in Keys |-> {}])]
    /\ active' = [active EXCEPT !.next = @ + 1]
    /\ retired' = {}
    /\ used' = [used EXCEPT !.merges = @ + 1]
    /\ UNCHANGED <<kd, cache, reader, fold, closed>>

(* copies what is live in one, *)
MergeCopy ==
    /\ merge.pc = "copy"
    /\ merge.left # {}
    /\ \E f \in merge.left :
        LET live == {k \in Keys : kd[k].file = f}
        IN  /\ disk' = [disk EXCEPT !.rows[merge.out] =
                          [k \in Keys |-> IF k \in live THEN @[k] \union {kd[k].ver} ELSE @[k]]]
            /\ merge' = [merge EXCEPT !.pc = "apply", !.left = @ \ {f},
                            !.copied = {[key |-> k, at |-> kd[k]] : k \in live}]
    /\ UNCHANGED <<kd, active, cache, retired, reader, fold, used, closed>>

(* moves the locations that have not changed since, *)
MergeApply ==
    /\ merge.pc = "apply"
    /\ kd' = [k \in Keys |-> IF [key |-> k, at |-> kd[k]] \in merge.copied
                             THEN [kd[k] EXCEPT !.file = merge.out] ELSE kd[k]]
    /\ merge' = [merge EXCEPT !.pc = "copy", !.copied = {}]
    /\ UNCHANGED <<disk, active, cache, retired, reader, fold, used, closed>>

(* and retires its inputs, whose handles leave the cache. *)
MergeEnd ==
    /\ merge.pc = "copy"
    /\ merge.left = {}
    /\ cache' = SelectSeq(cache, LAMBDA h : h.file \notin merge.inputs)
    /\ retired' = retired \union merge.inputs
    /\ merge' = NoMerge
    /\ reader' = [r \in Readers |-> [reader[r] EXCEPT !.over = IF reader[r].pc \in {"idle", "done"} THEN 0 ELSE @ + 1]]
    /\ UNCHANGED <<disk, kd, active, fold, used, closed>>

(* close: handles go before the files; iterators may live on. *)
Close ==
    /\ ~closed
    /\ merge.pc = "idle"
    /\ \A r \in Readers : reader[r].pc \in {"idle", "done"}
    /\ closed' = TRUE
    /\ cache' = <<>>
    /\ active' = [active EXCEPT !.file = 0]
    /\ disk' = Drained
    /\ retired' = {}
    /\ UNCHANGED <<kd, merge, reader, fold, used>>

-----------------------------------------------------------------------------
(* read_file: the cached handle, the active file itself, or a new handle   *)
(* that joins the cache; then idle handles beyond the cap are dropped.     *)
Handle(f) == [file |-> f, mapped |-> {<<k, v>> \in Keys \X (1..MaxPuts) : Holds(f, k, v)}]
Cached(f) == {h \in ToSet(cache) : h.file = f}
Openable(f) == Cached(f) # {} \/ f = active.file \/ f \in disk.files
Given(f) == IF Cached(f) # {} THEN CHOOSE h \in Cached(f) : TRUE
            ELSE IF f = active.file THEN [file |-> f, mapped |-> {}]
            ELSE Handle(f)

InUse == {reader[r].df.file : r \in Readers}
Evicted(c) ==
    LET idle == SelectSeq(SubSeq(c, 1, Len(c) - 1), LAMBDA h : h.file \notin InUse)
        over == Len(c) - HandleCap
        gone == IF over <= 0 THEN {} ELSE ToSet(SubSeq(idle, 1, Min({over, Len(idle)})))
    IN  SelectSeq(c, LAMBDA h : h \notin gone)

Opened(f) ==
    cache' = IF Cached(f) # {} THEN SelectSeq(cache, LAMBDA h : h.file # f) \o <<Given(f)>>
             ELSE IF f = active.file THEN cache
             ELSE Evicted(Append(cache, Handle(f)))

(* A record behind the end of what was mapped is read from the file.       *)
Readable_Mapped(df, k, v) == df.mapped = {} \/ <<k, v>> \in df.mapped
Readable(df, k, v) == <<k, v>> \in df.mapped \/ Holds(df.file, k, v)

(* get of a key, or a scan: the keys there are, then a get of each.        *)
Call(r) ==
    /\ ~closed
    /\ reader[r].pc \in {"idle", "done"}
    /\ used.calls < MaxCalls
    /\ used' = [used EXCEPT !.calls = @ + 1]
    /\ \E kind \in {"get", "scan"}, k \in Keys :
        reader' = [reader EXCEPT ![r] = [Resting EXCEPT !.pc = "pick", !.kind = kind,
                     !.todo = IF kind = "get" THEN {k} ELSE {x \in Keys : kd[x] # Nowhere},
                     !.since = [x \in Keys |-> {kd[x].ver}]]]
    /\ UNCHANGED <<disk, kd, active, cache, retired, merge, fold, closed>>

Read(r, v) == reader' = [reader EXCEPT ![r] = v]

Answer(r, ver) ==
    Read(r, [reader[r] EXCEPT !.pc = "pick", !.df = Resting.df,
               !.got = [k \in DOMAIN @ \union {reader[r].key} |-> IF k = reader[r].key THEN ver ELSE @[k]]])

Pick(r) ==
    /\ reader[r].pc = "pick"
    /\ IF reader[r].todo = {} THEN Read(r, [reader[r] EXCEPT !.pc = "done"])
       ELSE \E k \in reader[r].todo :
             Read(r, [reader[r] EXCEPT !.pc = "locate", !.key = k, !.todo = @ \ {k}, !.attempt = 0])
    /\ UNCHANGED <<disk, kd, active, cache, retired, merge, fold, used, closed>>

Locate(r) ==
    /\ reader[r].pc = "locate"
    /\ LET at == kd[reader[r].key]
       IN  IF at = Nowhere THEN Answer(r, 0)
           ELSE Read(r, [reader[r] EXCEPT !.pc = "open", !.at = at])
    /\ UNCHANGED <<disk, kd, active, cache, retired, merge, fold, used, closed>>

(* The file is gone: look the key up once more, then give up. *)
Failed(r) == Read(r, [reader[r] EXCEPT !.pc = "done", !.failed = TRUE, !.df = Resting.df])

Open(r) ==
    /\ reader[r].pc = "open"
    /\ LET f == reader[r].at.file
       IN  IF Openable(f)
           THEN Opened(f) /\ Read(r, [reader[r] EXCEPT !.pc = "read", !.df = Given(f)])
           ELSE /\ IF reader[r].attempt = 0
                   THEN Read(r, [reader[r] EXCEPT !.pc = "locate", !.attempt = 1])
                   ELSE Failed(r)
                /\ UNCHANGED cache
    /\ UNCHANGED <<disk, kd, active, retired, merge, fold, used, closed>>

ReadRecord(r) ==
    /\ reader[r].pc = "read"
    /\ IF Readable(reader[r].df, reader[r].key, reader[r].at.ver) THEN Answer(r, reader[r].at.ver) ELSE Failed(r)
    /\ UNCHANGED <<disk, kd, active, cache, retired, merge, fold, used, closed>>

-----------------------------------------------------------------------------
(* CaskIter::start: a snapshot of the keydir; *)
FoldStart ==
    /\ ~closed
    /\ fold.pc = "idle"
    /\ fold' = [NoFold EXCEPT !.pc = "list", !.snap = kd, !.todo = {k \in Keys : kd[k] # Nowhere}]
    /\ UNCHANGED <<disk, kd, active, cache, retired, merge, reader, used, closed>>

(* pin_files: the directory, *)
List ==
    /\ fold.pc = "list"
    /\ fold' = [fold EXCEPT !.pc = "pin", !.listed = disk.files]
    /\ UNCHANGED <<disk, kd, active, cache, retired, merge, reader, used, closed>>

(* and a handle on every file of it but the active one. *)
Pinnable_None == {}
Pinnable == (fold.listed \intersect disk.files) \ {active.file}
Pin ==
    /\ fold.pc = "pin"
    /\ fold' = [fold EXCEPT !.pc = "next", !.spared = active.file, !.pinned = Pinnable]
    /\ UNCHANGED <<disk, kd, active, cache, retired, merge, reader, used, closed>>

(* next: from the pinned handle, or through the cache. *)
FoldNext ==
    /\ fold.pc = "next"
    /\ \E k \in fold.todo :
        LET f == fold.snap[k].file
            v == fold.snap[k].ver
            done == [fold EXCEPT !.todo = @ \ {k},
                        !.got = [x \in DOMAIN @ \union {k} |-> IF x = k THEN v ELSE @[x]]]
        IN  IF f \in fold.pinned THEN fold' = done /\ UNCHANGED cache
            ELSE IF Openable(f)
                 THEN /\ fold' = IF Readable(Given(f), k, v) THEN done
                                 ELSE [fold EXCEPT !.todo = @ \ {k}, !.failed = TRUE]
                      /\ Opened(f)
                 ELSE fold' = [fold EXCEPT !.todo = @ \ {k}, !.failed = TRUE] /\ UNCHANGED cache
    /\ UNCHANGED <<disk, kd, active, retired, merge, reader, used, closed>>

(* release: the handles and the snapshot go. *)
Release ==
    /\ fold.pc = "next"
    /\ fold.todo = {}
    /\ fold' = [NoFold EXCEPT !.pc = "released"]
    /\ UNCHANGED <<disk, kd, active, cache, retired, merge, reader, used, closed>>

-----------------------------------------------------------------------------
Others ==
    \/ Roll \/ Checkpoint \/ Close
    \/ MergeStart \/ MergeCopy \/ MergeApply \/ MergeEnd
    \/ \E k \in Keys : Put(k) \/ RemoveKey(k)
Reading ==
    \/ FoldStart \/ List \/ Pin \/ FoldNext \/ Release
    \/ \E r \in Readers : Call(r) \/ Pick(r) \/ Locate(r) \/ Open(r) \/ ReadRecord(r)

Next == Others \/ Reading

Spec == Init /\ [][Next]_vars

-----------------------------------------------------------------------------
(* A get answers with a version the key had during the call, or with none  *)
(* when it had none; a scan gets every key that was there all along.  Only *)
(* a call that two merges have overtaken may fail.                         *)
GetsAnswer ==
    \A r \in Readers : reader[r].pc = "done" =>
        /\ \A k \in DOMAIN reader[r].got : reader[r].got[k] \in reader[r].since[k]
        /\ reader[r].failed => reader[r].over >= 2
        /\ (reader[r].kind = "scan" /\ ~reader[r].failed) =>
            \A k \in Keys : 0 \notin reader[r].since[k] => k \in DOMAIN reader[r].got

(* A fold reads, for every key of its snapshot, the version it had then,   *)
(* whatever is put, removed, rolled, merged and deleted meanwhile.         *)
FoldReads ==
    /\ ~fold.failed
    /\ fold.pc = "next" => \A k \in DOMAIN fold.got : fold.got[k] = fold.snap[k].ver
=============================================================================
