------------------------------ MODULE RunFormat ------------------------------
(***************************************************************************)
(* The file format of the ordered key index: src/fileops/oki_run.cpp.      *)
(* A run is a sorted table of rows in blocks.  Inside a block a key is the *)
(* length it shares with the key before and its suffix, and ordinals and   *)
(* time stamps are differences that wrap around; the state of the          *)
(* differences starts afresh with every block.  Beside the blocks a run    *)
(* has the first key of each and a Bloom filter.                           *)
(*                                                                         *)
(* A key is a sequence of characters, a row a record; bytes, checksums,    *)
(* magic numbers and the header are left out.                              *)
(***************************************************************************)
EXTENDS Integers, Sequences, FiniteSets, SequencesExt, FiniteSetsExt

CONSTANTS
    BlockTarget,    \* a block is closed when it holds this many bytes
    W               \* ordinals and time stamps are numbers modulo W

NoLoc == [file |-> 0, ts |-> 0]
Row(k, o, tomb, loc) == [key |-> k, ord |-> o, tomb |-> tomb, loc |-> loc]

(* Keys compare byte by byte, the shorter first. *)
Less(a, b) ==
    \/ IsStrictPrefix(a, b)
    \/ \E i \in 1..Min({Len(a), Len(b)}) :
        a[i] < b[i] /\ \A j \in 1..(i-1) : a[j] = b[j]

Shared(a, b) == Len(LongestCommonPrefix({a, b}))

-----------------------------------------------------------------------------
(* OkiRunWriter. *)

NoPrev == [key |-> <<>>, ord |-> 0, ts |-> 0]
NewWriter == [blk |-> <<>>, prev |-> NoPrev, last |-> <<>>, any |-> FALSE, blocks |-> <<>>,
              firsts |-> <<>>, first |-> <<>>, keys |-> {}, ok |-> TRUE]

(* What a row takes: two lengths, the ordinal, the flags and the suffix.   *)
Bytes(blk) == FoldLeft(LAMBDA n, e : n + 4 + Len(e.suffix), 0, blk)

FlushBlock(w) ==
    IF w.blk = <<>> THEN w
    ELSE [w EXCEPT !.blocks = Append(@, w.blk), !.firsts = Append(@, w.first),
                   !.blk = <<>>, !.prev = NoPrev, !.first = <<>>]

Encode(prev, r) ==
    LET n == Shared(prev.key, r.key)
    IN  [shared |-> n, suffix |-> SubSeq(r.key, n + 1, Len(r.key)), tomb |-> r.tomb,
         ord    |-> (r.ord - prev.ord) % W,
         loc    |-> r.loc # NoLoc, file |-> r.loc.file,
         ts     |-> IF r.loc # NoLoc THEN (r.loc.ts - prev.ts) % W ELSE 0]

(* Keys that do not rise are refused, and the writer gives up. *)
Add(w, r) ==
    IF w.any /\ ~Less(w.last, r.key) THEN [w EXCEPT !.ok = FALSE]
    ELSE LET grown == [w EXCEPT
                !.blk   = Append(@, Encode(w.prev, r)),
                !.first = IF w.blk = <<>> THEN r.key ELSE @,
                !.prev  = [key |-> r.key, ord |-> r.ord, ts |-> IF r.loc # NoLoc THEN r.loc.ts ELSE @.ts],
                !.last  = r.key,
                !.any   = TRUE,
                !.keys  = @ \union {r.key}]
         IN  IF Bytes(grown.blk) >= BlockTarget THEN FlushBlock(grown) ELSE grown

Finish(w) ==
    LET done == FlushBlock(w)
    IN  [blocks |-> done.blocks, firsts |-> done.firsts, keys |-> done.keys]

WriteRun(rows) == Finish(FoldLeft(Add, NewWriter, rows))

-----------------------------------------------------------------------------
(* OkiRunReader. *)

(* open refuses a file whose sparse index is not one rising key per block  *)
(* or whose blocks are empty.                                              *)
Opens(run) ==
    /\ Len(run.firsts) = Len(run.blocks)
    /\ \A i \in 2..Len(run.firsts) : Less(run.firsts[i-1], run.firsts[i])
    /\ \A b \in ToSet(run.blocks) : b # <<>>

Decode(blk) ==
    LET Next(s, e) ==
            LET r == Row(SubSeq(s.prev.key, 1, e.shared) \o e.suffix, (s.prev.ord + e.ord) % W, e.tomb,
                         IF e.loc THEN [file |-> e.file, ts |-> (s.prev.ts + e.ts) % W] ELSE NoLoc)
            IN  [rows |-> Append(s.rows, r),
                 prev |-> [key |-> r.key, ord |-> r.ord, ts |-> IF e.loc THEN r.loc.ts ELSE s.prev.ts]]
    IN  FoldLeft(Next, [rows |-> <<>>, prev |-> NoPrev], blk).rows

(* A cursor is what is left to read. *)
From(run, b) == FlattenSeq([i \in 1..(Len(run.blocks) - b + 1) |-> Decode(run.blocks[b + i - 1])])

(* The last block whose first key is not above lo; the first when all are. *)
StartBlock(run, lo) ==
    LET below == {b \in DOMAIN run.blocks : ~Less(lo, run.firsts[b])}
    IN  IF below = {} THEN 1 ELSE Max(below)

SeekFrom(run, lo, b) ==
    LET rows == From(run, b)
        n == Cardinality({i \in DOMAIN rows : \A j \in 1..i : Less(rows[j].key, lo)})
    IN  SubSeq(rows, n + 1, Len(rows))

Seek(run, lo) ==
    IF lo = <<>> \/ run.blocks = <<>> THEN From(run, 1) ELSE SeekFrom(run, lo, StartBlock(run, lo))

(* may_contain: what was inserted, and false positives. *)
MayContain(run, key, falsely) == key \in run.keys \/ key \in falsely

Find(run, key) ==
    LET c == Seek(run, key)
    IN  IF c # <<>> /\ Head(c).key = key THEN <<Head(c)>> ELSE <<>>
=============================================================================
