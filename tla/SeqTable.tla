------------------------------ MODULE SeqTable ------------------------------
(***************************************************************************)
(* One shard's hash table (include/bitcask/seq_shard_table.hpp) with the   *)
(* epoch registry that keeps its memory alive (epoch_reclaim.hpp) and      *)
(* KeyDir::get_impl, which reads it without the shard's lock.              *)
(*                                                                         *)
(* A writer holds the shard's lock.  What an operation stores is planned   *)
(* when it begins (nobody else stores) and carried out one store at a      *)
(* time, so that a reader sees the table between any two stores.  A reader *)
(* loads one word at a time; every "seq_changed" of the code is a step of  *)
(* its own.  Loads and stores are sequentially consistent, as the file's   *)
(* argument for x86 with its fences has it.                                *)
(***************************************************************************)
EXTENDS Integers, Sequences, FiniteSets, TLC

CONSTANTS
    Keys, Vals, Readers, None,
    Long,           \* the keys whose bytes are on the heap, not in the string object
    Hash,           \* StringHash, its low 32 bits: Keys -> Nat
    MinBuckets,     \* bucket_need's smallest table
    ReclaimAt,      \* kReclaimThreshold
    Attempts,       \* tries of get_impl before it takes the lock
    MaxOps,         \* bound: operations of the writers
    MaxCalls        \* bound: look-ups without the lock

VARIABLES
    tab,        \* the table's own fields, the limbo and the registry's counter
    mem,        \* what its blocks hold, and which of them have been freed
    wr,         \* the writer: the stores left to do, and how far its scan of the slots is
    rd,         \* reader -> its locals
    count       \* operations and look-ups begun

vars == <<tab, mem, wr, rd, count>>

Free == [frag |-> 0, idx |-> 0]
NoCell == [key |-> None, buf |-> 0, lo |-> None, hi |-> None]

-----------------------------------------------------------------------------
(* The table, for one who holds the lock. *)

Buckets == mem.bkts[tab.bb]
Mask(block) == Cardinality(DOMAIN block) - 1
Cells == mem.vals[tab.vb]
After(i, mask) == (i + 1) % (mask + 1)

RECURSIVE BucketNeed(_, _)
BucketNeed(n, cap) == IF cap * 3 < n * 4 THEN BucketNeed(n, 2 * cap) ELSE cap

RECURSIVE FirstFree(_, _)
FirstFree(block, i) == IF block[i].idx = 0 THEN i ELSE FirstFree(block, After(i, Mask(block)))

\* The slot place_bucket chooses.
Place(block, k) == FirstFree(block, Hash[k] % (Mask(block) + 1))

RECURSIVE FindFrom(_, _)
FindFrom(k, i) ==
    LET b == Buckets[i]
    IN  CASE b.idx = 0 -> 0
          [] b.idx # 0 /\ b.frag = Hash[k] /\ Cells[b.idx].key = k -> b.idx
          [] OTHER -> FindFrom(k, After(i, Mask(Buckets)))
Find(k) == IF tab.bb = 0 THEN 0 ELSE FindFrom(k, Hash[k] % (Mask(Buckets) + 1))

\* The slot whose item is number idx (the loops of remove_bucket and rewire_bucket).
RECURSIVE SlotOf(_, _, _)
SlotOf(block, i, idx) == IF block[i].idx = idx THEN i ELSE SlotOf(block, After(i, Mask(block)), idx)

-----------------------------------------------------------------------------
(* What an operation stores, in order. *)

Slot(i, b) == [do |-> "slot", at |-> i, to |-> b]
Cell(i, c) == [do |-> "cell", at |-> i, to |-> c]
Word(i, w, x) == [do |-> "word", at |-> i, word |-> w, to |-> x]
Retire(what) == [do |-> "retire", what |-> what]
Do(what, x) == [do |-> what, to |-> x]

\* grow_buckets_to: the new block is filled before its pointer is stored.
RECURSIVE Rebuilt(_, _)
Rebuilt(block, i) ==
    IF i > tab.size THEN block
    ELSE LET k == Cells[i].key
         IN  Rebuilt([block EXCEPT ![Place(block, k)] = [frag |-> Hash[k], idx |-> i]], i + 1)
GrownBuckets(cap) == Rebuilt([i \in 0 .. cap - 1 |-> Free], 1)
Grows(cap) == tab.bb = 0 \/ Mask(Buckets) + 1 < cap
GrowBuckets(cap) ==
    IF ~Grows(cap) THEN <<>>
    ELSE <<Do("buckets", GrownBuckets(cap))>>
         \o IF tab.bb = 0 THEN <<>> ELSE <<Retire(<<"bkts", tab.bb>>)>>

\* emplace_back: a full array moves its cells to one twice as long; the old
\* array is retired by LimboAllocator::deallocate.
Capacity == Cardinality(DOMAIN Cells)
Full == tab.size = Capacity
Doubled(cell) ==
    LET cap == IF Capacity = 0 THEN 1 ELSE 2 * Capacity
    IN  [i \in 1 .. cap |-> CASE i <= tab.size -> Cells[i] [] i = tab.size + 1 -> cell [] OTHER -> NoCell]
Emplace(cell) ==
    IF ~Full THEN <<Cell(tab.size + 1, cell)>>
    ELSE [i \in 1 .. tab.size |-> Cell(i, [Cells[i] EXCEPT !.key = None, !.buf = 0])]
         \o <<Do("values", Doubled(cell)), Retire(<<"vals", tab.vb>>)>>

CellOf(k, v) == [key |-> k, buf |-> IF k \in Long THEN mem.next ELSE 0, lo |-> v, hi |-> v]

InsertNew(k, v) ==
    LET cap == BucketNeed(tab.size + 1, MinBuckets)
        block == IF Grows(cap) THEN GrownBuckets(cap) ELSE Buckets
    IN  GrowBuckets(cap) \o Emplace(CellOf(k, v)) \o <<Do("size", tab.size + 1)>>
        \o <<Slot(Place(block, k), [frag |-> Hash[k], idx |-> tab.size + 1])>>

Overwrite(i, v) == <<Word(i, "lo", v), Word(i, "hi", v)>>

\* Not to be moved into the hole: the item's home lies in (hole, j], going round.
InCyclicRange_NoWrap(home, hole, j) == home > hole /\ home <= j
InCyclicRange(home, hole, j) ==
    IF hole < j THEN home > hole /\ home <= j ELSE home > hole \/ home <= j

RECURSIVE Shift(_, _, _)
Shift(block, hole, j) ==
    LET b == block[j]
        mask == Mask(block)
    IN  CASE b.idx = 0 -> <<Slot(hole, Free)>>
          [] b.idx # 0 /\ InCyclicRange(b.frag % (mask + 1), hole, j) ->
                Shift(block, hole, After(j, mask))
          [] OTHER -> <<Slot(hole, b)>> \o Shift([block EXCEPT ![hole] = b], j, After(j, mask))
RemoveBucket(i) ==
    LET at == SlotOf(Buckets, Hash[Cells[i].key] % (Mask(Buckets) + 1), i)
    IN  Shift(Buckets, at, After(at, Mask(Buckets)))

RECURSIVE AfterSlots(_, _)
AfterSlots(block, stores) ==
    IF stores = <<>> THEN block
    ELSE AfterSlots([block EXCEPT ![Head(stores).at] = Head(stores).to], Tail(stores))

\* The last cell takes the place of the erased one and its bucket follows.
SwapLast(i) ==
    LET last == tab.size
        block == AfterSlots(Buckets, RemoveBucket(i))
        at == SlotOf(block, Hash[Cells[last].key] % (Mask(block) + 1), last)
    IN  IF i = last THEN <<>>
        ELSE <<Cell(i, Cells[last]), Cell(last, [Cells[last] EXCEPT !.key = None, !.buf = 0]),
               Slot(at, [block[at] EXCEPT !.idx = i])>>

\* The key's bytes go to the limbo before anything else, the value's remains too
\* (they are never followed by a reader: only the stamp is kept).
Erase(i) ==
    <<Retire(<<"key", Cells[i].buf>>), Cell(i, [Cells[i] EXCEPT !.key = None, !.buf = 0]), Retire(<<"val", 0>>)>>
    \o RemoveBucket(i) \o SwapLast(i) \o <<Do("size", tab.size - 1)>>

\* The outermost section makes seq odd, and publishes array and size before it
\* makes it even again.
WriteSection(stores) == <<Do("odd", 0)>> \o stores \o <<Do("publish", 0), Do("even", 0)>>

-----------------------------------------------------------------------------
(* The writer. *)

\* The locals of one try.
Fresh == [s1 |-> 0, bb |-> 0, pub |-> <<0, 0>>, i |-> 0, probes |-> 0, bk |-> Free, obj |-> <<None, 0>>,
          lo |-> None, hi |-> None, then |-> "idle"]

Init ==
    /\ tab = [seq |-> 0, bb |-> 0, vb |-> 1, size |-> 0, pub |-> <<0, 0>>,
              limbo |-> {}, epoch |-> 1, truth |-> [k \in Keys |-> None]]
    /\ mem = [bkts |-> <<>>, vals |-> <<<<>>>>, next |-> 1, dead |-> {}]
    /\ wr = [todo |-> <<>>, key |-> None, val |-> None, scan |-> {}, least |-> 0]
    /\ rd = [r \in Readers |->
                Fresh @@ [pc |-> "idle", key |-> None, cur |-> 0, active |-> 0, tries |-> 0, truths |-> {}]]
    /\ count = [ops |-> 0, calls |-> 0]

Unlocked == wr.todo = <<>> /\ wr.scan = {} /\ wr.least = 0

Begin(k, v, stores) ==
    /\ Unlocked /\ count.ops < MaxOps
    /\ count' = [count EXCEPT !.ops = @ + 1]
    /\ wr' = [wr EXCEPT !.todo = WriteSection(stores), !.key = k, !.val = v]
    /\ mem' = [mem EXCEPT !.next = @ + 1]
    /\ UNCHANGED <<tab, rd>>

Put(k, v) ==
    \/ Find(k) = 0 /\ Begin(k, v, InsertNew(k, v))
    \/ Find(k) # 0 /\ tab.truth[k] # v /\ Begin(k, v, Overwrite(Find(k), v))

Drop(k) == Find(k) # 0 /\ Begin(k, None, Erase(Find(k)))

Retired(what) ==
    tab' = [tab EXCEPT !.epoch = @ + 1, !.limbo = @ \cup {[stamp |-> tab.epoch + 1, what |-> what]}]

Store(s) ==
    CASE s.do = "slot" -> mem' = [mem EXCEPT !.bkts[tab.bb][s.at] = s.to] /\ UNCHANGED tab
      [] s.do = "cell" -> mem' = [mem EXCEPT !.vals[tab.vb][s.at] = s.to] /\ UNCHANGED tab
      [] s.do = "word" ->
            mem' = [mem EXCEPT !.vals[tab.vb][s.at] =
                        IF s.word = "lo" THEN [@ EXCEPT !.lo = s.to] ELSE [@ EXCEPT !.hi = s.to]]
            /\ UNCHANGED tab
      [] s.do = "buckets" ->
            mem' = [mem EXCEPT !.bkts = Append(@, s.to)] /\ tab' = [tab EXCEPT !.bb = Len(mem.bkts) + 1]
      [] s.do = "values" ->
            mem' = [mem EXCEPT !.vals = Append(@, s.to)] /\ tab' = [tab EXCEPT !.vb = Len(mem.vals) + 1]
      [] s.do = "size" -> tab' = [tab EXCEPT !.size = s.to] /\ UNCHANGED mem
      [] s.do = "retire" -> Retired(s.what) /\ UNCHANGED mem
      [] s.do = "odd" -> tab' = [tab EXCEPT !.seq = @ + 1] /\ UNCHANGED mem
      [] s.do = "publish" -> tab' = [tab EXCEPT !.pub = <<tab.vb, tab.size>>] /\ UNCHANGED mem
      [] s.do = "even" ->
            tab' = [tab EXCEPT !.seq = @ + 1, !.truth[wr.key] = wr.val] /\ UNCHANGED mem

\* The truth a reader may answer grows with every section that ends under it.
Witness(r) ==
    IF rd[r].pc # "idle" /\ rd[r].key = wr.key /\ Head(wr.todo).do = "even"
    THEN [rd[r] EXCEPT !.truths = @ \cup {wr.val}] ELSE rd[r]

\* After the last store, a limbo that is long enough is swept: least starts at infinity.
Sweeps == Len(wr.todo) = 1 /\ Cardinality(tab.limbo) >= ReclaimAt
Infinity == 1000

Write ==
    /\ wr.todo # <<>>
    /\ Store(Head(wr.todo))
    /\ rd' = [r \in Readers |-> Witness(r)]
    /\ wr' = [wr EXCEPT !.todo = Tail(@),
                        !.scan = IF Sweeps THEN Readers ELSE {},
                        !.least = IF Sweeps THEN Infinity ELSE 0]
    /\ UNCHANGED count

\* min_active: one slot at a time.
Lesser(x, least) == IF x # 0 /\ x < least THEN x ELSE least
Scan(r) ==
    /\ r \in wr.scan
    /\ wr' = [wr EXCEPT !.scan = @ \ {r}, !.least = Lesser(rd[r].active, @)]
    /\ UNCHANGED <<tab, mem, rd, count>>

\* limbo_reclaim: the prefix of each list, its stamps rising, is what lies below.
Gone(least) == {x \in tab.limbo : x.stamp < least}
Reclaim ==
    /\ wr.todo = <<>> /\ wr.scan = {} /\ wr.least # 0
    /\ tab' = [tab EXCEPT !.limbo = @ \ Gone(wr.least)]
    /\ mem' = [mem EXCEPT !.dead = @ \cup {x.what : x \in Gone(wr.least)}]
    /\ wr' = [wr EXCEPT !.least = 0]
    /\ UNCHANGED <<rd, count>>

-----------------------------------------------------------------------------
(* The reader: KeyDir::get_impl and try_get_optimistic. *)

Set(r, s) == rd' = [rd EXCEPT ![r] = s] /\ UNCHANGED <<tab, mem, wr, count>>
At(r, pc) == rd[r].pc = pc

\* The registry's counter is loaded before the slot is stored.
Enter(r, k) ==
    /\ At(r, "idle") /\ count.calls < MaxCalls
    /\ count' = [count EXCEPT !.calls = @ + 1]
    /\ rd' = [rd EXCEPT ![r] = [@ EXCEPT !.pc = "register", !.key = k, !.cur = tab.epoch,
                                         !.truths = {tab.truth[k]}, !.tries = 1]]
    /\ UNCHANGED <<tab, mem, wr>>

Register(r) == At(r, "register") /\ Set(r, [rd[r] EXCEPT !.pc = "seq", !.active = rd[r].cur])

\* A call returns what it found and clears its slot; a try that fails leaves nothing.
Returned(s, v) ==
    Fresh @@ [s EXCEPT !.pc = "idle", !.key = None, !.cur = 0, !.active = 0, !.tries = 0,
                       !.truths = IF v \in @ THEN {} ELSE {"never"}]
Again(s) ==
    Fresh @@ IF s.tries < Attempts THEN [s EXCEPT !.pc = "seq", !.tries = @ + 1]
             ELSE [s EXCEPT !.pc = "lock", !.active = 0]

LoadSeq(r) ==
    /\ At(r, "seq")
    /\ Set(r, IF tab.seq % 2 = 1 THEN Again(rd[r]) ELSE [rd[r] EXCEPT !.pc = "block", !.s1 = tab.seq])

\* seq_changed, and the place it guards.
Checked(s) == s.s1 = tab.seq
CheckThen(s, pc) == [s EXCEPT !.pc = "check", !.then = pc]
Check(r) ==
    /\ At(r, "check")
    /\ Set(r, IF Checked(rd[r]) THEN [rd[r] EXCEPT !.pc = rd[r].then] ELSE Again(rd[r]))

LoadBlock(r) == At(r, "block") /\ Set(r, [rd[r] EXCEPT !.pc = "published", !.bb = tab.bb])
LoadPublished(r) == At(r, "published") /\ Set(r, CheckThen([rd[r] EXCEPT !.pub = tab.pub], "probe"))

\* No table yet: a miss.
StartProbe(r) ==
    /\ At(r, "probe")
    /\ Set(r, IF rd[r].bb = 0 THEN Returned(rd[r], None)
              ELSE [rd[r] EXCEPT !.pc = "slot", !.i = Hash[rd[r].key] % (Mask(mem.bkts[rd[r].bb]) + 1)])

LoadSlot(r) ==
    At(r, "slot") /\ Set(r, CheckThen([rd[r] EXCEPT !.bk = mem.bkts[rd[r].bb][rd[r].i]], "item"))

NextProbe(s) ==
    LET mask == Mask(mem.bkts[s.bb])
    IN  IF s.probes = mask THEN Returned(s, None)
        ELSE [s EXCEPT !.pc = "slot", !.i = After(@, mask), !.probes = @ + 1]

Item(r) ==
    /\ At(r, "item")
    /\ LET s == rd[r]
       IN  Set(r, CASE s.bk.idx = 0 -> Returned(s, None)
                    [] s.bk.idx # 0 /\ s.bk.frag # Hash[s.key] -> NextProbe(s)
                    [] s.bk.idx # 0 /\ s.bk.frag = Hash[s.key] /\ s.bk.idx > s.pub[2] -> Again(s)
                    [] OTHER -> [s EXCEPT !.pc = "object"])

CellRead(s) == mem.vals[s.pub[1]][s.bk.idx]

\* The string object's bytes; a long key's pointer among them.
LoadObject(r) ==
    /\ At(r, "object")
    /\ Set(r, CheckThen([rd[r] EXCEPT !.obj = <<CellRead(rd[r]).key, CellRead(rd[r]).buf>>], "compare"))

\* A long key's bytes are behind its pointer and do not change; a short one's are
\* read where they lie, whatever has been moved there since the object was copied.
Equal(s) == IF s.obj[2] # 0 THEN s.obj[1] = s.key ELSE CellRead(s).key = s.key
Compare(r) ==
    At(r, "compare") /\ Set(r, CheckThen(rd[r], IF Equal(rd[r]) THEN "low" ELSE "mismatch"))
Mismatch(r) == At(r, "mismatch") /\ Set(r, NextProbe(rd[r]))

LoadLow(r) == At(r, "low") /\ Set(r, [rd[r] EXCEPT !.pc = "high", !.lo = CellRead(rd[r]).lo])
LoadHigh(r) == At(r, "high") /\ Set(r, CheckThen([rd[r] EXCEPT !.hi = CellRead(rd[r]).hi], "hit"))
Hit(r) ==
    /\ At(r, "hit")
    /\ Set(r, Returned(rd[r], IF rd[r].lo = rd[r].hi THEN rd[r].lo ELSE "torn"))

\* The way with the lock.
Locked(r) ==
    /\ At(r, "lock") /\ Unlocked
    /\ Set(r, Returned(rd[r], IF Find(rd[r].key) = 0 THEN None ELSE Cells[Find(rd[r].key)].lo))

Read(r) ==
    \/ Register(r) \/ LoadSeq(r) \/ Check(r) \/ LoadBlock(r) \/ LoadPublished(r) \/ StartProbe(r) \/ LoadSlot(r)
    \/ Item(r) \/ LoadObject(r) \/ Compare(r) \/ Mismatch(r) \/ LoadLow(r) \/ LoadHigh(r) \/ Hit(r) \/ Locked(r)

Next ==
    \/ \E k \in Keys, v \in Vals : Put(k, v)
    \/ \E k \in Keys : Drop(k)
    \/ Write \/ Reclaim
    \/ \E r \in Readers : Scan(r) \/ Read(r)
    \/ \E r \in Readers, k \in Keys : Enter(r, k)

Spec == Init /\ [][Next]_vars

-----------------------------------------------------------------------------
(***************************************************************************)
(* A look-up without the lock answers what the key's value was at some     *)
(* moment of the call: neither a torn value, nor another key's, nor a miss *)
(* for a key that was there all along (seq_shard_table.hpp 250-326).       *)
(***************************************************************************)
AnswersWereTrue == \A r \in Readers : "never" \notin rd[r].truths

(***************************************************************************)
(* Whatever a reader is about to follow has not been freed: bucket block,  *)
(* value array, and the bytes of a long key it copied the pointer of       *)
(* (epoch_reclaim.hpp 21-27; keydir.cpp 841).                              *)
(***************************************************************************)
ReadsLiveMemory ==
    \A r \in Readers : LET s == rd[r] IN
        /\ s.pc \in {"slot", "probe"} => <<"bkts", s.bb>> \notin mem.dead
        /\ s.pc \in {"object", "compare", "low", "high"} => <<"vals", s.pub[1]>> \notin mem.dead
        /\ s.pc = "compare" /\ s.obj[2] # 0 => <<"key", s.obj[2]>> \notin mem.dead
=============================================================================
