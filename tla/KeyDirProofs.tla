---------------------------- MODULE KeyDirProofs ----------------------------
(***************************************************************************)
(* Proofs about KeyDir, for any keys, shards, threads and bounds.          *)
(***************************************************************************)
EXTENDS KeyDir, FiniteSetTheorems, TLAPS

LEMMA RevsOfChain ==
    ASSUME NEW c \in Seq(Rev), c # <<>>
    PROVE  /\ c[1] \in Rev /\ Len(c) \in Nat \ {0}
           /\ c[1].tomb \in BOOLEAN /\ c[1].ord \in Nat /\ c[1].epoch \in Nat
           /\ c[1].file \in Files \cup {0}
<1>1. Len(c) \in Nat \ {0}
  OBVIOUS
<1>2. c[1] \in Rev
  BY <1>1
<1> QED BY <1>1, <1>2 DEF Rev

LEMMA FoldActiveIsBoolean ==
    ASSUME keyfolders \in Nat
    PROVE  FoldActive \in BOOLEAN
<1>1. CASE keyfolders > 0
  <2>1. FoldActive = TRUE
    BY <1>1 DEF FoldActive
  <2> QED BY <2>1
<1>2. CASE ~(keyfolders > 0)
  <2>1. FoldActive = FALSE
    BY <1>2 DEF FoldActive
  <2> QED BY <2>1
<1> QED BY <1>1, <1>2

LEMMA TypeWriterLocks ==
    ASSUME TypeOK, NEW w \in Writers,
           Lock(w) \/ Gate(w) \/ Wait(w) \/ Probe(w) \/ Meta(w)
    PROVE  TypeOK'
<1> USE ConstantsOK DEF TypeOK, Threads, Goto, data, stats, wlocal, flocal, input, seen,
        TakeShard, DropShard, locks, WriterPCs
<1>1. CASE Lock(w)
  BY <1>1 DEF Lock
<1>2. CASE Gate(w)
  BY <1>2 DEF Gate
<1>3. CASE Wait(w)
  BY <1>3, ZenonT(20) DEF Wait
<1>4. CASE Probe(w)
  <2>1. FoldActive \in BOOLEAN
    BY FoldActiveIsBoolean
  <2>2. foldSeen' \in [Writers -> BOOLEAN]
    BY <1>4, <2>1 DEF Probe
  <2> QED BY <1>4, <2>2 DEF Probe
<1>5. CASE Meta(w)
  BY <1>5 DEF Meta
<1> QED BY <1>1, <1>2, <1>3, <1>4, <1>5

\* The shared end of a write: everything but the tables and the counters.
LEMMA TypeLeave ==
    ASSUME TypeOK, NEW w \in Writers, Leave(w)
    PROVE  /\ shardOwner' \in [Shards -> Threads \cup {NoOne}]
           /\ metaOwner' \in Writers \cup {NoOne}
           /\ pc' \in [Threads -> WriterPCs \cup ReaderPCs \cup FolderPCs]
           /\ req' \in [Writers -> Requests \cup {NoReq}]
           /\ foldSeen' \in [Writers -> BOOLEAN]
           /\ UNCHANGED <<metaShared, barrierOwner, gateActive, sleepers,
                          keyfolders, flocal, input>>
  BY ConstantsOK DEF TypeOK, Leave, DropShard, Goto, Threads, WriterPCs

LEMMA TypeSetEntries ==
    ASSUME TypeOK, NEW w \in Writers, req[w] \in Requests, NEW en \in [Keys -> Seq(Rev)],
           NEW tb \in [Shards -> Int], SetEntries(w, en, tb)
    PROVE  entries' \in [Keys -> Seq(Rev)] /\ tombstones' \in [Shards -> Int]
<1>1. CASE ~MayShrink(w)
  BY <1>1 DEF SetEntries
<1>2. CASE MayShrink(w)
  <2> DEFINE s == ShardOf[req[w].key]
  <2>1. PICK gone \in IF tb[s] = 0 THEN {{}} ELSE SUBSET Sweepable(en, s) :
           /\ entries' = [k \in Keys |-> IF k \in gone THEN <<>> ELSE en[k]]
           /\ tombstones' = [tb EXCEPT ![s] = @ - Cardinality(gone)]
    BY <1>2 DEF SetEntries, SweptTo
  <2>2. Cardinality(gone) \in Nat
    <3>1. gone \subseteq Keys
      BY <2>1 DEF Sweepable
    <3> QED BY <3>1, ConstantsOK, FS_Subset, FS_CardinalityType
  <2>3. <<>> \in Seq(Rev)
    OBVIOUS
  <2>4. s \in Shards
    BY ConstantsOK DEF Requests
  <2>5. tombstones' \in [Shards -> Int]
    BY <2>1, <2>2, <2>4
  <2>6. entries' \in [Keys -> Seq(Rev)]
    BY <2>1, <2>3
  <2> QED BY <2>5, <2>6
<1> QED BY <1>1, <1>2

LEMMA TypeFound ==
    ASSUME TypeOK, NEW w \in Writers, req[w] \in Requests
    PROVE  Found(w) \in Seq(Rev)
  BY DEF TypeOK, Found, Requests

(***************************************************************************)
(* The locks.                                                              *)
(***************************************************************************)
\* ConstantsOK as the lemmas use it: the kinds of threads are disjoint.
LEMMA Kinds ==
    /\ ShardOf \in [Keys -> Shards]
    /\ \A w \in Writers : w \in Threads /\ w \notin Readers /\ w \notin Folders /\ w # NoOne
    /\ \A r \in Readers : r \in Threads /\ r \notin Writers /\ r \notin Folders /\ r # NoOne
    /\ \A f \in Folders : f \in Threads /\ f \notin Writers /\ f \notin Readers /\ f # NoOne
  BY ConstantsOK DEF Threads

\* What thread t does to a shard s that is free or its own leaves the shards of
\* the others alone.
OthersRest(t) ==
    /\ \A u \in Threads : u # t => pc'[u] = pc[u]
    /\ \A w \in Writers : w # t => req'[w] = req[w]
    /\ \A r \in Readers : r # t => asked'[r] = asked[r]

Touches(t, s) ==
    \/ shardOwner' = shardOwner
    \/ /\ shardOwner[s] \in {NoOne, t}
       /\ \E o \in Threads \cup {NoOne} : shardOwner' = [shardOwner EXCEPT ![s] = o]

OthersKeepShards(t) ==
    /\ \A w \in Writers : w # t /\ pc'[w] \in PastGate \cup {"gate", "peek meta"}
          => shardOwner'[ShardOf[req'[w].key]] = w
    /\ \A r \in Readers : r # t /\ pc'[r] = "meta shared"
          => shardOwner'[ShardOf[asked'[r]]] = r

LEMMA ShardsOfOthers ==
    ASSUME TypeOK, LockInv, NEW t \in Threads, OthersRest(t),
           NEW s \in Shards, Touches(t, s)
    PROVE  OthersKeepShards(t)
<1>1. ASSUME NEW w \in Writers, w # t, pc'[w] \in PastGate \cup {"gate", "peek meta"}
      PROVE  shardOwner'[ShardOf[req'[w].key]] = w
  <2> DEFINE mine == ShardOf[req[w].key]
  <2>1. pc[w] = pc'[w] /\ req'[w] = req[w]
    BY <1>1, Kinds DEF OthersRest
  <2>2. req[w] \in Requests /\ shardOwner[mine] = w /\ w # NoOne
    BY <1>1, <2>1, Kinds DEF LockInv, CallsHaveArguments, ShardsHeld, PastGate
  <2>3. mine \in Shards
    BY <2>2, Kinds DEF Requests
  <2> HIDE DEF mine
  <2>4. shardOwner'[mine] = w
    BY <1>1, <2>2, <2>3 DEF Touches, TypeOK
  <2> QED BY <2>1, <2>4 DEF mine
<1>2. ASSUME NEW r \in Readers, r # t, pc'[r] = "meta shared"
      PROVE  shardOwner'[ShardOf[asked'[r]]] = r
  <2> DEFINE mine == ShardOf[asked[r]]
  <2>1. pc[r] = pc'[r] /\ asked'[r] = asked[r]
    BY <1>2, Kinds DEF OthersRest
  <2>2. asked[r] \in Keys /\ shardOwner[mine] = r /\ r # NoOne
    BY <1>2, <2>1, Kinds DEF LockInv, CallsHaveArguments, ShardsHeld
  <2>3. mine \in Shards
    BY <2>2, Kinds
  <2> HIDE DEF mine
  <2>4. shardOwner'[mine] = r
    BY <1>2, <2>2, <2>3 DEF Touches, TypeOK
  <2> QED BY <2>1, <2>4 DEF mine
<1> QED BY <1>1, <1>2 DEF OthersKeepShards

\* What a step of a writer must respect; it may touch shard s.
WriterMoves(w, there, s) ==
    /\ pc' = [pc EXCEPT ![w] = there]
    /\ \A v \in Writers : v # w => req'[v] = req[v]
    /\ there # "idle" => req'[w] \in Requests
    /\ Touches(w, s)
    /\ there \in PastGate \cup {"gate", "peek meta"}
          => shardOwner'[ShardOf[req'[w].key]] = w
    /\ there \in PastGate => ~gateActive \/ (pc[w] \in PastGate /\ req'[w] = req[w])
    /\ metaOwner' \in {metaOwner, w, NoOne}
    /\ metaOwner' = w => there = "apply"
    /\ UNCHANGED <<metaShared, barrierOwner, gateActive, at, asked>>

LEMMA LockWriter ==
    ASSUME TypeOK, LockInv, NEW w \in Writers, NEW there, NEW s \in Shards,
           WriterMoves(w, there, s)
    PROVE  LockInv'
<1> USE Kinds
<1>1. /\ pc'[w] = there /\ \A u \in Threads : u # w => pc'[u] = pc[u]
      /\ OthersRest(w)
  BY DEF TypeOK, OthersRest, WriterMoves
<1>2. CallsHaveArguments'
  BY <1>1 DEF LockInv, CallsHaveArguments, OthersRest, WriterMoves
<1>3. ShardsHeld'
  <2>1. OthersKeepShards(w)
    BY <1>1, ShardsOfOthers DEF WriterMoves
  <2> QED BY <1>1, <2>1 DEF ShardsHeld, OthersKeepShards, WriterMoves
<1>4. BarrierHeld'
  <2> SUFFICES ASSUME NEW f \in Folders
               PROVE  /\ pc[f] \in Inside \cup {"raise", "drain", "notify"} => barrierOwner = f
                      /\ pc[f] \in Inside \cup {"drain"} => gateActive
                      /\ pc[f] = "drain" => \A v \in Writers : pc'[v] \in PastGate
                                => ShardOf[req'[v].key] >= at[f]
    BY <1>1 DEF BarrierHeld, WriterMoves
  <2>1. /\ pc[f] \in Inside \cup {"raise", "drain", "notify"} => barrierOwner = f
        /\ pc[f] \in Inside \cup {"drain"} => gateActive
    BY DEF LockInv, BarrierHeld
  <2>2. ASSUME pc[f] = "drain", NEW v \in Writers, pc'[v] \in PastGate
        PROVE  ShardOf[req'[v].key] >= at[f]
    <3>1. pc[v] \in PastGate /\ req'[v] = req[v]
      BY <1>1, <2>1, <2>2 DEF OthersRest, WriterMoves
    <3> QED BY <2>2, <3>1 DEF LockInv, BarrierHeld
  <2> QED BY <2>1, <2>2
<1>5. MetaHeld'
  <2>1. ASSUME NEW v \in Writers, metaOwner' = v
        PROVE  pc'[v] = "apply"
    <3>1. CASE v = w
      BY <1>1, <2>1, <3>1 DEF WriterMoves
    <3>2. CASE v # w
      BY <1>1, <2>1, <3>2 DEF WriterMoves, LockInv, MetaHeld
    <3> QED BY <3>1, <3>2
  <2>2. ASSUME NEW f \in metaShared
        PROVE  pc'[f] = "applying"
    BY <1>1 DEF TypeOK, LockInv, MetaHeld
  <2> QED BY <2>1, <2>2 DEF MetaHeld, WriterMoves
<1>6. BarrierExcludesWriters'
  <2> SUFFICES ASSUME NEW f \in Folders, NEW v \in Writers, pc[f] \in Inside
               PROVE  pc'[v] \notin PastGate
    BY <1>1 DEF BarrierExcludesWriters, PastGate
  <2>1. gateActive /\ pc[v] \notin PastGate
    BY DEF LockInv, BarrierHeld, BarrierExcludesWriters, PastGate
  <2>2. CASE v = w
    BY <1>1, <2>1, <2>2 DEF WriterMoves
  <2>3. CASE v # w
    BY <1>1, <2>1, <2>3
  <2> QED BY <2>2, <2>3
<1> QED BY <1>2, <1>3, <1>4, <1>5, <1>6 DEF LockInv

\* What a step of a reader must respect.
ReaderMoves(r, there, s) ==
    /\ pc' = [pc EXCEPT ![r] = there]
    /\ \A q \in Readers : q # r => asked'[q] = asked[q]
    /\ there # "idle" => asked'[r] \in Keys
    /\ Touches(r, s)
    /\ there = "meta shared" => shardOwner'[ShardOf[asked'[r]]] = r
    /\ UNCHANGED <<req, metaOwner, metaShared, barrierOwner, gateActive, at>>

LEMMA LockReader ==
    ASSUME TypeOK, LockInv, NEW r \in Readers, NEW there, NEW s \in Shards,
           ReaderMoves(r, there, s)
    PROVE  LockInv'
<1> USE Kinds
<1>1. /\ pc'[r] = there /\ \A u \in Threads : u # r => pc'[u] = pc[u]
      /\ OthersRest(r)
  BY DEF TypeOK, OthersRest, ReaderMoves
<1>2. CallsHaveArguments'
  BY <1>1 DEF LockInv, CallsHaveArguments, OthersRest, ReaderMoves
<1>3. ShardsHeld'
  <2>1. OthersKeepShards(r)
    BY <1>1, ShardsOfOthers DEF ReaderMoves
  <2> QED BY <1>1, <2>1 DEF ShardsHeld, OthersKeepShards, ReaderMoves
<1>4. BarrierHeld'
  BY <1>1 DEF LockInv, BarrierHeld, ReaderMoves
<1>5. MetaHeld'
  <2>1. \A w \in Writers : metaOwner = w => pc'[w] = "apply"
    BY <1>1 DEF LockInv, MetaHeld
  <2>2. \A f \in metaShared : pc'[f] = "applying"
    BY <1>1 DEF TypeOK, LockInv, MetaHeld
  <2> QED BY <2>1, <2>2 DEF MetaHeld, ReaderMoves
<1>6. BarrierExcludesWriters'
  BY <1>1 DEF LockInv, BarrierExcludesWriters
<1> QED BY <1>2, <1>3, <1>4, <1>5, <1>6 DEF LockInv

\* What a step of a folder must respect: it owns the barrier before it touches
\* the gate, and it is inside only when no writer is past the gate.
FolderMoves(f, there) ==
    /\ pc' = [pc EXCEPT ![f] = there]
    /\ \A g \in Folders : g # f => at'[g] = at[g]
    /\ barrierOwner' # barrierOwner => barrierOwner \in {NoOne, f}
    /\ gateActive' # gateActive => barrierOwner = f
    /\ there \in Inside \cup {"raise", "drain", "notify"} => barrierOwner' = f
    /\ there \in Inside \cup {"drain"} => gateActive'
    /\ there = "drain" => \A w \in Writers : pc[w] \in PastGate
                             => ShardOf[req[w].key] >= at'[f]
    /\ there \in Inside => \/ pc[f] \in Inside
                           \/ \A w \in Writers : pc[w] \notin PastGate
    /\ metaShared' \in {metaShared, metaShared \cup {f}, metaShared \ {f}}
    /\ f \in metaShared' => there = "applying"
    /\ UNCHANGED <<req, asked, shardOwner, metaOwner>>

LEMMA LockFolder ==
    ASSUME TypeOK, LockInv, NEW f \in Folders, NEW there, FolderMoves(f, there)
    PROVE  LockInv'
<1> USE Kinds DEF TypeOK, LockInv, FolderMoves
<1>1. CallsHaveArguments'
  BY DEF CallsHaveArguments
<1>2. ShardsHeld'
  BY ZenonT(20) DEF ShardsHeld
<1>3. BarrierHeld'
  BY DEF BarrierHeld, PastGate, Inside
<1>4. MetaHeld'
  BY DEF MetaHeld
<1>5. BarrierExcludesWriters'
  BY DEF BarrierExcludesWriters, PastGate, Inside
<1> QED BY <1>1, <1>2, <1>3, <1>4, <1>5

LEMMA LockWriterSteps ==
    ASSUME TypeOK, LockInv, NEW w \in Writers, WriterStep(w)
    PROVE  LockInv'
<1> DEFINE s == ShardOf[req[w].key]
<1> USE Kinds
<1>a. ASSUME NEW there, s \in Shards, WriterMoves(w, there, s)
      PROVE  LockInv'
  BY <1>a, LockWriter
<1>b. pc[w] # "idle" => req[w] \in Requests /\ s \in Shards
  BY DEF LockInv, CallsHaveArguments, Requests
<1>c. pc[w] \in PastGate \cup {"gate", "peek meta"} => shardOwner[s] = w
  BY DEF LockInv, ShardsHeld
<1>d. metaOwner = w => pc[w] = "apply"
  BY DEF LockInv, MetaHeld
<1> HIDE DEF s
<1> USE <1>b, <1>c, <1>d
        DEF WriterMoves, Touches, PastGate, Goto, wlocal, flocal, seen
<1>1. CASE Lock(w)
  <2>1. s \in Shards /\ WriterMoves(w, "gate", s)
    BY <1>1 DEF TypeOK, Lock, ShardFree, TakeShard, s
  <2> QED BY <1>a, <2>1
<1>2. CASE Gate(w)
  <2>1. CASE GateUp
    <3>1. s \in Shards /\ WriterMoves(w, "wait", s)
      BY <1>2, <2>1 DEF Gate, GateUp, DropShard, s
    <3> QED BY <1>a, <3>1
  <2>2. CASE ~GateUp
    <3>1. s \in Shards /\ WriterMoves(w, "probe", s)
      BY <1>2, <2>2 DEF Gate, GateUp, s
    <3> QED BY <1>a, <3>1
  <2> QED BY <2>1, <2>2
<1>3. CASE Wait(w)
  <2>1. CASE gateActive
    <3>1. s \in Shards /\ WriterMoves(w, "wait", s)
      BY <1>3, <2>1 DEF TypeOK, Wait
    <3> QED BY <1>a, <3>1
  <2>2. CASE ~gateActive
    <3>1. s \in Shards /\ WriterMoves(w, "lock", s)
      BY <1>3, <2>2 DEF Wait
    <3> QED BY <1>a, <3>1
  <2> QED BY <2>1, <2>2
<1>4. CASE Probe(w)
  <2>1. ASSUME NEW there \in {"meta", "apply"}, pc' = [pc EXCEPT ![w] = there]
        PROVE  s \in Shards /\ WriterMoves(w, there, s)
    BY <1>4, <2>1 DEF Probe, locks, s
  <2> QED BY <1>4, <1>a, <2>1 DEF Probe
<1>5. CASE Meta(w)
  <2>1. s \in Shards /\ WriterMoves(w, "apply", s)
    BY <1>5 DEF Meta, s
  <2> QED BY <1>a, <2>1
<1>6. CASE \/ PutMissed(w) \/ PutRefused(w) \/ PutInsert(w) \/ PutOverwrite(w)
           \/ RemoveNothing(w) \/ RemoveLive(w)
  <2>1. pc[w] = "apply" /\ Leave(w) /\ asked' = asked
    BY <1>6 DEF PutMissed, PutRefused, PutInsert, PutOverwrite, RemoveNothing, RemoveLive,
       IsPut, IsRemove, Observe
  <2>2. s \in Shards /\ WriterMoves(w, "idle", s)
    BY <2>1 DEF TypeOK, Leave, DropShard, s
  <2> QED BY <1>a, <2>2
<1>7. CASE Peek(w)
  <2>1. PICK there \in {"lock", "idle", "peek meta"} :
           /\ pc' = [pc EXCEPT ![w] = there]
           /\ there \in {"lock", "peek meta"} => req' = req
           /\ there = "idle" => req' = [req EXCEPT ![w] = NoReq]
           /\ IF there = "peek meta" THEN /\ shardOwner[s] = NoOne
                                          /\ shardOwner' = [shardOwner EXCEPT ![s] = w]
                                     ELSE shardOwner' = shardOwner
    BY <1>7 DEF Peek, EndPeek, TakeShard, ShardFree, s
  <2>2. Touches(w, s)
    BY <2>1
  <2>3. there = "peek meta" => shardOwner'[ShardOf[req'[w].key]] = w
    <3> SUFFICES ASSUME there = "peek meta" PROVE shardOwner'[ShardOf[req'[w].key]] = w
      OBVIOUS
    <3>1. s \in Shards /\ shardOwner'[s] = w /\ req' = req
      BY <1>7, <2>1 DEF TypeOK, Peek
    <3> QED BY <3>1 DEF s
  <2>4. s \in Shards /\ WriterMoves(w, there, s)
    BY <1>7, <2>1, <2>2, <2>3 DEF TypeOK, Peek
  <2> QED BY <1>a, <2>4
<1>8. CASE PeekMeta(w)
  <2>1. PICK there \in {"lock", "idle"} :
           /\ pc' = [pc EXCEPT ![w] = there]
           /\ there = "lock" => req' = req
           /\ there = "idle" => req' = [req EXCEPT ![w] = NoReq]
    BY <1>8 DEF PeekMeta, EndPeek
  <2>2. s \in Shards /\ WriterMoves(w, there, s)
    BY <1>8, <2>1 DEF TypeOK, PeekMeta, DropShard, s
  <2> QED BY <1>a, <2>2
<1> QED BY <1>1, <1>2, <1>3, <1>4, <1>5, <1>6, <1>7, <1>8 DEF WriterStep

LEMMA LockBegins ==
    ASSUME TypeOK, LockInv, NEW w \in Writers, NEW r \in Requests,
           NEW there \in {"lock", "peek"}, Begin(w, r, there)
    PROVE  LockInv'
<1>1. 1 \in Shards
  BY ConstantsOK DEF Shards
<1>2. metaOwner # w
  BY DEF Begin, LockInv, MetaHeld
<1>3. WriterMoves(w, there, 1)
  BY <1>2 DEF TypeOK, Begin, Goto, WriterMoves, Touches, PastGate, locks, flocal, seen
<1> QED BY <1>1, <1>3, LockWriter

LEMMA LockReaderSteps ==
    ASSUME TypeOK, LockInv, NEW r \in Readers, NEW key \in Keys,
           ReaderStep(r) \/ GetBegin(r, key)
    PROVE  LockInv'
<1> DEFINE s == IF pc[r] = "idle" THEN ShardOf[key] ELSE ShardOf[asked[r]]
<1> USE Kinds
<1>a. ASSUME NEW there, ReaderMoves(r, there, s)
      PROVE  LockInv'
  <2>1. s \in Shards
    BY DEF LockInv, CallsHaveArguments
  <2> QED BY <1>a, <2>1, LockReader
<1>b. /\ pc[r] # "idle" => asked[r] \in Keys /\ s = ShardOf[asked[r]]
      /\ pc[r] = "meta shared" => shardOwner[s] = r
  BY DEF LockInv, CallsHaveArguments, ShardsHeld
<1> HIDE DEF s
<1> USE <1>b DEF ReaderMoves, Touches, Goto, locks, wlocal, flocal, seen, Return
<1>1. CASE GetBegin(r, key)
  <2>1. ReaderMoves(r, "keyfolders", s)
    BY <1>1 DEF TypeOK, GetBegin
  <2> QED BY <1>a, <2>1
<1>2. CASE GetKeyfolders(r)
  <2>1. PICK there \in {"has pending", "shard"} : pc' = [pc EXCEPT ![r] = there]
    BY <1>2 DEF GetKeyfolders
  <2>2. ReaderMoves(r, there, s)
    BY <1>2, <2>1 DEF GetKeyfolders
  <2> QED BY <1>a, <2>2
<1>3. CASE GetHasPending(r)
  <2>1. PICK there \in {"optimistic", "shard"} : pc' = [pc EXCEPT ![r] = there]
    BY <1>3 DEF GetHasPending
  <2>2. ReaderMoves(r, there, s)
    BY <1>3, <2>1 DEF GetHasPending
  <2> QED BY <1>a, <2>2
<1>4. CASE GetOptimistic(r)
  <2>1. PICK there \in {"idle", "shard"} :
           /\ pc' = [pc EXCEPT ![r] = there]
           /\ asked' = IF there = "idle" THEN [asked EXCEPT ![r] = NoKey] ELSE asked
    BY <1>4 DEF GetOptimistic
  <2>2. ReaderMoves(r, there, s)
    BY <1>4, <2>1 DEF TypeOK, GetOptimistic
  <2> QED BY <1>a, <2>2
<1>5. CASE GetLocked(r)
  <2>1. PICK there \in {"idle", "meta shared"} :
           /\ pc' = [pc EXCEPT ![r] = there]
           /\ IF there = "idle"
              THEN asked' = [asked EXCEPT ![r] = NoKey] /\ shardOwner' = shardOwner
              ELSE asked' = asked /\ shardOwner' = [shardOwner EXCEPT ![s] = r]
    BY <1>5 DEF GetLocked, TakeShard
  <2>2. Touches(r, s)
    BY <1>5, <2>1 DEF GetLocked, ShardFree
  <2>3. there = "meta shared" => shardOwner'[ShardOf[asked'[r]]] = r
    <3> SUFFICES ASSUME there = "meta shared" PROVE shardOwner'[ShardOf[asked'[r]]] = r
      OBVIOUS
    <3>1. pc[r] = "shard"
      BY <1>5 DEF GetLocked
    <3>2. asked[r] \in Keys /\ s = ShardOf[asked[r]] /\ s \in Shards
      BY <3>1, <1>b, Kinds
    <3>3. shardOwner'[s] = r /\ asked' = asked
      BY <2>1, <3>2, ZenonT(20) DEF TypeOK
    <3> QED BY <3>2, <3>3
  <2>4. ReaderMoves(r, there, s)
    BY <1>5, <2>1, <2>2, <2>3 DEF TypeOK, GetLocked
  <2> QED BY <1>a, <2>4
<1>6. CASE GetPending(r)
  <2>1. ReaderMoves(r, "idle", s)
    BY <1>6 DEF TypeOK, GetPending, DropShard
  <2> QED BY <1>a, <2>1
<1> QED BY <1>1, <1>2, <1>3, <1>4, <1>5, <1>6 DEF ReaderStep

LEMMA LockFolderSteps ==
    ASSUME TypeOK, LockInv, NEW f \in Folders,
           \/ FolderStep(f) \/ WantStart(f) \/ WantRelease(f) \/ NextKey(f) \/ NextEnd(f)
    PROVE  LockInv'
<1> USE Kinds
<1>a. ASSUME NEW there, FolderMoves(f, there)
      PROVE  LockInv'
  BY <1>a, LockFolder
<1>b. /\ pc[f] \in Inside \cup {"raise", "drain", "notify"} => barrierOwner = f
      /\ pc[f] \in Inside \cup {"drain"} => gateActive
      /\ f \in metaShared => pc[f] = "applying"
  BY DEF LockInv, BarrierHeld, MetaHeld
<1>c. pc = [pc EXCEPT ![f] = pc[f]]
  BY DEF TypeOK
<1> USE <1>b DEF FolderMoves, Goto, locks, wlocal, flocal, input, seen, Inside
<1>1. CASE WantStart(f)
  <2>1. FolderMoves(f, "barrier")
    BY <1>1 DEF WantStart
  <2> QED BY <1>a, <2>1
<1>2. CASE WantRelease(f)
  <2>1. FolderMoves(f, "barrier")
    BY <1>2 DEF WantRelease
  <2> QED BY <1>a, <2>1
<1>3. CASE NextKey(f) \/ NextEnd(f)
  <2>1. FolderMoves(f, "iterating")
    BY <1>3, <1>c DEF NextKey, NextEnd
  <2> QED BY <1>a, <2>1
<1>4. CASE LockBarrier(f)
  <2>1. FolderMoves(f, "raise")
    BY <1>4 DEF LockBarrier
  <2> QED BY <1>a, <2>1
<1>5. CASE Raise(f)
  <2>1. \A w \in Writers : pc[w] \in PastGate => ShardOf[req[w].key] >= 1
    BY ConstantsOK DEF LockInv, CallsHaveArguments, PastGate, Requests, Shards
  <2>2. FolderMoves(f, "drain")
    BY <1>5, <2>1 DEF TypeOK, Raise
  <2> QED BY <1>a, <2>2
<1>6. CASE Drain(f) /\ ~Drained(f)
  <2>1. \A w \in Writers : pc[w] \in PastGate => ShardOf[req[w].key] >= at[f] + 1
    <3> SUFFICES ASSUME NEW w \in Writers, pc[w] \in PastGate
                 PROVE  ShardOf[req[w].key] >= at[f] + 1
      OBVIOUS
    <3>1. /\ ShardOf[req[w].key] >= at[f] /\ shardOwner[ShardOf[req[w].key]] = w
          /\ req[w] \in Requests
      BY <1>6 DEF Drain, LockInv, BarrierHeld, ShardsHeld, CallsHaveArguments, PastGate
    <3>2. ShardOf[req[w].key] # at[f]
      BY <1>6, <3>1 DEF Drain
    <3> QED BY <3>1, <3>2, SMTT(20) DEF TypeOK, Requests, Shards
  <2>2. FolderMoves(f, "drain")
    BY <1>6, <2>1, ConstantsOK DEF TypeOK, Drain, Drained, Shards
  <2> QED BY <1>a, <2>2
<1>7. CASE Drain(f) /\ Drained(f)
  <2>1. \A w \in Writers : pc[w] \notin PastGate
    <3> SUFFICES ASSUME NEW w \in Writers, pc[w] \in PastGate
                 PROVE  FALSE
      OBVIOUS
    <3>1. /\ ShardOf[req[w].key] >= at[f] /\ shardOwner[ShardOf[req[w].key]] = w
          /\ req[w] \in Requests
      BY <1>7 DEF Drain, LockInv, BarrierHeld, ShardsHeld, CallsHaveArguments, PastGate
    <3>2. ShardOf[req[w].key] # at[f]
      BY <1>7, <3>1 DEF Drain
    <3> QED BY <1>7, <3>1, <3>2, ConstantsOK DEF TypeOK, Requests, Shards, Drained
  <2>2. FolderMoves(f, why[f])
    BY <1>7, <2>1 DEF TypeOK, Drain
  <2> QED BY <1>a, <2>2
<1>8. CASE Lower(f)
  <2>1. FolderMoves(f, "notify")
    BY <1>8 DEF Lower
  <2> QED BY <1>a, <2>1
<1>9. CASE Notify(f)
  <2>1. PICK there \in {"idle", "iterating"} : pc' = [pc EXCEPT ![f] = there]
    BY <1>9 DEF Notify, AfterBarrier
  <2>2. FolderMoves(f, there)
    BY <1>9, <2>1 DEF Notify
  <2> QED BY <1>a, <2>2
<1>10. CASE Start(f) \/ StartRefused(f)
  <2>1. FolderMoves(f, "lower")
    BY <1>10 DEF Start, StartRefused
  <2> QED BY <1>a, <2>1
<1>11. CASE ReleaseCount(f)
  <2>1. PICK there \in {"pending", "lower"} : pc' = [pc EXCEPT ![f] = there]
    BY <1>11 DEF ReleaseCount
  <2>2. FolderMoves(f, there)
    BY <1>11, <2>1 DEF ReleaseCount
  <2> QED BY <1>a, <2>2
<1>12. CASE PendingBegin(f)
  <2>1. FolderMoves(f, "applying")
    BY <1>12 DEF PendingBegin
  <2> QED BY <1>a, <2>1
<1>13. CASE PendingKey(f)
  <2>1. FolderMoves(f, "applying")
    BY <1>13, <1>c DEF PendingKey
  <2> QED BY <1>a, <2>1
<1>14. CASE PendingEnd(f)
  <2>1. FolderMoves(f, "clear")
    BY <1>14 DEF PendingEnd
  <2> QED BY <1>a, <2>1
<1>15. CASE PendingClear(f)
  <2>1. FolderMoves(f, "collapse")
    BY <1>15 DEF TypeOK, PendingClear
  <2> QED BY <1>a, <2>1
<1>16. CASE Collapse(f)
  <2>1. PICK there \in {"collapse", "lower"} : pc' = [pc EXCEPT ![f] = there]
    BY <1>16 DEF Collapse
  <2>2. FolderMoves(f, there)
    BY <1>16, <2>1, ZenonT(20) DEF TypeOK, Collapse
  <2> QED BY <1>a, <2>2
<1> QED BY <1>1, <1>2, <1>3, <1>4, <1>5, <1>6, <1>7, <1>8, <1>9, <1>10, <1>11, <1>12,
           <1>13, <1>14, <1>15, <1>16 DEF FolderStep

(***************************************************************************)
(* Types.                                                                  *)
(***************************************************************************)
LEMMA TypeRevs ==
    ASSUME TypeOK, NEW w \in Writers, req[w] \in Requests
    PROVE  /\ epoch + 1 \in Nat
           /\ Entry(req[w].file, req[w].ord, epoch + 1) \in Rev
           /\ \A o \in Nat : Tombstone(o, epoch + 1) \in Rev
           /\ TombOrd(req[w]) \in Nat
  BY DEF TypeOK, Requests, Entry, Tombstone, Rev, TombOrd

LEMMA TypeSetEntry ==
    ASSUME TypeOK, NEW w \in Writers, req[w] \in Requests, NEW c \in Seq(Rev),
           NEW tb \in [Shards -> Int], SetEntry(w, c, tb)
    PROVE  entries' \in [Keys -> Seq(Rev)] /\ tombstones' \in [Shards -> Int]
<1>1. [entries EXCEPT ![req[w].key] = c] \in [Keys -> Seq(Rev)]
  BY DEF TypeOK, Requests
<1> QED BY <1>1, TypeSetEntries DEF SetEntry

LEMMA TypePush ==
    ASSUME NEW c \in Seq(Rev), NEW e \in Rev
    PROVE  Push(e, c) \in Seq(Rev) /\ <<e>> \in Seq(Rev)
  BY DEF Push

LEMMA TypeSetPending ==
    ASSUME TypeOK, NEW k \in Keys, NEW e \in Rev, SetPending(k, e)
    PROVE  pending' \in [Keys -> Seq(Rev)]
  BY TypePush DEF TypeOK, SetPending

\* Counting up or down at x leaves a table of integers one, whatever x is.
LEMMA TypeCount ==
    ASSUME NEW S, NEW h \in [S -> Int], NEW x
    PROVE  /\ [h EXCEPT ![x] = @ + 1] \in [S -> Int]
           /\ [h EXCEPT ![x] = @ - 1] \in [S -> Int]
           /\ [h EXCEPT ![x] = IF @ > 0 THEN @ - 1 ELSE @] \in [S -> Int]
<1>1. CASE x \in S
  <2>1. h[x] \in Int
    BY <1>1
  <2>2. \A i \in Int : [h EXCEPT ![x] = i] \in [S -> Int]
    OBVIOUS
  <2>3. h[x] + 1 \in Int /\ h[x] - 1 \in Int
    BY <2>1
  <2>4. (IF h[x] > 0 THEN h[x] - 1 ELSE h[x]) \in Int
    BY <2>1
  <2> QED BY <2>2, <2>3, <2>4
<1>2. CASE x \notin S
  BY <1>2
<1> QED BY <1>1, <1>2

LEMMA TypeWrites ==
    ASSUME TypeOK, LockInv, NEW w \in Writers,
           \/ PutMissed(w) \/ PutRefused(w) \/ PutInsert(w) \/ PutOverwrite(w)
           \/ RemoveNothing(w) \/ RemoveLive(w)
    PROVE  TypeOK'
<1>1. Leave(w) /\ asked' = asked /\ phase' = phase /\ req[w] \in Requests
  BY DEF PutMissed, PutRefused, PutInsert, PutOverwrite, RemoveNothing, RemoveLive,
     IsPut, IsRemove, Observe, seen, LockInv, CallsHaveArguments
<1>2. SUFFICES /\ entries' \in [Keys -> Seq(Rev)] /\ pending' \in [Keys -> Seq(Rev)]
               /\ tombstones' \in [Shards -> Int] /\ live' \in [Files -> Int]
               /\ hasPending' \in BOOLEAN /\ epoch' \in Nat /\ keyCount' \in Int
               /\ biggest' \in Files
  BY <1>1, TypeLeave DEF TypeOK, flocal, input
<1> DEFINE k == req[w].key
           e == Entry(req[w].file, req[w].ord, epoch + 1)
<1>3. /\ k \in Keys /\ e \in Rev /\ epoch + 1 \in Nat /\ Found(w) \in Seq(Rev)
      /\ \A o \in Nat : Tombstone(o, epoch + 1) \in Rev
      /\ TombOrd(req[w]) \in Nat
  BY <1>1, TypeRevs, TypeFound DEF Requests
<1>4. <<e>> \in Seq(Rev) /\ Push(e, entries[k]) \in Seq(Rev)
  BY <1>3, TypePush DEF TypeOK
<1>5. biggest \in Files /\ (RaiseBiggest(req[w].file) => biggest' \in Files)
  BY <1>1 DEF TypeOK, RaiseBiggest, Requests, Files
<1>6. CASE PutMissed(w)
  BY <1>6 DEF TypeOK, PutMissed, data, stats
<1>7. CASE PutRefused(w)
  <2>1. entries' \in [Keys -> Seq(Rev)] /\ tombstones' \in [Shards -> Int]
    BY <1>1, <1>7, TypeSetEntries DEF TypeOK, PutRefused
  <2> QED BY <1>7, <2>1 DEF TypeOK, PutRefused, Tick
<1>8. CASE PutInsert(w)
  <2>1. epoch' \in Nat /\ keyCount' \in Int /\ biggest' \in Files
    BY <1>5, <1>8 DEF TypeOK, PutInsert, Tick
  <2>a. live' \in [Files -> Int]
    BY <1>8, TypeCount DEF TypeOK, PutInsert
  <2> DEFINE tb == [tombstones EXCEPT ![ShardOf[k]] = IF @ > 0 THEN @ - 1 ELSE @]
  <2>2. tb \in [Shards -> Int] /\ tombstones \in [Shards -> Int]
    BY TypeCount DEF TypeOK
  <2>3. \/ SetEntry(w, Push(e, entries[k]), tombstones) /\ UNCHANGED <<pending, hasPending>>
        \/ SetEntry(w, <<e>>, tb) /\ UNCHANGED <<pending, hasPending>>
        \/ SetPending(k, e) /\ hasPending' = TRUE /\ SetEntries(w, entries, tombstones)
        \/ SetEntry(w, <<e>>, tombstones) /\ UNCHANGED <<pending, hasPending>>
    BY <1>8 DEF PutInsert
  <2> HIDE DEF tb, e, k
  <2>4. entries' \in [Keys -> Seq(Rev)] /\ tombstones' \in [Shards -> Int]
    BY <1>1, <1>4, <2>2, <2>3, TypeSetEntry, TypeSetEntries DEF TypeOK
  <2>5. pending' \in [Keys -> Seq(Rev)] /\ hasPending' \in BOOLEAN
    BY <1>3, <2>3, TypeSetPending DEF TypeOK
  <2> QED BY <2>1, <2>a, <2>4, <2>5
<1>9. CASE PutOverwrite(w)
  <2>1. epoch' \in Nat /\ keyCount' \in Int /\ biggest' \in Files
    BY <1>5, <1>9 DEF TypeOK, PutOverwrite, Tick
  <2>2. live' \in [Files -> Int]
    <3> DEFINE lower == [live EXCEPT ![Found(w)[1].file] = @ - 1]
    <3>1. lower \in [Files -> Int]
      BY TypeCount DEF TypeOK
    <3>2. [lower EXCEPT ![req[w].file] = @ + 1] \in [Files -> Int]
      BY <3>1, TypeCount
    <3>3. live' = live \/ live' = [lower EXCEPT ![req[w].file] = @ + 1]
      BY <1>9 DEF PutOverwrite, LiveAfter
    <3> QED BY <3>2, <3>3 DEF TypeOK
  <2>3. \/ /\ SetEntry(w, IF foldSeen[w] THEN Push(e, entries[k]) ELSE <<e>>, tombstones)
           /\ UNCHANGED <<pending, hasPending>>
        \/ /\ SetPending(k, e) /\ SetEntries(w, entries, tombstones) /\ UNCHANGED hasPending
    BY <1>9 DEF PutOverwrite
  <2> HIDE DEF e, k
  <2>4. entries' \in [Keys -> Seq(Rev)] /\ tombstones' \in [Shards -> Int]
    BY <1>1, <1>4, <2>3, TypeSetEntry, TypeSetEntries DEF TypeOK
  <2>5. pending' \in [Keys -> Seq(Rev)] /\ hasPending' \in BOOLEAN
    BY <1>3, <2>3, TypeSetPending DEF TypeOK
  <2> QED BY <2>1, <2>2, <2>4, <2>5
<1>10. CASE RemoveNothing(w)
  <2>1. <<Tombstone(TombOrd(req[w]), epoch + 1)>> \in Seq(Rev)
    BY <1>3, TypePush
  <2>2. entries' \in {entries, [entries EXCEPT ![k] = <<Tombstone(TombOrd(req[w]), epoch + 1)>>]}
    BY <1>10 DEF RemoveNothing
  <2>3. entries' \in [Keys -> Seq(Rev)]
    BY <1>3, <2>1, <2>2 DEF TypeOK
  <2> QED BY <1>10, <2>3 DEF TypeOK, RemoveNothing, Tick
<1>11. CASE RemoveLive(w)
  <2> DEFINE t == Tombstone(TombOrd(req[w]), epoch + 1)
             tb == [tombstones EXCEPT ![ShardOf[k]] = @ + 1]
  <2>1. epoch' \in Nat /\ keyCount' \in Int /\ biggest' \in Files /\ hasPending' \in BOOLEAN
    BY <1>5, <1>11 DEF TypeOK, RemoveLive, Tick
  <2>2. live' \in [Files -> Int]
    BY <1>11, TypeCount DEF TypeOK, RemoveLive
  <2>3. tb \in [Shards -> Int] /\ tombstones \in [Shards -> Int]
    BY TypeCount DEF TypeOK
  <2>4. t \in Rev /\ <<t>> \in Seq(Rev) /\ Push(t, entries[k]) \in Seq(Rev)
    BY <1>3, TypePush DEF TypeOK
  <2>5. \/ SetEntry(w, Push(t, entries[k]), tombstones) /\ UNCHANGED pending
        \/ SetEntry(w, <<t>>, tb) /\ UNCHANGED pending
        \/ /\ entries[k] = <<>> /\ SetPending(k, [t EXCEPT !.file = pending[k][1].file])
           /\ UNCHANGED <<entries, tombstones>>
    BY <1>11 DEF RemoveLive
  <2>6. entries[k] = <<>> => [t EXCEPT !.file = pending[k][1].file] \in Rev
    <3> SUFFICES ASSUME entries[k] = <<>> PROVE [t EXCEPT !.file = pending[k][1].file] \in Rev
      OBVIOUS
    <3>1. pending[k] \in Seq(Rev) /\ pending[k] # <<>>
      BY <1>3, <1>11 DEF RemoveLive, Dead, Found, TypeOK
    <3>2. pending[k][1].file \in Files \cup {0}
      BY <3>1, RevsOfChain
    <3> QED BY <2>4, <3>2 DEF Rev
  <2> HIDE DEF t, tb, k
  <2>7. entries' \in [Keys -> Seq(Rev)] /\ tombstones' \in [Shards -> Int]
    BY <1>1, <2>3, <2>4, <2>5, TypeSetEntry DEF TypeOK
  <2>8. pending' \in [Keys -> Seq(Rev)]
    BY <1>3, <2>5, <2>6, TypeSetPending DEF TypeOK
  <2> QED BY <2>1, <2>2, <2>7, <2>8
<1> QED BY <1>6, <1>7, <1>8, <1>9, <1>10, <1>11

LEMMA TypePeeks ==
    ASSUME TypeOK, LockInv, NEW w \in Writers, Peek(w) \/ PeekMeta(w)
    PROVE  TypeOK'
<1> USE Kinds DEF TypeOK, data, stats, flocal, input, seen
<1>1. CASE Peek(w)
  <2>1. PICK there \in {"lock", "idle", "peek meta"} : pc' = [pc EXCEPT ![w] = there]
    BY <1>1 DEF Peek, EndPeek, Goto
  <2>2. req' = req \/ req' = [req EXCEPT ![w] = NoReq]
    BY <1>1 DEF Peek, EndPeek
  <2>3. shardOwner' = shardOwner \/ shardOwner' = [shardOwner EXCEPT ![ShardOf[req[w].key]] = w]
    BY <1>1 DEF Peek, TakeShard
  <2>4. /\ pc' \in [Threads -> WriterPCs \cup ReaderPCs \cup FolderPCs]
        /\ req' \in [Writers -> Requests \cup {NoReq}]
        /\ shardOwner' \in [Shards -> Threads \cup {NoOne}]
    BY <2>1, <2>2, <2>3, ZenonT(20) DEF WriterPCs
  <2> QED BY <1>1, <2>4 DEF Peek
<1>2. CASE PeekMeta(w)
  BY <1>2 DEF PeekMeta, EndPeek, DropShard, Goto, WriterPCs
<1> QED BY <1>1, <1>2

LEMMA TypeChain ==
    ASSUME TypeOK, NEW k \in Keys, IsLive(k)
    PROVE  Chain(k)[1].file \in Files \cup {0} /\ Chain(k)[1].ord \in Nat
<1>1. Chain(k) \in Seq(Rev)
  BY DEF TypeOK, Chain, ChainIn
<1>2. Chain(k) # <<>>
  BY DEF IsLive, Current, ValueIn, Chain
<1> QED BY <1>1, <1>2, RevsOfChain

\* The argument of a call is a request.
LEMMA BeginRequest ==
    ASSUME TypeOK, NEW w \in Writers, NEW k \in Keys,
           BeginPut(w, k) \/ BeginRemove(w, k) \/ BeginMove(w, k) \/ BeginTtl(w, k)
    PROVE  \E r \in Requests, there \in {"lock", "peek"} :
              Begin(w, r, there) /\ nextOrd' \in Nat /\ mergeFiles' = mergeFiles
<1>1. CASE BeginPut(w, k)
  <2>1. PICK f \in (1..biggest) \ mergeFiles :
           /\ Begin(w, [op |-> "put", key |-> k, file |-> f, ord |-> nextOrd, old |-> 0], "lock")
           /\ nextOrd' = nextOrd + 1 /\ UNCHANGED mergeFiles
    BY <1>1 DEF BeginPut
  <2>2. f \in Files /\ nextOrd \in Nat /\ nextOrd + 1 \in Nat
    BY ConstantsOK DEF TypeOK, Files
  <2>3. [op |-> "put", key |-> k, file |-> f, ord |-> nextOrd, old |-> 0] \in Requests
    BY <2>2 DEF Requests
  <2> QED BY <2>1, <2>2, <2>3
<1>2. CASE BeginRemove(w, k)
  <2>1. [op |-> "remove", key |-> k, file |-> 0, ord |-> nextOrd, old |-> 0] \in Requests
    BY DEF TypeOK, Requests
  <2>2. nextOrd + 1 \in Nat
    BY DEF TypeOK
  <2> QED BY <1>2, <2>1, <2>2 DEF BeginRemove
<1>3. CASE BeginMove(w, k)
  <2>1. PICK f \in mergeFiles :
           Begin(w, [op |-> "move", key |-> k, file |-> f, ord |-> Chain(k)[1].ord,
                     old |-> Chain(k)[1].file], "lock")
    BY <1>3 DEF BeginMove
  <2>2. f \in Files
    BY DEF TypeOK
  <2>3. [op |-> "move", key |-> k, file |-> f, ord |-> Chain(k)[1].ord,
         old |-> Chain(k)[1].file] \in Requests
    BY <1>3, <2>2, TypeChain DEF BeginMove, Requests
  <2> QED BY <1>3, <2>1, <2>3 DEF BeginMove, TypeOK
<1>4. CASE BeginTtl(w, k)
  <2>1. Begin(w, [op |-> "ttl", key |-> k, file |-> 0, ord |-> Chain(k)[1].ord,
                  old |-> Chain(k)[1].file], "peek")
    BY <1>4 DEF BeginTtl
  <2>2. [op |-> "ttl", key |-> k, file |-> 0, ord |-> Chain(k)[1].ord,
         old |-> Chain(k)[1].file] \in Requests
    BY <1>4, TypeChain DEF BeginTtl, Requests
  <2> QED BY <1>4, <2>1, <2>2 DEF BeginTtl, TypeOK
<1> QED BY <1>1, <1>2, <1>3, <1>4

LEMMA TypeBegins ==
    ASSUME TypeOK, NEW w \in Writers, NEW r \in Requests, NEW there \in {"lock", "peek"},
           Begin(w, r, there), nextOrd' \in Nat, mergeFiles' = mergeFiles
    PROVE  TypeOK'
<1>1. ops' \in 0..MaxOps
  BY ConstantsOK DEF TypeOK, Begin
<1>2. pc' \in [Threads -> WriterPCs \cup ReaderPCs \cup FolderPCs]
  BY Kinds DEF TypeOK, Begin, Goto, WriterPCs
<1>3. req' \in [Writers -> Requests \cup {NoReq}]
  BY DEF TypeOK, Begin
<1> QED BY <1>1, <1>2, <1>3 DEF TypeOK, Begin, data, stats, locks, flocal, seen

LEMMA TypeReaders ==
    ASSUME TypeOK, LockInv, NEW r \in Readers, NEW k \in Keys, ReaderStep(r) \/ GetBegin(r, k)
    PROVE  TypeOK'
<1>0. ops < MaxOps => ops + 1 \in 0..MaxOps
  BY ConstantsOK DEF TypeOK
<1> USE Kinds DEF TypeOK, data, stats, locks, wlocal, flocal, input, seen, Goto, Return, ReaderPCs
<1>1. CASE GetBegin(r, k)
  <2>1. ops' \in 0..MaxOps
    BY <1>0, <1>1 DEF GetBegin
  <2> QED BY <1>1, <2>1 DEF GetBegin
<1>2. CASE GetKeyfolders(r)
  BY <1>2 DEF GetKeyfolders
<1>3. CASE GetHasPending(r)
  BY <1>3 DEF GetHasPending
<1>4. CASE GetOptimistic(r)
  BY <1>4 DEF GetOptimistic
<1>5. CASE GetLocked(r)
  <2>1. shardOwner' = shardOwner \/ shardOwner' = [shardOwner EXCEPT ![ShardOf[asked[r]]] = r]
    BY <1>5 DEF GetLocked, TakeShard
  <2>2. PICK there \in {"idle", "meta shared"} : pc' = [pc EXCEPT ![r] = there]
    BY <1>5 DEF GetLocked
  <2>3. (asked' = asked \/ asked' = [asked EXCEPT ![r] = NoKey]) /\ phase' = phase
    BY <1>5 DEF GetLocked
  <2>4. /\ shardOwner' \in [Shards -> Threads \cup {NoOne}]
        /\ pc' \in [Threads -> WriterPCs \cup ReaderPCs \cup FolderPCs]
        /\ asked' \in [Readers -> Keys \cup {NoKey}]
    BY <2>1, <2>2, <2>3
  <2> QED BY <1>5, <2>3, <2>4 DEF GetLocked
<1>6. CASE GetPending(r)
  BY <1>6 DEF GetPending, DropShard
<1> QED BY <1>1, <1>2, <1>3, <1>4, <1>5, <1>6 DEF ReaderStep

LEMMA TypeFolders ==
    ASSUME TypeOK, LockInv, FoldsCounted, PendingInv, NEW f \in Folders,
           \/ FolderStep(f) \/ WantStart(f) \/ WantRelease(f) \/ NextKey(f) \/ NextEnd(f)
    PROVE  TypeOK'
<1> USE Kinds DEF TypeOK, data, stats, locks, wlocal, flocal, input, seen, Goto, FolderPCs, Inside
<1>1. CASE WantStart(f)
  <2>1. ops' \in 0..MaxOps
    BY <1>1, ConstantsOK DEF WantStart
  <2> QED BY <1>1, <2>1 DEF WantStart
<1>2. CASE WantRelease(f)
  BY <1>2 DEF WantRelease
<1>3. CASE NextKey(f)
  <2>1. PICK k \in todo[f] : todo' = [todo EXCEPT ![f] = @ \ {k}]
    BY <1>3 DEF NextKey
  <2>2. todo' \in [Folders -> SUBSET Keys]
    BY <2>1
  <2> QED BY <1>3, <2>2 DEF NextKey
<1>14. CASE NextEnd(f)
  BY <1>14 DEF NextEnd
<1>4. CASE LockBarrier(f) \/ Lower(f)
  BY <1>4 DEF LockBarrier, Lower
<1>5. CASE Raise(f)
  <2>1. 1 \in Shards
    BY ConstantsOK DEF Shards
  <2> QED BY <1>5, <2>1 DEF Raise
<1>6. CASE Drain(f)
  <2>1. at' \in [Folders -> Shards]
    BY <1>6, ConstantsOK DEF Drain, Shards
  <2> QED BY <1>6, <2>1 DEF Drain
<1>7. CASE Notify(f)
  BY <1>7 DEF Notify, AfterBarrier, Asleep
<1>8. CASE Start(f)
  <2>1. todo' \in [Folders -> SUBSET Keys]
    BY <1>8 DEF Start
  <2>2. epoch' \in Nat /\ keyfolders' \in Nat /\ iterEpoch' \in [Folders -> Nat]
    BY <1>8 DEF Start, StartEpoch
  <2> QED BY <1>8, <2>1, <2>2 DEF Start
<1>15. CASE StartRefused(f)
  BY <1>15 DEF StartRefused
<1>9. CASE ReleaseCount(f)
  <2>1. keyfolders - 1 \in Nat
    <3> DEFINE S == {g \in Folders : phase[g] # "none"}
    <3>1. f \in S
      BY <1>9 DEF ReleaseCount, FoldsCounted
    <3>2. IsFiniteSet(S)
      BY FS_Subset, ConstantsOK
    <3>3. keyfolders = Cardinality(S)
      BY DEF FoldsCounted
    <3>4. Cardinality(S) # 0
      <4> HIDE DEF S
      <4> QED BY <3>1, <3>2, FS_EmptySet
    <3>5. keyfolders \in Nat /\ keyfolders # 0
      BY <3>3, <3>4
    <3> QED BY <3>5
  <2> QED BY <1>9, <2>1 DEF ReleaseCount
<1>10. CASE PendingBegin(f)
  <2>1. todo' \in [Folders -> SUBSET Keys]
    BY <1>10 DEF PendingBegin, InPending
  <2> QED BY <1>10, <2>1 DEF PendingBegin
<1>16. CASE PendingEnd(f)
  BY <1>16 DEF PendingEnd
<1>11. CASE PendingKey(f)
  <2>1. PICK k \in todo[f] :
          /\ todo' = [todo EXCEPT ![f] = @ \ {k}]
          /\ entries' = [entries EXCEPT ![k] = IF pending[k][1].tomb THEN <<>> ELSE <<pending[k][1]>>]
          /\ \/ tombstones' = [tombstones EXCEPT ![ShardOf[k]] = @ - 1]
             \/ tombstones' = [tombstones EXCEPT ![ShardOf[k]] = @]
    BY <1>11 DEF PendingKey
  <2>2. k \in Keys /\ pending[k] \in Seq(Rev) /\ pending[k] # <<>>
    BY <1>11 DEF PendingKey, PendingInv, InPending
  <2>3. pending[k][1] \in Rev
    BY <2>2, RevsOfChain
  <2>4. entries' \in [Keys -> Seq(Rev)]
    BY <2>1, <2>2, <2>3
  <2>5. tombstones' \in [Shards -> Int]
    BY <2>1, TypeCount
  <2> QED BY <1>11, <2>1, <2>4, <2>5 DEF PendingKey
<1>12. CASE PendingClear(f)
  <2>1. 1 \in Shards
    BY ConstantsOK DEF Shards
  <2>2. pending' \in [Keys -> Seq(Rev)] /\ at' \in [Folders -> Shards]
    BY <1>12, <2>1 DEF PendingClear
  <2> QED BY <1>12, <2>2 DEF PendingClear
<1>13. CASE Collapse(f)
  <2>1. at' \in [Folders -> Shards]
    BY <1>13, ConstantsOK DEF Collapse, Shards
  <2>2. \A k \in Keys : Collapsed(entries[k]) \in Seq(Rev)
    BY RevsOfChain DEF Collapsed, Dead
  <2>3. entries' \in [Keys -> Seq(Rev)]
    BY <1>13, <2>2 DEF Collapse
  <2> QED BY <1>13, <2>1, <2>3 DEF Collapse
<1> QED BY <1>1, <1>2, <1>3, <1>4, <1>5, <1>6, <1>7, <1>8, <1>9, <1>10, <1>11, <1>12,
           <1>13, <1>14, <1>15, <1>16 DEF FolderStep

LEMMA TypeIncrement ==
    ASSUME TypeOK, IncrementFileId
    PROVE  TypeOK'
<1>1. biggest' \in Files /\ mergeFiles' \subseteq Files
  BY ConstantsOK DEF TypeOK, IncrementFileId, Files
<1> QED BY <1>1 DEF TypeOK, IncrementFileId, data, locks, wlocal, flocal, seen

(***************************************************************************)
(* Folds.                                                                  *)
(***************************************************************************)
LEMMA OneInside ==
    ASSUME LockInv, NEW f \in Folders, NEW g \in Folders,
           pc[f] \in Inside, pc[g] \in Inside
    PROVE  f = g
  BY DEF LockInv, BarrierHeld

\* FoldsCounted without the count.
PhaseOf(f) ==
    /\ pc[f] \in {"release", "iterating"} => phase[f] # "none"
    /\ pc[f] = "start" => phase[f] = "none"
    /\ pc[f] \in {"barrier", "raise", "drain"} => (phase[f] = "none" <=> why[f] = "start")
    /\ pc[f] \in {"idle"} \cup Moving \cup {"collapse"} => phase[f] = "none"
    /\ pc[f] \in Moving \cup {"collapse"} => keyfolders = 0

LEMMA FoldsRest ==
    ASSUME TypeOK, FoldsCounted, UNCHANGED <<phase, why, keyfolders>>,
           \A f \in Folders : pc'[f] = pc[f]
    PROVE  FoldsCounted'
  BY DEF FoldsCounted

LEMMA FoldsFolder ==
    ASSUME TypeOK, FoldsCounted, NEW f \in Folders, PhaseOf(f)',
           \A g \in Folders : g # f => UNCHANGED <<pc[g], phase[g], why[g]>>,
           keyfolders' = Cardinality({g \in Folders : phase'[g] # "none"}),
           keyfolders' # keyfolders
              => \A g \in Folders : g # f => pc[g] \notin Moving \cup {"collapse"}
    PROVE  FoldsCounted'
<1>1. ASSUME NEW g \in Folders
      PROVE  PhaseOf(g)'
  <2>1. CASE g = f
    BY <2>1
  <2>2. CASE g # f
    BY <2>2 DEF FoldsCounted, PhaseOf
  <2> QED BY <2>1, <2>2
<1> QED BY <1>1 DEF FoldsCounted, PhaseOf

LEMMA FoldsFolders ==
    ASSUME TypeOK, LockInv, FoldsCounted, NEW f \in Folders,
           \/ FolderStep(f) \/ WantStart(f) \/ WantRelease(f) \/ NextKey(f) \/ NextEnd(f)
    PROVE  FoldsCounted'
<1> DEFINE S == {g \in Folders : phase[g] # "none"}
<1>1. IsFiniteSet(S) /\ keyfolders = Cardinality(S)
  BY FS_Subset, ConstantsOK DEF FoldsCounted
<1>2. PhaseOf(f)
  BY DEF FoldsCounted, PhaseOf
<1>3. ASSUME \A g \in Folders : g # f => UNCHANGED <<pc[g], phase[g], why[g]>>,
             UNCHANGED keyfolders, (phase'[f] = "none") <=> (phase[f] = "none"), PhaseOf(f)'
      PROVE  FoldsCounted'
  <2>1. {g \in Folders : phase'[g] # "none"} = S
    BY <1>3
  <2> QED BY <1>1, <1>3, <2>1, FoldsFolder
<1>4. ASSUME phase' = phase, pc' = pc \/ \E there : pc' = [pc EXCEPT ![f] = there],
             why' = why, UNCHANGED keyfolders, PhaseOf(f)'
      PROVE  FoldsCounted'
  <2>1. \A g \in Folders : g # f => UNCHANGED <<pc[g], phase[g], why[g]>>
    BY <1>4, Kinds DEF TypeOK
  <2> QED BY <1>3, <1>4, <2>1
<1> HIDE DEF S
<1> USE <1>2, Kinds DEF TypeOK, PhaseOf, Moving, Goto, data, stats, locks, wlocal, flocal,
        input, seen
<1>5. CASE WantStart(f) \/ WantRelease(f)
  <2>1. /\ \A g \in Folders : g # f => UNCHANGED <<pc[g], phase[g], why[g]>>
        /\ UNCHANGED keyfolders /\ phase' = phase /\ PhaseOf(f)'
    BY <1>5 DEF WantStart, WantRelease
  <2> QED BY <1>3, <2>1
<1>6. CASE NextKey(f)
  BY <1>4, <1>6 DEF NextKey
<1>7. CASE NextEnd(f)
  <2>1. /\ \A g \in Folders : g # f => UNCHANGED <<pc[g], phase[g], why[g]>>
        /\ UNCHANGED keyfolders /\ ((phase'[f] = "none") <=> (phase[f] = "none")) /\ PhaseOf(f)'
    BY <1>7 DEF NextEnd
  <2> QED BY <1>3, <2>1
<1>8. CASE LockBarrier(f) \/ Raise(f)
  BY <1>4, <1>8 DEF LockBarrier, Raise
<1>9. CASE Drain(f)
  BY <1>4, <1>9 DEF Drain
<1>10. CASE Lower(f)
  BY <1>4, <1>10 DEF Lower
<1>11. CASE Notify(f)
  BY <1>4, <1>11 DEF Notify, AfterBarrier
<1>12. CASE StartRefused(f)
  BY <1>4, <1>12 DEF StartRefused
<1>13. CASE Start(f)
  <2>1. {g \in Folders : phase'[g] # "none"} = S \cup {f} /\ f \notin S
    BY <1>13 DEF Start, S
  <2>2. keyfolders' = Cardinality({g \in Folders : phase'[g] # "none"})
    BY <1>1, <1>13, <2>1, FS_AddElement, ZenonT(20) DEF Start
  <2>3. \A g \in Folders : g # f => pc[g] \notin Moving \cup {"collapse"}
    BY <1>13, OneInside DEF Start, Inside
  <2>4. PhaseOf(f)' /\ \A g \in Folders : g # f => UNCHANGED <<pc[g], phase[g], why[g]>>
    BY <1>13 DEF Start
  <2> QED BY <2>2, <2>3, <2>4, FoldsFolder
<1>14. CASE ReleaseCount(f)
  <2>1. {g \in Folders : phase'[g] # "none"} = S \ {f} /\ f \in S
    BY <1>14 DEF ReleaseCount, S
  <2>2. keyfolders' = Cardinality({g \in Folders : phase'[g] # "none"})
    BY <1>1, <1>14, <2>1, FS_RemoveElement, ZenonT(20) DEF ReleaseCount
  <2>3. \A g \in Folders : g # f => pc[g] \notin Moving \cup {"collapse"}
    BY <1>14, OneInside DEF ReleaseCount, Inside
  <2>4. PhaseOf(f)' /\ \A g \in Folders : g # f => UNCHANGED <<pc[g], phase[g], why[g]>>
    BY <1>14 DEF ReleaseCount, IsLastFolder
  <2> QED BY <2>2, <2>3, <2>4, FoldsFolder
<1>15. CASE PendingBegin(f) \/ PendingEnd(f)
  BY <1>4, <1>15 DEF PendingBegin, PendingEnd
<1>16. CASE PendingKey(f)
  BY <1>4, <1>16 DEF PendingKey
<1>17. CASE PendingClear(f)
  BY <1>4, <1>17 DEF PendingClear
<1>18. CASE Collapse(f)
  BY <1>4, <1>18 DEF Collapse
<1> QED BY <1>5, <1>6, <1>7, <1>8, <1>9, <1>10, <1>11, <1>12, <1>13, <1>14, <1>15, <1>16,
           <1>17, <1>18 DEF FolderStep

(***************************************************************************)
(* The pending table.                                                      *)
(***************************************************************************)
\* PendingInv's part on one writer.
KnowsFold(w) ==
    /\ pc[w] = "meta" \/ metaOwner = w => keyfolders > 0
    /\ pc[w] \in {"meta", "apply"} => (foldSeen[w] <=> keyfolders > 0)
    /\ pc[w] = "apply" /\ entries[req[w].key] = <<>> /\ metaOwner # w
          => pending[req[w].key] = <<>>

\* A step that leaves the tables and the count of folds alone.
LEMMA PendingRest ==
    ASSUME TypeOK, PendingInv, UNCHANGED <<entries, pending, hasPending, keyfolders>>,
           \A f \in Folders : /\ pc[f] \in Moving => pc'[f] \in Moving
                              /\ pc'[f] = "applying" => todo'[f] \subseteq InPending,
           \A w \in Writers : KnowsFold(w)'
    PROVE  PendingInv'
  BY DEF PendingInv, KnowsFold, InPending

LEMMA KnowsRest ==
    ASSUME PendingInv, UNCHANGED <<entries, pending, keyfolders>>, NEW w \in Writers,
           UNCHANGED <<pc[w], req[w], foldSeen[w]>>, metaOwner' = w => metaOwner = w,
           metaOwner = w => metaOwner' = w
    PROVE  KnowsFold(w)'
  BY DEF PendingInv, KnowsFold

\* Past the gate a writer knows that nothing is moving.
LEMMA NothingMoves ==
    ASSUME TypeOK, LockInv, PendingInv, NEW w \in Writers, pc[w] \in PastGate
    PROVE  /\ \A f \in Folders : pc[f] \notin Moving
           /\ hasPending => keyfolders > 0
           /\ \A k \in Keys : entries[k] = <<>> \/ pending[k] = <<>>
<1>1. \A f \in Folders : pc[f] \notin Moving
  BY DEF LockInv, BarrierExcludesWriters, PastGate, Inside, Moving
<1> QED BY <1>1 DEF PendingInv

LEMMA PendingGate ==
    ASSUME TypeOK, LockInv, PendingInv, NEW w \in Writers,
           \/ Lock(w) \/ Gate(w) \/ Wait(w) \/ Probe(w) \/ Meta(w) \/ Peek(w) \/ PeekMeta(w)
           \/ \E r \in Requests, there \in {"lock", "peek"} : Begin(w, r, there)
    PROVE  PendingInv'
<1> USE Kinds DEF data, locks, wlocal, flocal, input, seen, Goto
<1>1. /\ UNCHANGED <<entries, pending, hasPending, keyfolders, todo>>
      /\ \A f \in Folders : pc'[f] = pc[f]
      /\ \A v \in Writers : v # w => UNCHANGED <<pc[v], req[v], foldSeen[v]>>
      /\ metaOwner' = metaOwner \/ (metaOwner' = w /\ metaOwner = NoOne)
  <2>1. UNCHANGED <<entries, pending, hasPending, keyfolders, todo>>
    BY DEF Lock, Gate, Wait, Probe, Meta, Peek, PeekMeta, Begin
  <2>2. pc' = pc \/ \E there : pc' = [pc EXCEPT ![w] = there]
    BY DEF Lock, Gate, Wait, Probe, Meta, Peek, PeekMeta, EndPeek, Begin
  <2>3. req' = req \/ \E r : req' = [req EXCEPT ![w] = r]
    BY DEF Lock, Gate, Wait, Probe, Meta, Peek, PeekMeta, EndPeek, Begin
  <2>4. foldSeen' = foldSeen \/ \E b : foldSeen' = [foldSeen EXCEPT ![w] = b]
    BY DEF Lock, Gate, Wait, Probe, Meta, Peek, PeekMeta, Begin
  <2>5. metaOwner' = metaOwner \/ (metaOwner' = w /\ metaOwner = NoOne)
    BY DEF Lock, Gate, Wait, Probe, Meta, Peek, PeekMeta, Begin, MetaFree
  <2> QED BY <2>1, <2>2, <2>3, <2>4, <2>5 DEF TypeOK
<1>2. \A v \in Writers : v # w => KnowsFold(v)'
  BY <1>1, KnowsRest
<1>3. metaOwner = w => pc[w] = "apply"
  BY DEF LockInv, MetaHeld
<1>4. KnowsFold(w)'
  <2>1. CASE \/ Lock(w) \/ Gate(w) \/ Wait(w) \/ Peek(w) \/ PeekMeta(w)
             \/ \E r \in Requests, there \in {"lock", "peek"} : Begin(w, r, there)
    <3>1. pc'[w] \in WriterPCs \ {"meta", "apply"} /\ pc[w] # "apply"
      BY <2>1, ZenonT(20) DEF TypeOK, Lock, Gate, Wait, Peek, PeekMeta, EndPeek, Begin, WriterPCs
    <3>2. metaOwner' = metaOwner
      BY <2>1 DEF Lock, Gate, Wait, Peek, PeekMeta, Begin
    <3> QED BY <1>3, <3>1, <3>2 DEF KnowsFold
  <2>2. CASE Probe(w)
    <3>1. /\ pc[w] = "probe" /\ foldSeen'[w] = FoldActive /\ req' = req
          /\ metaOwner' = metaOwner
          /\ pc'[w] = IF entries[req[w].key] = <<>> /\ LookInPending THEN "meta" ELSE "apply"
      BY <2>2 DEF Probe, TypeOK
    <3>2. req[w].key \in Keys
      BY <3>1 DEF LockInv, CallsHaveArguments, Requests
    <3>3. hasPending => keyfolders > 0
      BY <3>1, NothingMoves DEF PastGate
    <3>4. pc'[w] = "meta" => keyfolders > 0
      BY <3>1, <3>3 DEF LookInPending, FoldActive
    <3>5. metaOwner' # w
      BY <1>3, <3>1
    <3>6. foldSeen'[w] <=> keyfolders > 0
      BY <3>1 DEF FoldActive
    <3>7. pc'[w] = "apply" /\ entries[req[w].key] = <<>> => pending[req[w].key] = <<>>
      BY <3>1, <3>2 DEF LookInPending, PendingInv
    <3> QED BY <1>1, <3>1, <3>4, <3>5, <3>6, <3>7 DEF KnowsFold
  <2>3. CASE Meta(w)
    <3>1. pc[w] = "meta" /\ metaOwner' = w /\ UNCHANGED <<foldSeen, req>>
      BY <2>3 DEF Meta
    <3>2. keyfolders > 0 /\ (foldSeen[w] <=> keyfolders > 0)
      BY <3>1 DEF PendingInv
    <3> QED BY <1>1, <3>1, <3>2 DEF KnowsFold
  <2> QED BY <2>1, <2>2, <2>3
<1>5. \A f \in Folders : pc'[f] = "applying" => todo'[f] \subseteq InPending
  BY <1>1 DEF PendingInv
<1> QED BY <1>1, <1>2, <1>4, <1>5, PendingRest

LEMMA PendingReaders ==
    ASSUME TypeOK, PendingInv, NEW r \in Readers, NEW k \in Keys, ReaderStep(r) \/ GetBegin(r, k)
    PROVE  PendingInv'
<1>1. UNCHANGED <<entries, pending, hasPending, keyfolders, todo, req, foldSeen, metaOwner>>
  BY DEF ReaderStep, GetBegin, GetKeyfolders, GetHasPending, GetOptimistic, GetLocked,
     GetPending, data, locks, wlocal, flocal
<1>2. \A t \in Writers \cup Folders : pc'[t] = pc[t]
  BY Kinds, ZenonT(20) DEF TypeOK, ReaderStep, GetBegin, GetKeyfolders, GetHasPending, GetOptimistic,
     GetLocked, GetPending, Goto, Return
<1>3. \A w \in Writers : KnowsFold(w)'
  BY <1>1, <1>2, KnowsRest
<1>4. \A f \in Folders : pc'[f] = "applying" => todo'[f] \subseteq InPending
  BY <1>1, <1>2 DEF PendingInv
<1> QED BY <1>1, <1>2, <1>3, <1>4, PendingRest

\* What a write does to the tables: it keeps them disjoint at its own key and
\* touches no other key but by sweeping its own shard.
WriteEffect(w) ==
    LET k == req[w].key IN
    /\ \A j \in Keys : ShardOf[j] # ShardOf[k] => entries'[j] = entries[j]
    /\ \A j \in Keys : j # k => pending'[j] = pending[j] /\ entries'[j] \in {entries[j], <<>>}
    /\ pending'[k] # <<>> => entries'[k] = <<>> /\ Len(pending'[k]) = 1 /\ hasPending'
    /\ hasPending' \in BOOLEAN /\ (hasPending => hasPending')
    /\ hasPending' => hasPending \/ metaOwner = w

LEMMA PendingWrite ==
    ASSUME TypeOK, LockInv, PendingInv, NEW w \in Writers, pc[w] = "apply", Leave(w),
           WriteEffect(w)
    PROVE  PendingInv'
<1> DEFINE k == req[w].key
<1>1. /\ k \in Keys /\ keyfolders' = keyfolders /\ todo' = todo
      /\ \A t \in Threads : t # w => pc'[t] = pc[t]
      /\ \A v \in Writers : v # w => UNCHANGED <<req[v], foldSeen[v]>>
      /\ pc'[w] = "idle" /\ metaOwner' = IF metaOwner = w THEN NoOne ELSE metaOwner
  BY Kinds DEF TypeOK, Leave, Goto, flocal, LockInv, CallsHaveArguments, Requests
<1>2. /\ \A f \in Folders : pc[f] \notin Moving
      /\ hasPending => keyfolders > 0
      /\ \A j \in Keys : entries[j] = <<>> \/ pending[j] = <<>>
  BY NothingMoves DEF PastGate
<1>3. /\ metaOwner = w => keyfolders > 0
      /\ shardOwner[ShardOf[k]] = w
  BY DEF PendingInv, LockInv, ShardsHeld, PastGate
<1>4. \A j \in Keys : pending'[j] # <<>> => /\ hasPending' /\ Len(pending'[j]) = 1
                                            /\ entries'[j] = <<>>
  <2> SUFFICES ASSUME NEW j \in Keys, pending'[j] # <<>>
               PROVE  hasPending' /\ Len(pending'[j]) = 1 /\ entries'[j] = <<>>
    OBVIOUS
  <2>1. CASE j = k
    BY <2>1 DEF WriteEffect
  <2>2. CASE j # k
    BY <1>2, <2>2 DEF WriteEffect, PendingInv
  <2> QED BY <2>1, <2>2
<1>5. hasPending' => keyfolders > 0
  BY <1>2, <1>3 DEF WriteEffect
<1>6. \A f \in Folders : pc'[f] = "applying" => todo'[f] \subseteq InPending'
  BY <1>1, <1>2, Kinds DEF Moving
<1>7. ASSUME NEW v \in Writers
      PROVE  KnowsFold(v)'
  <2>1. CASE v = w
    BY <1>1, <2>1, Kinds DEF KnowsFold
  <2>2. CASE v # w /\ pc[v] # "apply"
    BY <1>1, <2>2, Kinds DEF KnowsFold, PendingInv
  <2>3. CASE v # w /\ pc[v] = "apply"
    <3>1. req[v].key \in Keys /\ ShardOf[req[v].key] # ShardOf[k]
      BY <1>3, <2>3 DEF LockInv, CallsHaveArguments, ShardsHeld, PastGate, Requests
    <3>2. /\ entries'[req[v].key] = entries[req[v].key]
          /\ pending'[req[v].key] = pending[req[v].key]
      BY <3>1 DEF WriteEffect
    <3>3. UNCHANGED <<pc[v], req[v], foldSeen[v]>> /\ (metaOwner' = v <=> metaOwner = v)
      BY <1>1, <2>3, Kinds
    <3> QED BY <1>1, <2>3, <3>2, <3>3 DEF KnowsFold, PendingInv
  <2> QED BY <2>1, <2>2, <2>3
<1> QED BY <1>1, <1>4, <1>5, <1>6, <1>7 DEF PendingInv, KnowsFold

LEMMA EffectOfSetEntries ==
    ASSUME TypeOK, NEW w \in Writers, req[w] \in Requests, NEW en \in [Keys -> Seq(Rev)], NEW tb,
           SetEntries(w, en, tb), NEW j \in Keys
    PROVE  \/ entries'[j] = en[j]
           \/ entries'[j] = <<>> /\ ShardOf[j] = ShardOf[req[w].key]
<1>1. CASE ~MayShrink(w)
  BY <1>1 DEF SetEntries
<1>2. CASE MayShrink(w)
  <2>1. PICK gone \in IF tb[ShardOf[req[w].key]] = 0 THEN {{}}
                      ELSE SUBSET Sweepable(en, ShardOf[req[w].key]) :
           entries' = [i \in Keys |-> IF i \in gone THEN <<>> ELSE en[i]]
    BY <1>2 DEF SetEntries, SweptTo
  <2>2. \A i \in gone : ShardOf[i] = ShardOf[req[w].key]
    BY <2>1 DEF Sweepable
  <2> QED BY <2>1, <2>2
<1> QED BY <1>1, <1>2

\* A write whose change of entries is confined to its own key.
LEMMA EffectOnEntries ==
    ASSUME TypeOK, PendingInv, NEW w \in Writers, req[w] \in Requests, NEW c \in Seq(Rev),
           NEW tb, SetEntry(w, c, tb), UNCHANGED <<pending, hasPending>>,
           pending[req[w].key] = <<>>
    PROVE  WriteEffect(w)
<1> DEFINE k == req[w].key
           en == [entries EXCEPT ![k] = c]
<1>1. k \in Keys /\ en \in [Keys -> Seq(Rev)]
  BY DEF TypeOK, Requests
<1>2. \A j \in Keys : \/ entries'[j] = en[j]
                      \/ entries'[j] = <<>> /\ ShardOf[j] = ShardOf[k]
  BY <1>1, EffectOfSetEntries DEF SetEntry
<1>3. \A j \in Keys : j # k => en[j] = entries[j]
  BY <1>1 DEF TypeOK
<1> QED BY <1>1, <1>2, <1>3 DEF WriteEffect, TypeOK

\* A write that goes to the pending table.
LEMMA EffectOnPending ==
    ASSUME TypeOK, PendingInv, NEW w \in Writers, req[w] \in Requests, NEW e \in Rev,
           NEW tb, SetEntries(w, entries, tb) \/ UNCHANGED entries, SetPending(req[w].key, e),
           entries[req[w].key] = <<>>, hasPending' = TRUE, hasPending \/ metaOwner = w
    PROVE  WriteEffect(w)
<1> DEFINE k == req[w].key
<1>1. k \in Keys /\ entries \in [Keys -> Seq(Rev)]
  BY DEF TypeOK, Requests
<1>2. \A j \in Keys : \/ entries'[j] = entries[j]
                      \/ entries'[j] = <<>> /\ ShardOf[j] = ShardOf[k]
  BY <1>1, EffectOfSetEntries
<1>3. pending'[k] = <<e>> /\ \A j \in Keys : j # k => pending'[j] = pending[j]
  BY <1>1 DEF TypeOK, SetPending
<1> QED BY <1>1, <1>2, <1>3 DEF WriteEffect, TypeOK

LEMMA EffectOfNothing ==
    ASSUME TypeOK, PendingInv, NEW w \in Writers, req[w] \in Requests,
           NEW tb, SetEntries(w, entries, tb) \/ UNCHANGED entries,
           UNCHANGED <<pending, hasPending>>,
           \A k \in Keys : entries[k] = <<>> \/ pending[k] = <<>>
    PROVE  WriteEffect(w)
<1> DEFINE k == req[w].key
<1>1. k \in Keys /\ entries \in [Keys -> Seq(Rev)]
  BY DEF TypeOK, Requests
<1>2. \A j \in Keys : \/ entries'[j] = entries[j]
                      \/ entries'[j] = <<>> /\ ShardOf[j] = ShardOf[k]
  BY <1>1, EffectOfSetEntries
<1>3. pending'[k] # <<>> => entries'[k] = <<>> /\ Len(pending'[k]) = 1 /\ hasPending'
  BY <1>1, <1>2 DEF PendingInv
<1> QED BY <1>1, <1>2, <1>3 DEF WriteEffect, TypeOK

LEMMA PendingWrites ==
    ASSUME TypeOK, LockInv, PendingInv, NEW w \in Writers,
           \/ PutMissed(w) \/ PutRefused(w) \/ PutInsert(w) \/ PutOverwrite(w)
           \/ RemoveNothing(w) \/ RemoveLive(w)
    PROVE  PendingInv'
<1> DEFINE k == req[w].key
           e == Entry(req[w].file, req[w].ord, epoch + 1)
           t == Tombstone(TombOrd(req[w]), epoch + 1)
<1>1. pc[w] = "apply" /\ Leave(w) /\ req[w] \in Requests /\ k \in Keys
  BY DEF PutMissed, PutRefused, PutInsert, PutOverwrite, RemoveNothing, RemoveLive,
     IsPut, IsRemove, LockInv, CallsHaveArguments, Requests
<1>2. SUFFICES WriteEffect(w)
  BY <1>1, PendingWrite
<1>3. /\ \A j \in Keys : entries[j] = <<>> \/ pending[j] = <<>>
      /\ entries[k] = <<>> /\ metaOwner # w => pending[k] = <<>>
  BY <1>1, NothingMoves DEF PastGate, PendingInv
<1>4. e \in Rev /\ t \in Rev /\ <<e>> \in Seq(Rev) /\ <<t>> \in Seq(Rev)
      /\ Push(e, entries[k]) \in Seq(Rev) /\ Push(t, entries[k]) \in Seq(Rev)
  BY <1>1, TypeRevs, TypePush DEF TypeOK
<1>5. entries[k] = <<>> /\ ~Dead(Found(w)) => metaOwner = w /\ pending[k] # <<>> /\ hasPending
  BY <1>1 DEF Found, Dead, PendingInv
<1>6. \A i \in {1} : entries[k] # <<>> => Found(w) = entries[k]
  BY DEF Found
<1> HIDE DEF k, e, t
<1>7. CASE PutMissed(w)
  <2>1. UNCHANGED <<entries, pending, hasPending>>
    BY <1>7 DEF PutMissed, data
  <2> QED BY <1>1, <1>3, <2>1, EffectOfNothing
<1>8. CASE PutRefused(w)
  <2>1. SetEntries(w, entries, tombstones) /\ UNCHANGED <<pending, hasPending>>
    BY <1>8 DEF PutRefused
  <2> QED BY <1>1, <1>3, <2>1, EffectOfNothing
<1>9. CASE PutInsert(w)
  <2> DEFINE tb == [tombstones EXCEPT ![ShardOf[k]] = IF @ > 0 THEN @ - 1 ELSE @]
  <2>1. \/ /\ Multi(entries[k]) /\ SetEntry(w, Push(e, entries[k]), tombstones)
           /\ UNCHANGED <<pending, hasPending>>
        \/ /\ Single(entries[k]) /\ SetEntry(w, <<e>>, tb)
           /\ UNCHANGED <<pending, hasPending>>
        \/ /\ GoesToPending(w) /\ SetPending(k, e) /\ hasPending' = TRUE
           /\ SetEntries(w, entries, tombstones)
        \/ /\ entries[k] = <<>> /\ ~GoesToPending(w) /\ SetEntry(w, <<e>>, tombstones)
           /\ UNCHANGED <<pending, hasPending>>
    BY <1>9 DEF PutInsert, k, e
  <2> HIDE DEF tb
  <2>2. Multi(entries[k]) \/ Single(entries[k]) => pending[k] = <<>>
    BY <1>1, <1>3 DEF Multi, Single
  <2>3. CASE UNCHANGED <<pending, hasPending>> /\ ~GoesToPending(w) /\ entries[k] = <<>>
             /\ SetEntry(w, <<e>>, tombstones)
    <3>1. pending[k] = <<>>
      BY <1>3, <2>3 DEF GoesToPending, k
    <3> QED BY <1>1, <1>4, <2>3, <3>1, EffectOnEntries DEF k
  <2>4. CASE SetPending(k, e) /\ hasPending' = TRUE /\ GoesToPending(w)
             /\ SetEntries(w, entries, tombstones)
    BY <1>1, <1>4, <2>4, EffectOnPending DEF k, GoesToPending
  <2>5. CASE /\ Multi(entries[k]) /\ SetEntry(w, Push(e, entries[k]), tombstones)
             /\ UNCHANGED <<pending, hasPending>>
    BY <1>1, <1>4, <2>2, <2>5, EffectOnEntries DEF k
  <2>6. CASE /\ Single(entries[k]) /\ SetEntry(w, <<e>>, tb)
             /\ UNCHANGED <<pending, hasPending>>
    BY <1>1, <1>4, <2>2, <2>6, EffectOnEntries DEF k
  <2> QED BY <2>1, <2>3, <2>4, <2>5, <2>6
<1>10. CASE PutOverwrite(w)
  <2>1. ~Dead(Found(w)) /\
        \/ /\ entries[k] # <<>> /\ UNCHANGED <<pending, hasPending>>
           /\ SetEntry(w, IF foldSeen[w] THEN Push(e, entries[k]) ELSE <<e>>, tombstones)
        \/ /\ entries[k] = <<>> /\ SetPending(k, e) /\ hasPending' = hasPending
           /\ SetEntries(w, entries, tombstones)
    BY <1>10 DEF PutOverwrite, k, e
  <2>2. CASE entries[k] # <<>>
    <3>1. pending[k] = <<>>
      BY <1>1, <1>3, <2>2
    <3> QED BY <1>1, <1>4, <2>1, <2>2, <3>1, EffectOnEntries DEF k
  <2>3. CASE entries[k] = <<>>
    <3>1. hasPending /\ metaOwner = w
      BY <1>5, <2>1, <2>3
    <3>2. hasPending' = TRUE
      BY <2>1, <2>3, <3>1 DEF TypeOK
    <3> QED BY <1>1, <1>4, <2>1, <2>3, <3>1, <3>2, EffectOnPending DEF k
  <2> QED BY <2>2, <2>3
<1>11. CASE RemoveNothing(w)
  <2>1. UNCHANGED <<pending, hasPending>>
    BY <1>11 DEF RemoveNothing
  <2>2. \/ entries' = entries
        \/ entries[k] # <<>> /\ entries' = [entries EXCEPT ![k] = <<t>>]
    BY <1>11 DEF RemoveNothing, k, t
  <2>3. CASE entries' = entries
    BY <1>1, <1>3, <2>1, <2>3, EffectOfNothing
  <2>4. CASE entries[k] # <<>> /\ entries' = [entries EXCEPT ![k] = <<t>>]
    <3>1. pending[k] = <<>>
      BY <1>1, <1>3, <2>4
    <3> QED BY <1>1, <2>1, <2>4, <3>1 DEF WriteEffect, TypeOK, k
  <2> QED BY <2>2, <2>3, <2>4
<1>12. CASE RemoveLive(w)
  <2> DEFINE tb == [tombstones EXCEPT ![ShardOf[k]] = @ + 1]
  <2>1. /\ ~Dead(Found(w)) /\ hasPending' = hasPending
        /\ \/ /\ entries[k] # <<>> /\ SetEntry(w, Push(t, entries[k]), tombstones)
              /\ UNCHANGED pending
           \/ /\ entries[k] # <<>> /\ SetEntry(w, <<t>>, tb) /\ UNCHANGED pending
           \/ /\ entries[k] = <<>> /\ SetPending(k, [t EXCEPT !.file = pending[k][1].file])
              /\ UNCHANGED entries
    BY <1>12 DEF RemoveLive, k, t
  <2> HIDE DEF tb
  <2>2. CASE entries[k] # <<>>
    <3>1. pending[k] = <<>>
      BY <1>1, <1>3, <2>2
    <3> QED BY <1>1, <1>4, <2>1, <2>2, <3>1, EffectOnEntries DEF k
  <2>3. CASE entries[k] = <<>>
    <3>1. hasPending /\ metaOwner = w /\ pending[k] # <<>>
      BY <1>5, <2>1, <2>3
    <3>2. hasPending' = TRUE
      BY <2>1, <3>1 DEF TypeOK
    <3>3. pending[k][1].file \in Files \cup {0}
      BY <1>1, <3>1, RevsOfChain DEF TypeOK
    <3>4. [t EXCEPT !.file = pending[k][1].file] \in Rev
      BY <1>4, <3>3 DEF Rev
    <3> QED BY <1>1, <2>1, <2>3, <3>1, <3>2, <3>4, EffectOnPending DEF k
  <2> QED BY <2>2, <2>3
<1> QED BY <1>7, <1>8, <1>9, <1>10, <1>11, <1>12

LEMMA PendingFolders ==
    ASSUME TypeOK, LockInv, FoldsCounted, PendingInv, NEW f \in Folders,
           \/ FolderStep(f) \/ WantStart(f) \/ WantRelease(f) \/ NextKey(f) \/ NextEnd(f)
    PROVE  PendingInv'
<1> USE Kinds DEF Goto, data, stats, locks, wlocal, flocal, input, seen
<1>1. /\ UNCHANGED <<req, foldSeen, metaOwner>>
      /\ \A t \in Threads : t # f => pc'[t] = pc[t]
  BY DEF TypeOK, FolderStep, WantStart, WantRelease, NextKey, NextEnd, LockBarrier, Raise,
     Drain, Lower, Notify, Start, StartRefused, ReleaseCount, PendingBegin, PendingKey,
     PendingEnd, PendingClear, Collapse
<1>2. \A g \in Folders : g # f => todo'[g] = todo[g]
  BY DEF TypeOK, FolderStep, WantStart, WantRelease, NextKey, NextEnd, LockBarrier, Raise,
     Drain, Lower, Notify, Start, StartRefused, ReleaseCount, PendingBegin, PendingKey,
     PendingEnd, PendingClear, Collapse
\* The steps that touch neither the tables nor the count.
<1>a. ASSUME UNCHANGED <<entries, pending, hasPending, keyfolders>>,
             pc[f] \in Moving => pc'[f] \in Moving,
             pc'[f] = "applying" => todo'[f] \subseteq InPending
      PROVE  PendingInv'
  <2>1. \A w \in Writers : KnowsFold(w)'
    BY <1>1, <1>a, KnowsRest
  <2>2. ASSUME NEW g \in Folders
        PROVE  /\ pc[g] \in Moving => pc'[g] \in Moving
               /\ pc'[g] = "applying" => todo'[g] \subseteq InPending
    BY <1>1, <1>2, <1>a DEF PendingInv
  <2> QED BY <1>a, <2>1, <2>2, PendingRest
\* Inside the barrier, no writer knows anything, and no other folder moves.
<1>b. ASSUME pc[f] \in Inside
      PROVE  /\ \A w \in Writers : KnowsFold(w)'
             /\ \A g \in Folders : g # f => pc[g] \notin Moving /\ pc'[g] \notin Moving
  <2>1. \A g \in Folders : g # f => pc[g] \notin Moving
    BY <1>b, OneInside DEF Inside, Moving
  <2>2. \A w \in Writers : pc'[w] \notin PastGate /\ metaOwner # w
    BY <1>1, <1>b DEF LockInv, BarrierExcludesWriters, MetaHeld, PastGate
  <2> QED BY <1>1, <2>1, <2>2 DEF KnowsFold, PastGate
<1>3. CASE WantStart(f) \/ WantRelease(f) \/ NextEnd(f)
  BY <1>a, <1>3 DEF TypeOK, WantStart, WantRelease, NextEnd, Moving
<1>4. CASE NextKey(f)
  BY <1>a, <1>4 DEF NextKey, Moving
<1>5. CASE LockBarrier(f) \/ Raise(f) \/ Lower(f) \/ StartRefused(f)
  BY <1>a, <1>5 DEF TypeOK, LockBarrier, Raise, Lower, StartRefused, Moving
<1>6. CASE Drain(f)
  BY <1>a, <1>6 DEF TypeOK, Drain, Moving
<1>7. CASE Notify(f)
  BY <1>a, <1>7 DEF TypeOK, Notify, AfterBarrier, Moving
<1>8. CASE PendingBegin(f)
  BY <1>a, <1>8 DEF TypeOK, PendingBegin, Moving
<1>9. CASE PendingEnd(f)
  BY <1>a, <1>9 DEF TypeOK, PendingEnd, Moving
<1>10. CASE Start(f)
  <2>1. pc[f] \in Inside /\ pc[f] \notin Moving /\ pc'[f] = "lower" /\ keyfolders' > 0
        /\ UNCHANGED <<entries, pending, hasPending>>
    BY <1>10 DEF TypeOK, Start, Inside, Moving
  <2>2. \A g \in Folders : pc[g] \notin Moving /\ pc'[g] \notin Moving
    BY <1>b, <2>1 DEF Moving
  <2> QED BY <1>b, <2>1, <2>2 DEF PendingInv, KnowsFold, Moving
<1>11. CASE ReleaseCount(f)
  <2>1. pc[f] \in Inside /\ pc[f] \notin Moving /\ UNCHANGED <<entries, pending, hasPending, todo>>
        /\ keyfolders' = keyfolders - 1
    BY <1>11 DEF TypeOK, ReleaseCount, Inside, Moving
  <2>2. \A g \in Folders : pc[g] \notin Moving
    BY <1>b, <2>1
  <2>3. keyfolders' = 0 => pc'[f] \in Moving
    BY <1>11, <2>1 DEF TypeOK, ReleaseCount, IsLastFolder, Moving
  <2>4. pc'[f] # "applying"
    BY <1>11 DEF TypeOK, ReleaseCount
  <2>5. keyfolders' \in Nat
    BY <1>11, TypeFolders DEF FolderStep, TypeOK
  <2>6. \A g \in Folders : pc'[g] # "applying"
    BY <1>1, <2>2, <2>4 DEF Moving
  <2>7. hasPending' => keyfolders' > 0 \/ \E g \in Folders : pc'[g] \in Moving
    BY <2>3, <2>5
  <2>8. \A k \in Keys : entries'[k] = <<>> \/ pending'[k] = <<>>
    BY <2>1, <2>2 DEF PendingInv
  <2>9. \A k \in Keys : pending'[k] # <<>> => hasPending' /\ Len(pending'[k]) = 1
    BY <2>1 DEF PendingInv
  <2> QED BY <1>b, <2>1, <2>6, <2>7, <2>8, <2>9 DEF PendingInv, KnowsFold
<1>12. CASE PendingKey(f)
  <2>1. PICK k \in todo[f] :
          /\ todo' = [todo EXCEPT ![f] = @ \ {k}]
          /\ entries' = [entries EXCEPT ![k] = IF pending[k][1].tomb THEN <<>> ELSE <<pending[k][1]>>]
    BY <1>12 DEF PendingKey
  <2>2. pc[f] = "applying" /\ pc' = pc /\ UNCHANGED <<pending, hasPending, keyfolders>>
    BY <1>12 DEF PendingKey
  <2>3. k \in Keys /\ pending[k] \in Seq(Rev) /\ Len(pending[k]) = 1
    BY <2>1, <2>2 DEF PendingInv, InPending, TypeOK
  <2>4. pending[k] = <<pending[k][1]>>
    BY <2>3
  <2>5. entries'[k] = <<>> \/ entries'[k] = pending[k]
    BY <2>1, <2>3, <2>4 DEF TypeOK
  <2>6. \A j \in Keys : j # k => entries'[j] = entries[j]
    BY <2>1, <2>3 DEF TypeOK
  <2>7. \A g \in Folders : pc'[g] = "applying" => todo'[g] \subseteq InPending'
    BY <2>1, <2>2 DEF PendingInv, InPending, TypeOK
  <2>8. \A w \in Writers : KnowsFold(w)'
    BY <1>b, <2>2 DEF Inside
  <2>9. \A j \in Keys : entries'[j] # <<>> /\ pending[j] # <<>>
          => entries'[j] = pending[j] /\ \E g \in Folders : pc[g] \in Moving
    BY <2>2, <2>5, <2>6 DEF PendingInv, Moving
  <2> QED BY <2>2, <2>7, <2>8, <2>9 DEF PendingInv, KnowsFold
<1>13. CASE PendingClear(f)
  <2>1. pc[f] \in Inside /\ (\A k \in Keys : pending'[k] = <<>>) /\ hasPending' = FALSE
    BY <1>13 DEF PendingClear, Inside
  <2>2. \A g \in Folders : pc'[g] # "applying"
    <3>1. pc'[f] = "collapse"
      BY <1>13 DEF PendingClear, TypeOK
    <3> QED BY <1>b, <2>1, <3>1 DEF Moving
  <2> QED BY <1>b, <2>1, <2>2 DEF PendingInv, KnowsFold
<1>14. CASE Collapse(f)
  <2>1. pc[f] \in Inside /\ pc[f] \notin Moving /\ pc'[f] \notin Moving
        /\ UNCHANGED <<pending, hasPending, keyfolders>>
    BY <1>14 DEF TypeOK, Collapse, Inside, Moving
  <2>2. \A g \in Folders : pc[g] \notin Moving /\ pc'[g] \notin Moving
    BY <1>b, <2>1
  <2>3. \A k \in Keys : entries[k] = <<>> => entries'[k] = <<>>
    BY <1>14 DEF TypeOK, Collapse, Collapsed, Dead
  <2>4. \A k \in Keys : entries'[k] = <<>> \/ pending'[k] = <<>>
    BY <2>1, <2>2, <2>3 DEF PendingInv
  <2>5. /\ \A k \in Keys : pending'[k] # <<>> => hasPending' /\ Len(pending'[k]) = 1
        /\ hasPending' => keyfolders' > 0
        /\ \A g \in Folders : pc'[g] # "applying"
    BY <2>1, <2>2 DEF PendingInv, Moving
  <2> QED BY <1>b, <2>1, <2>4, <2>5 DEF PendingInv, KnowsFold
<1> QED BY <1>3, <1>4, <1>5, <1>6, <1>7, <1>8, <1>9, <1>10, <1>11, <1>12, <1>13, <1>14
        DEF FolderStep

(***************************************************************************)
(* The theorems.                                                           *)
(***************************************************************************)
LEMMA InitIInv ==
    ASSUME Init
    PROVE  IInv
<1> USE ConstantsOK DEF Init
<1>1. TypeOK
  <2>1. 1 \in Shards /\ 1 \in Files /\ 0 \in 0..MaxOps
    BY DEF Shards, Files
  <2>2. /\ entries \in [Keys -> Seq(Rev)] /\ pending \in [Keys -> Seq(Rev)]
        /\ live \in [Files -> Int] /\ tombstones \in [Shards -> Int]
    OBVIOUS
  <2>3. pc \in [Threads -> WriterPCs \cup ReaderPCs \cup FolderPCs]
    BY DEF WriterPCs
  <2> QED BY <2>1, <2>2, <2>3 DEF TypeOK
<1>2. LockInv
  BY Kinds DEF LockInv, CallsHaveArguments, ShardsHeld, BarrierHeld, MetaHeld,
     BarrierExcludesWriters, PastGate, Inside
<1>3. FoldsCounted
  <2>1. {f \in Folders : phase[f] # "none"} = {}
    OBVIOUS
  <2> QED BY <2>1, FS_EmptySet, Kinds DEF FoldsCounted, Moving
<1>4. PendingInv
  BY Kinds DEF PendingInv, Moving
<1> QED BY <1>1, <1>2, <1>3, <1>4 DEF IInv

\* No writer, reader or folder step, and no other step, disturbs IInv.
LEMMA NextIInv ==
    ASSUME IInv, [Next]_vars
    PROVE  IInv'
<1> USE DEF IInv
<1>1. CASE UNCHANGED vars
  BY <1>1 DEF vars, data, stats, locks, wlocal, flocal, input, seen, TypeOK, LockInv,
     CallsHaveArguments, ShardsHeld, BarrierHeld, MetaHeld, BarrierExcludesWriters,
     FoldsCounted, PendingInv, InPending
<1>2. ASSUME NEW w \in Writers,
             \/ Lock(w) \/ Gate(w) \/ Wait(w) \/ Probe(w) \/ Meta(w) \/ Peek(w) \/ PeekMeta(w)
      PROVE  IInv'
  <2>1. TypeOK' /\ LockInv' /\ PendingInv'
    BY <1>2, TypeWriterLocks, TypePeeks, LockWriterSteps, PendingGate DEF WriterStep
  <2>2. UNCHANGED <<phase, why, keyfolders>> /\ \A f \in Folders : pc'[f] = pc[f]
    BY <1>2, Kinds, ZenonT(20) DEF TypeOK, Lock, Gate, Wait, Probe, Meta, Peek, PeekMeta, EndPeek, Goto,
       flocal, seen
  <2> QED BY <2>1, <2>2, FoldsRest
<1>3. ASSUME NEW w \in Writers,
             \/ PutMissed(w) \/ PutRefused(w) \/ PutInsert(w) \/ PutOverwrite(w)
             \/ RemoveNothing(w) \/ RemoveLive(w)
      PROVE  IInv'
  <2>1. TypeOK' /\ LockInv' /\ PendingInv'
    BY <1>3, TypeWrites, LockWriterSteps, PendingWrites DEF WriterStep
  <2>2. Leave(w) /\ phase' = phase
    BY <1>3 DEF PutMissed, PutRefused, PutInsert, PutOverwrite, RemoveNothing, RemoveLive,
       Observe, seen
  <2>3. UNCHANGED <<phase, why, keyfolders>> /\ \A f \in Folders : pc'[f] = pc[f]
    BY <2>2, Kinds DEF TypeOK, Leave, Goto, flocal
  <2> QED BY <2>1, <2>3, FoldsRest
<1>4. ASSUME NEW w \in Writers, NEW k \in Keys,
             BeginPut(w, k) \/ BeginRemove(w, k) \/ BeginMove(w, k) \/ BeginTtl(w, k)
      PROVE  IInv'
  <2>1. PICK r \in Requests, there \in {"lock", "peek"} :
           Begin(w, r, there) /\ nextOrd' \in Nat /\ mergeFiles' = mergeFiles
    BY <1>4, BeginRequest
  <2>2. TypeOK' /\ LockInv' /\ PendingInv'
    BY <2>1, TypeBegins, LockBegins, PendingGate
  <2>3. UNCHANGED <<phase, why, keyfolders>> /\ \A f \in Folders : pc'[f] = pc[f]
    BY <2>1, Kinds DEF TypeOK, Begin, Goto, flocal, seen
  <2> QED BY <2>2, <2>3, FoldsRest
<1>5. ASSUME NEW r \in Readers, NEW k \in Keys, ReaderStep(r) \/ GetBegin(r, k)
      PROVE  IInv'
  <2>1. TypeOK' /\ LockInv' /\ PendingInv'
    BY <1>5, TypeReaders, LockReaderSteps, PendingReaders
  <2>2. UNCHANGED <<phase, why, keyfolders>> /\ \A f \in Folders : pc'[f] = pc[f]
    BY <1>5, Kinds, ZenonT(20) DEF TypeOK, ReaderStep, GetBegin, GetKeyfolders, GetHasPending,
       GetOptimistic, GetLocked, GetPending, Goto, Return, flocal, seen
  <2> QED BY <2>1, <2>2, FoldsRest
<1>6. ASSUME NEW f \in Folders,
             \/ FolderStep(f) \/ WantStart(f) \/ WantRelease(f) \/ NextKey(f) \/ NextEnd(f)
      PROVE  IInv'
  BY <1>6, TypeFolders, LockFolderSteps, FoldsFolders, PendingFolders
<1>7. CASE IncrementFileId
  BY <1>7, TypeIncrement DEF IncrementFileId, data, locks, wlocal, flocal, seen, LockInv,
     CallsHaveArguments, ShardsHeld, BarrierHeld, MetaHeld, BarrierExcludesWriters,
     FoldsCounted, PendingInv, InPending
<1>8. CASE Rest
  BY <1>1, <1>8 DEF Rest
<1>9. ASSUME NEW r \in Readers, ReaderStep(r)
      PROVE  IInv'
  <2>1. CASE Keys = {}
    <3>1. pc[r] # "idle"
      BY <1>9 DEF ReaderStep, GetKeyfolders, GetHasPending, GetOptimistic, GetLocked, GetPending
    <3> QED BY <2>1, <3>1 DEF LockInv, CallsHaveArguments
  <2>2. CASE Keys # {}
    BY <1>5, <1>9, <2>2
  <2> QED BY <2>1, <2>2
<1>10. ASSUME Next
       PROVE  IInv'
  BY <1>2, <1>3, <1>4, <1>5, <1>6, <1>7, <1>8, <1>9, <1>10 DEF Next, WriterStep
<1> QED BY <1>1, <1>10

THEOREM Invariance == Spec => []IInv
<1>1. Init => IInv
  BY InitIInv
<1>2. IInv /\ [Next]_vars => IInv'
  BY NextIInv
<1> QED BY <1>1, <1>2, PTL DEF Spec

\* Every variable keeps the type of the member it stands for.
THEOREM TypeCorrect == Spec => []TypeOK
<1>1. IInv => TypeOK
  BY DEF IInv
<1> QED BY <1>1, Invariance, PTL

\* BarrierGuard: once the shards are drained no writer is past the gate, so
\* start and release may read the tables without holding a shard.
THEOREM BarrierIsExclusive == Spec => []BarrierExcludesWriters
<1>1. IInv => BarrierExcludesWriters
  BY DEF IInv, LockInv
<1> QED BY <1>1, Invariance, PTL

\* The reversed lock order of release's stage two cannot deadlock with a writer:
\* while it holds meta shared nobody owns meta uniquely or waits to.
THEOREM ReversedOrderIsSafe == Spec => []NoUniqueMetaInStageTwo
<1>1. IInv => NoUniqueMetaInStageTwo
  <2> SUFFICES ASSUME IInv, metaShared # {}
               PROVE  metaOwner = NoOne /\ \A w \in Writers : pc[w] # "meta"
    BY DEF NoUniqueMetaInStageTwo
  <2>1. PICK f \in Folders : pc[f] = "applying"
    BY DEF IInv, TypeOK, LockInv, MetaHeld
  <2>2. keyfolders = 0 /\ \A w \in Writers : pc[w] # "meta"
    BY <2>1 DEF IInv, LockInv, BarrierExcludesWriters, Inside, FoldsCounted, Moving
  <2>3. \A w \in Writers : metaOwner # w
    BY <2>2 DEF IInv, PendingInv
  <2> QED BY <2>2, <2>3 DEF IInv, TypeOK
<1> QED BY <1>1, Invariance, PTL

\* A key lives in entries or in pending, never in both with different versions.
THEOREM OneHome == Spec => []TablesDisjoint
<1>1. IInv => TablesDisjoint
  BY DEF IInv, PendingInv, FoldsCounted, TablesDisjoint
<1> QED BY <1>1, Invariance, PTL

\* The pending table outlives the last fold only inside its own release.
THEOREM PendingIsMerged == Spec => []PendingBelongsToAFold
<1>1. IInv => PendingBelongsToAFold
  BY DEF IInv, PendingInv, PendingBelongsToAFold, Inside, Moving
<1> QED BY <1>1, Invariance, PTL

(***************************************************************************)
(* While a fold runs no key leaves entries: the iterator walks the live    *)
(* table, not a copy.                                                      *)
(***************************************************************************)
KeysStay == \A k \in Keys : entries[k] # <<>> => entries'[k] # <<>>

LEMMA WriterKeepsKeys ==
    ASSUME IInv, NEW w \in Writers, keyfolders > 0,
           \/ PutMissed(w) \/ PutRefused(w) \/ PutInsert(w) \/ PutOverwrite(w)
           \/ RemoveNothing(w) \/ RemoveLive(w)
    PROVE  KeysStay
<1> DEFINE k == req[w].key
<1>1. pc[w] = "apply" /\ req[w] \in Requests /\ k \in Keys
  BY DEF PutMissed, PutRefused, PutInsert, PutOverwrite, RemoveNothing, RemoveLive,
     IsPut, IsRemove, IInv, LockInv, CallsHaveArguments, Requests
<1>2. ~MayShrink(w)
  BY <1>1 DEF IInv, PendingInv, MayShrink
<1>3. entries \in [Keys -> Seq(Rev)]
  BY DEF IInv, TypeOK
<1>a. ASSUME NEW c, c # <<>>, NEW tb, SetEntry(w, c, tb)
      PROVE  KeysStay
  BY <1>1, <1>2, <1>3, <1>a DEF SetEntry, SetEntries, KeysStay
<1>b. ASSUME NEW tb, SetEntries(w, entries, tb)
      PROVE  KeysStay
  BY <1>2, <1>b DEF SetEntries, KeysStay
<1>c. \A e : <<e>> # <<>> /\ Push(e, entries[k]) # <<>>
  BY <1>1, <1>3 DEF Push
<1>4. CASE PutMissed(w) \/ PutRefused(w)
  BY <1>4, <1>b DEF PutMissed, PutRefused, data, KeysStay
<1>5. CASE PutInsert(w)
  BY <1>5, <1>a, <1>b, <1>c DEF PutInsert
<1>6. CASE PutOverwrite(w)
  BY <1>6, <1>a, <1>b, <1>c DEF PutOverwrite
<1>7. CASE RemoveNothing(w)
  BY <1>1, <1>3, <1>7 DEF RemoveNothing, KeysStay
<1>8. CASE RemoveLive(w)
  BY <1>8, <1>a, <1>c DEF RemoveLive, KeysStay
<1> QED BY <1>4, <1>5, <1>6, <1>7, <1>8

\* keydir.hpp: during a fold the key set of entries grows and never shrinks.
THEOREM KeySetGrows == Spec => KeySetGrowsDuringFold
<1>1. ASSUME IInv, [Next]_vars, keyfolders > 0, keyfolders' > 0
      PROVE  KeysStay
  <2>1. CASE UNCHANGED entries
    BY <2>1 DEF KeysStay
  <2>2. CASE \E w \in Writers : \/ PutMissed(w) \/ PutRefused(w) \/ PutInsert(w)
                                \/ PutOverwrite(w) \/ RemoveNothing(w) \/ RemoveLive(w)
    BY <1>1, <2>2, WriterKeepsKeys
  <2>3. CASE \E f \in Folders : PendingKey(f) \/ Collapse(f)
    <3>1. keyfolders = 0
      BY <1>1, <2>3 DEF IInv, FoldsCounted, PendingKey, Collapse, Moving
    <3> QED BY <1>1, <3>1
  <2>4. \/ UNCHANGED entries
        \/ \E w \in Writers : \/ PutMissed(w) \/ PutRefused(w) \/ PutInsert(w)
                              \/ PutOverwrite(w) \/ RemoveNothing(w) \/ RemoveLive(w)
        \/ \E f \in Folders : PendingKey(f) \/ Collapse(f)
    <3> USE DEF data
    <3>1. CASE UNCHANGED vars \/ Rest \/ IncrementFileId
      BY <3>1 DEF vars, Rest, IncrementFileId
    <3>2. ASSUME NEW w \in Writers, NEW k \in Keys,
                 BeginPut(w, k) \/ BeginRemove(w, k) \/ BeginMove(w, k) \/ BeginTtl(w, k)
          PROVE  UNCHANGED entries
      BY <3>2 DEF BeginPut, BeginRemove, BeginMove, BeginTtl, Begin
    <3>3. ASSUME NEW w \in Writers,
                 Lock(w) \/ Gate(w) \/ Wait(w) \/ Probe(w) \/ Meta(w) \/ Peek(w) \/ PeekMeta(w)
          PROVE  UNCHANGED entries
      BY <3>3 DEF Lock, Gate, Wait, Probe, Meta, Peek, PeekMeta
    <3>4. ASSUME NEW r \in Readers, ReaderStep(r) \/ \E k \in Keys : GetBegin(r, k)
          PROVE  UNCHANGED entries
      BY <3>4 DEF ReaderStep, GetBegin, GetKeyfolders, GetHasPending, GetOptimistic,
         GetLocked, GetPending
    <3>5. ASSUME NEW f \in Folders, ~PendingKey(f), ~Collapse(f),
                 \/ FolderStep(f) \/ WantStart(f) \/ WantRelease(f) \/ NextKey(f) \/ NextEnd(f)
          PROVE  UNCHANGED entries
      BY <3>5 DEF FolderStep, WantStart, WantRelease, NextKey, NextEnd, LockBarrier, Raise,
         Drain, Lower, Notify, Start, StartRefused, ReleaseCount, PendingBegin, PendingEnd,
         PendingClear
    <3> QED BY <1>1, <3>1, <3>2, <3>3, <3>4, <3>5 DEF Next, WriterStep
  <2> QED BY <2>1, <2>2, <2>3, <2>4
<1>2. IInv /\ [Next]_vars => [keyfolders > 0 /\ keyfolders' > 0
          => \A k \in Keys : entries[k] # <<>> => entries'[k] # <<>>]_vars
  BY <1>1 DEF KeysStay
<1> QED BY <1>2, Invariance, PTL DEF Spec, KeySetGrowsDuringFold
=============================================================================
