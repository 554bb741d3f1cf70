-------------------------- MODULE KeyDirMapProofs --------------------------
(***************************************************************************)
(* Proofs about KeyDir, second part: sibling chains, the views of folds,   *)
(* the counters, merge, and that KeyDir implements KeyDirMap.              *)
(***************************************************************************)
EXTENDS KeyDirProofs, NatSets

-----------------------------------------------------------------------------
(* The inductive invariant, beside IInv.                                   *)

LoneTomb(c) == Single(c) /\ c[1].tomb

\* Revisions have a past: their ord was given out, their epoch has come.
RevsPast(c) == \A i \in DOMAIN c : /\ c[i].ord < nextOrd /\ c[i].epoch <= epoch
                                   /\ ~c[i].tomb => c[i].ord > 0
OrdsPast ==
    /\ 0 < nextOrd /\ nextOrd <= ops + 1
    /\ \A k \in Keys : RevsPast(entries[k]) /\ RevsPast(pending[k])
    /\ \A w \in Writers : req[w] # NoReq =>
          /\ req[w].ord < nextOrd
          /\ req[w].op \in {"put", "move"} => req[w].ord > 0

Descending(c) == \A i, j \in DOMAIN c : i < j => c[i].epoch > c[j].epoch
ChainsStand ==
    \A k \in Keys :
       /\ Descending(entries[k])
       /\ Multi(entries[k]) => \/ keyfolders > 0
                               \/ \E f \in Folders : \/ pc[f] \in Moving
                                                     \/ pc[f] = "collapse" /\ at[f] <= ShardOf[k]

MovedKey(k) == IF pending[k][1].tomb THEN entries[k] = <<>> ELSE entries[k] = pending[k]
PendingMoved ==
    \A f \in Folders, k \in Keys : pending[k] # <<>> =>
       /\ pc[f] = "applying" /\ k \notin todo[f] => MovedKey(k)
       /\ pc[f] = "clear" => MovedKey(k)

ViewsStand ==
    \A f \in Folders : phase[f] # "none" =>
       /\ iterEpoch[f] <= epoch
       /\ \A k \in Keys : snap[f][k] = ViewOf(f, k)

FoldsHandOut ==
    \A f \in Folders :
       /\ pc[f] \in {"iterating", "start"} => why[f] = "start"
       /\ pc[f] \in {"lower", "notify"} /\ phase[f] # "none" => why[f] = "start"
       /\ phase[f] # "none" /\ why[f] = "start" =>
             \A k \in Keys : <<k, snap[f][k]>> \in out[f]
                                <=> k \notin todo[f] /\ snap[f][k] # Absent

BaseStays == keyfolders > 0 => base \subseteq {k \in Keys : entries[k] # <<>>}

GetsWatch ==
    \A r \in Readers :
       /\ pc[r] = "idle" <=> asked[r] = NoKey
       /\ asked[r] # NoKey => Current(asked[r]) \in window[r]
       /\ pc[r] = "optimistic" /\ entries[asked[r]] = <<>> => Absent \in window[r]
       /\ pc[r] = "meta shared" => entries[asked[r]] = <<>>

MovesApart ==
    /\ \A g \in mergeFiles : g <= biggest
    /\ \A w \in Writers :
          /\ req[w].op = "put" => req[w].file \in (1..biggest) \ mergeFiles
          /\ req[w].op = "move" =>
                /\ req[w].file \in mergeFiles
                /\ \A v \in Writers : req[v].op = "move" => v = w
                /\ Chain(req[w].key) # <<>> => Chain(req[w].key)[1].file # req[w].file

\* Every reader has a window, every fold a view and what it handed out.
SeenTables == /\ window = [r \in Readers |-> window[r]]
              /\ snap = [f \in Folders |-> [k \in Keys |-> snap[f][k]]]
              /\ out = [f \in Folders |-> out[f]]

MapInv == /\ OrdsPast /\ ChainsStand /\ PendingMoved /\ ViewsStand /\ FoldsHandOut
          /\ BaseStays /\ GetsWatch /\ MovesApart /\ SeenTables

-----------------------------------------------------------------------------
(* Chains of revisions.                                                    *)

LEMMA ChainLength ==
    ASSUME NEW c \in Seq(Rev)
    PROVE  /\ Len(c) \in Nat /\ DOMAIN c = 1..Len(c)
           /\ c = <<>> <=> Len(c) = 0
           /\ c # <<>> => 1 \in DOMAIN c
           /\ \A i \in DOMAIN c : c[i] \in Rev
<1>1. Len(c) \in Nat /\ DOMAIN c = 1..Len(c) /\ (c = <<>> <=> Len(c) = 0)
  OBVIOUS
<1> QED BY <1>1

LEMMA NotSingle ==
    ASSUME NEW c \in Seq(Rev), Multi(c)
    PROVE  ~Single(c)
<1>1. Len(c) \in Nat /\ Len(c) > 1
  BY DEF Multi
<1>2. \A n \in Nat : n > 1 => n # 1
  OBVIOUS
<1> QED BY <1>1, <1>2 DEF Single

LEMMA OneRev ==
    ASSUME NEW e \in Rev
    PROVE  /\ <<e>> \in Seq(Rev) /\ Len(<<e>>) = 1 /\ DOMAIN <<e>> = {1} /\ <<e>>[1] = e
           /\ <<e>> # <<>>
  OBVIOUS

LEMMA PushedRev ==
    ASSUME NEW e \in Rev, NEW c \in Seq(Rev)
    PROVE  /\ Push(e, c) \in Seq(Rev) /\ Len(Push(e, c)) = Len(c) + 1 /\ Push(e, c) # <<>>
           /\ Push(e, c)[1] = e
           /\ \A i \in DOMAIN Push(e, c) : i = 1 \/ (i - 1 \in DOMAIN c /\ Push(e, c)[i] = c[i - 1])
           /\ \A i \in DOMAIN c : i + 1 \in DOMAIN Push(e, c) /\ Push(e, c)[i + 1] = c[i]
<1>1. Push(e, c) \in Seq(Rev) /\ Len(Push(e, c)) = Len(c) + 1
  BY DEF Push
<1>2. /\ DOMAIN Push(e, c) = 1..(Len(c) + 1) /\ DOMAIN c = 1..Len(c) /\ Len(c) \in Nat
  BY <1>1, ChainLength
<1>3. \A i \in 1..(Len(c) + 1) : Push(e, c)[i] = IF i = 1 THEN e ELSE c[i - 1]
  BY DEF Push
<1> QED BY <1>1, <1>2, <1>3

LEMMA PushedLength ==
    ASSUME NEW e \in Rev, NEW c \in Seq(Rev)
    PROVE  Len(Push(e, c)) = Len(c) + 1 /\ Push(e, c) # <<>> /\ Push(e, c)[1] = e
  BY PushedRev

LEMMA PushedAt ==
    ASSUME NEW e \in Rev, NEW c \in Seq(Rev), NEW i \in DOMAIN Push(e, c)
    PROVE  i = 1 \/ (i - 1 \in DOMAIN c /\ Push(e, c)[i] = c[i - 1])
  BY PushedRev

-----------------------------------------------------------------------------
(* What a write does: its key gets the chain c in entries and p in the     *)
(* pending table, with the new revision e somewhere in them or nowhere;    *)
(* lone tombstones of its shard may go.                                    *)

IsWrite(w) == \/ PutMissed(w) \/ PutRefused(w) \/ PutInsert(w) \/ PutOverwrite(w)
              \/ RemoveNothing(w) \/ RemoveLive(w)

Keeps(k, c, p) == c = entries[k] /\ p = pending[k]
Newer(c, p)    == IF c # <<>> THEN c ELSE p

\* Which revision: what the request asks for.
Author(w, e) ==
    /\ e.epoch = epoch + 1
    /\ ~e.tomb => req[w].op \in {"put", "move"} /\ e.ord = req[w].ord /\ e.file = req[w].file
    /\ e.tomb => /\ req[w].op \in {"remove", "ttl"} /\ e.ord \in {0, req[w].ord}
                 /\ \/ e.file = 0
                    \/ /\ entries[req[w].key] = <<>> /\ pending[req[w].key] # <<>>
                       /\ e.file = pending[req[w].key][1].file

\* Where it goes.
Shape(w, e, c, p) ==
    LET k == req[w].key IN
    \/ Keeps(k, c, p)
    \/ /\ c = Push(e, entries[k]) /\ entries[k] # <<>> /\ p = pending[k] /\ pending[k] = <<>>
       /\ foldSeen[w] \/ Multi(entries[k])
    \/ /\ c = <<e>> /\ p = pending[k] /\ pending[k] = <<>>
       /\ entries[k] = <<>> \/ LoneTomb(entries[k]) \/ ~foldSeen[w]
    \/ c = entries[k] /\ entries[k] = <<>> /\ p = <<e>> /\ metaOwner = w

\* When: a merge asks whether the record is still there.
Asks(w, e, c, p) ==
    LET k == req[w].key IN
    ~Keeps(k, c, p) =>
       /\ epoch' = epoch + 1
       /\ req[w].op = "move" => ~Dead(Chain(k)) /\ Accepts(req[w], Chain(k)[1]) /\ ~e.tomb
       /\ req[w].op = "ttl"  => ~Dead(Chain(k)) /\ Expected(req[w], Chain(k)[1]) /\ e.tomb

Tables(w, c, p, gone) ==
    LET k == req[w].key
        en == [entries EXCEPT ![k] = c]
    IN /\ entries' = [j \in Keys |-> IF j \in gone THEN <<>> ELSE en[j]]
       /\ pending' = [pending EXCEPT ![k] = p]
       /\ gone \subseteq Sweepable(en, ShardOf[k])
       /\ gone # {} => ~foldSeen[w]

\* The counters follow.
TombsAfter(w, c, s) ==
    LET k == req[w].key IN
    IF s # ShardOf[k] THEN tombstones[s]
    ELSE IF LoneTomb(entries[k]) /\ ~LoneTomb(c) /\ tombstones[s] > 0 THEN tombstones[s] - 1
    ELSE IF ~LoneTomb(entries[k]) /\ LoneTomb(c) THEN tombstones[s] + 1
    ELSE tombstones[s]
TombsMove(w, c, gone) ==
    \A s \in Shards : tombstones'[s] = IF s = ShardOf[req[w].key]
                                       THEN TombsAfter(w, c, s) - Cardinality(gone)
                                       ELSE TombsAfter(w, c, s)

LivesIn(c, f) == ~Dead(c) /\ c[1].file = f
CountsMove(w, c, p) ==
    LET old == Chain(req[w].key)
        new == Newer(c, p)
    IN /\ keyCount' = keyCount + (IF Dead(old) /\ ~Dead(new) THEN 1
                                  ELSE IF ~Dead(old) /\ Dead(new) THEN -1 ELSE 0)
       /\ \A f \in Files : live'[f] = live[f] + (IF LivesIn(new, f) THEN 1 ELSE 0)
                                              - (IF LivesIn(old, f) THEN 1 ELSE 0)

\* The readers of the key see it.
Watched(w, c, p) ==
    LET k == req[w].key IN
    /\ UNCHANGED <<asked, ret, phase, snap, out, base>>
    /\ \/ Observe(k)
       \/ /\ UNCHANGED window
          /\ Keeps(k, c, p) \/ (Dead(Chain(k)) /\ Dead(Newer(c, p)))

Written(w, e, c, p, gone) ==
    /\ Author(w, e) /\ Shape(w, e, c, p) /\ Asks(w, e, c, p)
    /\ Tables(w, c, p, gone) /\ TombsMove(w, c, gone)
    /\ CountsMove(w, c, p) /\ Watched(w, c, p)
    /\ epoch' \in {epoch, epoch + 1} /\ biggest' >= biggest

Done(w) == \E e \in Rev, c \in Seq(Rev), p \in Seq(Rev), gone \in SUBSET Keys :
              Written(w, e, c, p, gone)

-----------------------------------------------------------------------------
(* Every write is one.                                                     *)

\* en and tb with the lone tombstones of `gone` swept away.
Swept(w, en, tb, gone) ==
    LET s == ShardOf[req[w].key] IN
    /\ entries' = [j \in Keys |-> IF j \in gone THEN <<>> ELSE en[j]]
    /\ tombstones' = [tb EXCEPT ![s] = tb[s] - Cardinality(gone)]
    /\ gone \subseteq Sweepable(en, s)
    /\ gone # {} => ~foldSeen[w]

LEMMA SweptEntries ==
    ASSUME TypeOK, NEW w \in Writers, req[w] \in Requests, NEW en \in [Keys -> Seq(Rev)],
           NEW tb \in [Shards -> Int], SetEntries(w, en, tb)
    PROVE  \E gone \in SUBSET Keys : Swept(w, en, tb, gone)
<1> DEFINE s == ShardOf[req[w].key]
<1>1. s \in Shards
  BY Kinds DEF Requests
<1>2. CASE MayShrink(w)
  <2>1. PICK gone \in IF tb[s] = 0 THEN {{}} ELSE SUBSET Sweepable(en, s) :
           /\ entries' = [k \in Keys |-> IF k \in gone THEN <<>> ELSE en[k]]
           /\ tombstones' = [tb EXCEPT ![s] = @ - Cardinality(gone)]
    BY <1>2 DEF SetEntries, SweptTo
  <2>2. gone \subseteq Sweepable(en, s) /\ gone \subseteq Keys
    BY <2>1 DEF Sweepable
  <2> QED BY <1>2, <2>1, <2>2 DEF MayShrink, Swept
<1>3. CASE ~MayShrink(w)
  <2>1. entries' = en /\ tombstones' = tb
    BY <1>3 DEF SetEntries
  <2>2. Cardinality({}) = 0 /\ tb[s] \in Int
    BY <1>1, FS_EmptySet
  <2>3. entries' = [j \in Keys |-> IF j \in {} THEN <<>> ELSE en[j]]
    BY <2>1
  <2>4. tombstones' = [tb EXCEPT ![s] = tb[s] - Cardinality({})]
    BY <1>1, <2>1, <2>2
  <2>5. {} \subseteq Sweepable(en, s) /\ {} \in SUBSET Keys
    OBVIOUS
  <2> QED BY <2>3, <2>4, <2>5 DEF Swept
<1> QED BY <1>2, <1>3

\* A writer about to write has found its key's chain.
LEMMA AboutToWrite ==
    ASSUME IInv, NEW w \in Writers, IsWrite(w)
    PROVE  /\ pc[w] = "apply" /\ req[w] \in Requests /\ req[w].key \in Keys
           /\ Found(w) = Chain(req[w].key)
           /\ \A j \in Keys : entries[j] = <<>> \/ pending[j] = <<>>
           /\ entries[req[w].key] = <<>> /\ metaOwner # w => pending[req[w].key] = <<>>
           /\ foldSeen[w] <=> keyfolders > 0
           /\ entries[req[w].key] \in Seq(Rev) /\ pending[req[w].key] \in Seq(Rev)
           /\ ShardOf[req[w].key] \in Shards
<1>1. pc[w] = "apply" /\ req[w] \in Requests /\ req[w].key \in Keys
  BY DEF IsWrite, PutMissed, PutRefused, PutInsert, PutOverwrite, RemoveNothing, RemoveLive,
         IsPut, IsRemove, IInv, LockInv, CallsHaveArguments, Requests
<1>2. \A j \in Keys : entries[j] = <<>> \/ pending[j] = <<>>
  BY <1>1, NothingMoves DEF IInv, PastGate
<1>3. /\ entries[req[w].key] = <<>> /\ metaOwner # w => pending[req[w].key] = <<>>
      /\ foldSeen[w] <=> keyfolders > 0
  BY <1>1 DEF IInv, PendingInv
<1>4. Found(w) = Chain(req[w].key)
  BY <1>3 DEF Found, Chain, ChainIn
<1> QED BY <1>1, <1>2, <1>3, <1>4, Kinds DEF IInv, TypeOK

\* The tables and the tombstone counts before the sweep that may follow.
Sets(w, c, p, tb) ==
    LET en == [entries EXCEPT ![req[w].key] = c] IN
    /\ SetEntries(w, en, tb) \/ (entries' = en /\ tombstones' = tb)
    /\ pending' = [pending EXCEPT ![req[w].key] = p]
    /\ tb \in [Shards -> Int] /\ \A s \in Shards : tb[s] = TombsAfter(w, c, s)

LEMMA WriteIsDone ==
    ASSUME IInv, NEW w \in Writers, req[w] \in Requests,
           NEW e \in Rev, NEW c \in Seq(Rev), NEW p \in Seq(Rev), NEW tb,
           Author(w, e), Shape(w, e, c, p), Asks(w, e, c, p), CountsMove(w, c, p),
           Watched(w, c, p), Sets(w, c, p, tb),
           epoch' \in {epoch, epoch + 1}, biggest' >= biggest
    PROVE  Done(w)
<1> DEFINE en == [entries EXCEPT ![req[w].key] = c]
           s0 == ShardOf[req[w].key]
<1>1. /\ req[w].key \in Keys /\ s0 \in Shards /\ en \in [Keys -> Seq(Rev)]
      /\ tb \in [Shards -> Int]
  BY Kinds DEF Requests, IInv, TypeOK, Sets
<1>0. SetEntries(w, en, tb) \/ (entries' = en /\ tombstones' = tb)
  BY DEF Sets
<1> HIDE DEF en
<1>2. \E gone \in SUBSET Keys : Swept(w, en, tb, gone)
  <2>1. CASE SetEntries(w, en, tb)
    BY <1>1, <2>1, SweptEntries DEF IInv
  <2>2. CASE entries' = en /\ tombstones' = tb
    <3>1. Cardinality({}) = 0 /\ tb[s0] \in Int
      BY <1>1, FS_EmptySet
    <3>2. entries' = [j \in Keys |-> IF j \in {} THEN <<>> ELSE en[j]]
      BY <1>1, <2>2
    <3>3. tombstones' = [tb EXCEPT ![s0] = tb[s0] - Cardinality({})]
      BY <1>1, <2>2, <3>1
    <3> QED BY <3>2, <3>3 DEF Swept
  <2> QED BY <1>0, <2>1, <2>2
<1>3. PICK gone \in SUBSET Keys : Swept(w, en, tb, gone)
  BY <1>2
<1>4. Tables(w, c, p, gone)
  BY <1>3 DEF Tables, Sets, en, Swept
<1>5. TombsMove(w, c, gone)
  <2> SUFFICES ASSUME NEW s \in Shards
               PROVE  tombstones'[s] = IF s = s0 THEN TombsAfter(w, c, s) - Cardinality(gone)
                                                 ELSE TombsAfter(w, c, s)
    BY DEF TombsMove
  <2>1. tb[s] = TombsAfter(w, c, s)
    BY DEF Sets
  <2> QED BY <1>1, <1>3, <2>1 DEF Swept
<1> QED BY <1>4, <1>5 DEF Done, Written

\* What the request and the tables of a writer about to write are.
LEMMA WriterTypes ==
    ASSUME IInv, NEW w \in Writers, req[w] \in Requests
    PROVE  /\ Entry(req[w].file, req[w].ord, epoch + 1) \in Rev
           /\ TombOrd(req[w]) \in Nat /\ \A o \in Nat : Tombstone(o, epoch + 1) \in Rev
           /\ req[w].file \in Files \cup {0} /\ req[w].ord \in Nat /\ req[w].key \in Keys
           /\ keyCount \in Int /\ live \in [Files -> Int] /\ tombstones \in [Shards -> Int]
           /\ entries \in [Keys -> Seq(Rev)] /\ pending \in [Keys -> Seq(Rev)]
           /\ epoch \in Nat /\ biggest \in Files /\ biggest \in Int
  BY TypeRevs DEF IInv, TypeOK, Requests, Files

LEMMA NothingWritten ==
    ASSUME IInv, NEW w \in Writers, req[w] \in Requests, NEW e \in Rev, Author(w, e),
           SetEntries(w, entries, tombstones) \/ UNCHANGED <<entries, tombstones>>,
           UNCHANGED <<pending, keyCount, live, biggest, seen>>, epoch' \in {epoch, epoch + 1}
    PROVE  Done(w)
<1> DEFINE k == req[w].key
<1> USE WriterTypes
<1>1. Shape(w, e, entries[k], pending[k]) /\ Asks(w, e, entries[k], pending[k])
  BY DEF Shape, Asks, Keeps
<1>2. CountsMove(w, entries[k], pending[k])
  BY DEF CountsMove, Newer, Chain, ChainIn
<1>3. Watched(w, entries[k], pending[k])
  BY DEF Watched, Keeps, seen
<1>4. Sets(w, entries[k], pending[k], tombstones)
  <2>1. entries = [entries EXCEPT ![k] = entries[k]] /\ pending = [pending EXCEPT ![k] = pending[k]]
    OBVIOUS
  <2>2. \A s \in Shards : tombstones[s] = TombsAfter(w, entries[k], s)
    BY DEF TombsAfter
  <2> QED BY <2>1, <2>2 DEF Sets
<1>5. entries[k] \in Seq(Rev) /\ pending[k] \in Seq(Rev) /\ biggest' >= biggest
  OBVIOUS
<1> QED BY <1>1, <1>2, <1>3, <1>4, <1>5, WriteIsDone

LEMMA PutMissedDone ==
    ASSUME IInv, NEW w \in Writers, PutMissed(w)
    PROVE  Done(w)
<1> DEFINE e == Entry(req[w].file, req[w].ord, epoch + 1)
<1>1. req[w] \in Requests
  BY AboutToWrite DEF IsWrite
<1>2. e \in Rev /\ Author(w, e)
  BY <1>1, WriterTypes DEF Author, Entry, PutMissed
<1> QED BY <1>1, <1>2, NothingWritten DEF PutMissed, data, stats

LEMMA PutRefusedDone ==
    ASSUME IInv, NEW w \in Writers, PutRefused(w)
    PROVE  Done(w)
<1> DEFINE e == Entry(req[w].file, req[w].ord, epoch + 1)
<1>1. req[w] \in Requests
  BY AboutToWrite DEF IsWrite
<1>2. e \in Rev /\ Author(w, e)
  BY <1>1, WriterTypes DEF Author, Entry, PutRefused, IsPut
<1> QED BY <1>1, <1>2, NothingWritten DEF PutRefused, Tick

\* A new revision e is in place: c in entries, p in the pending table.
Placed(w, e, c, p) ==
    LET k == req[w].key IN
    \/ /\ c = Push(e, entries[k]) /\ entries[k] # <<>> /\ p = pending[k]
       /\ foldSeen[w] \/ Multi(entries[k])
    \/ /\ c = <<e>> /\ p = pending[k]
       /\ (entries[k] = <<>> /\ metaOwner # w) \/ LoneTomb(entries[k])
                                               \/ (entries[k] # <<>> /\ ~foldSeen[w])
    \/ c = entries[k] /\ entries[k] = <<>> /\ p = <<e>> /\ metaOwner = w

LEMMA PlacedShape ==
    ASSUME IInv, NEW w \in Writers, IsWrite(w), NEW e \in Rev, NEW c, NEW p, Placed(w, e, c, p)
    PROVE  /\ Shape(w, e, c, p) /\ c \in Seq(Rev) /\ p \in Seq(Rev)
           /\ Newer(c, p) # <<>> /\ Newer(c, p)[1] = e
<1> DEFINE k == req[w].key
<1> USE AboutToWrite
<1>1. entries[k] \in Seq(Rev) /\ pending[k] \in Seq(Rev)
  OBVIOUS
<1>2. CASE c = Push(e, entries[k]) /\ entries[k] # <<>> /\ p = pending[k]
           /\ (foldSeen[w] \/ Multi(entries[k]))
  <2>1. pending[k] = <<>>
    BY <1>2
  <2>2. c \in Seq(Rev) /\ c # <<>> /\ c[1] = e
    BY <1>1, <1>2, PushedRev
  <2> QED BY <1>1, <1>2, <2>1, <2>2 DEF Shape, Newer
<1>3. CASE /\ c = <<e>> /\ p = pending[k]
           /\ (entries[k] = <<>> /\ metaOwner # w) \/ LoneTomb(entries[k])
                                                   \/ (entries[k] # <<>> /\ ~foldSeen[w])
  <2>1. LoneTomb(entries[k]) => entries[k] # <<>>
    BY <1>1, ChainLength DEF LoneTomb, Single
  <2>2. pending[k] = <<>>
    BY <1>3, <2>1
  <2>3. c \in Seq(Rev) /\ c # <<>> /\ c[1] = e
    BY <1>3, OneRev
  <2> QED BY <1>1, <1>3, <2>2, <2>3 DEF Shape, Newer
<1>4. CASE c = entries[k] /\ entries[k] = <<>> /\ p = <<e>> /\ metaOwner = w
  BY <1>1, <1>4, OneRev DEF Shape, Newer
<1> QED BY <1>2, <1>3, <1>4 DEF Placed

\* The rest of a write that puts e on top of its key.
Replaces(w, e) ==
    LET k == req[w].key IN
    /\ Author(w, e)
    /\ req[w].op = "move" => ~Dead(Chain(k)) /\ Accepts(req[w], Chain(k)[1]) /\ ~e.tomb
    /\ req[w].op = "ttl"  => ~Dead(Chain(k)) /\ Expected(req[w], Chain(k)[1]) /\ e.tomb
    /\ keyCount' = keyCount + (IF Dead(Chain(k)) /\ ~e.tomb THEN 1
                               ELSE IF ~Dead(Chain(k)) /\ e.tomb THEN -1 ELSE 0)
    /\ \A f \in Files : live'[f] = live[f] + (IF ~e.tomb /\ e.file = f THEN 1 ELSE 0)
                                           - (IF LivesIn(Chain(k), f) THEN 1 ELSE 0)
    /\ Observe(k) \/ (UNCHANGED seen /\ Dead(Chain(k)) /\ e.tomb)
    /\ epoch' = epoch + 1 /\ biggest' >= biggest

LEMMA RevisionWritten ==
    ASSUME IInv, NEW w \in Writers, IsWrite(w), NEW e \in Rev, Replaces(w, e),
           NEW c, NEW p, NEW tb, Placed(w, e, c, p), Sets(w, c, p, tb)
    PROVE  Done(w)
<1> DEFINE k == req[w].key
<1>1. /\ Shape(w, e, c, p) /\ c \in Seq(Rev) /\ p \in Seq(Rev)
      /\ Newer(c, p) # <<>> /\ Newer(c, p)[1] = e
  BY PlacedShape
<1>2. Asks(w, e, c, p)
  BY DEF Asks, Replaces
<1>3. /\ Dead(Newer(c, p)) <=> e.tomb
      /\ \A f \in Files : LivesIn(Newer(c, p), f) <=> ~e.tomb /\ e.file = f
  BY <1>1 DEF Dead, LivesIn
<1>4. CountsMove(w, c, p)
  BY <1>3 DEF CountsMove, Replaces
<1>5. Watched(w, c, p)
  <2>1. CASE Observe(k)
    BY <2>1 DEF Watched, Observe
  <2>2. CASE UNCHANGED seen /\ Dead(Chain(k)) /\ e.tomb
    BY <1>3, <2>2 DEF Watched, seen
  <2> QED BY <2>1, <2>2 DEF Replaces
<1>6. req[w] \in Requests
  BY AboutToWrite
<1>7. Author(w, e) /\ epoch' \in {epoch, epoch + 1} /\ biggest' >= biggest
  BY DEF Replaces
<1> QED BY <1>1, <1>2, <1>4, <1>5, <1>6, <1>7, WriteIsDone

LEMMA PutInsertDone ==
    ASSUME IInv, NEW w \in Writers, PutInsert(w)
    PROVE  Done(w)
<1> DEFINE k == req[w].key
           e == Entry(req[w].file, req[w].ord, epoch + 1)
           tb == [tombstones EXCEPT ![ShardOf[k]] = IF @ > 0 THEN @ - 1 ELSE @]
<1>1. IsWrite(w)
  BY DEF IsWrite
<1>2. /\ req[w] \in Requests /\ k \in Keys /\ Found(w) = Chain(k) /\ ShardOf[k] \in Shards
      /\ entries[k] \in Seq(Rev)
  BY <1>1, AboutToWrite
<1>3. /\ e \in Rev /\ e.file = req[w].file /\ e.ord = req[w].ord /\ e.epoch = epoch + 1
      /\ ~e.tomb
  BY <1>2, WriterTypes DEF Entry
<1>4. req[w].op = "put" /\ Dead(Chain(k)) /\ req[w].file \in Files
  BY <1>2, WriterTypes DEF PutInsert, Files
<1>5. Replaces(w, e)
  <2>1. /\ keyCount' = keyCount + 1 /\ Observe(k) /\ epoch' = epoch + 1
        /\ live' = [live EXCEPT ![req[w].file] = @ + 1]
    BY DEF PutInsert, Tick
  <2>2. biggest' >= biggest
    BY <1>2, WriterTypes DEF PutInsert, RaiseBiggest
  <2>3. \A f \in Files : ~LivesIn(Chain(k), f)
    BY <1>4 DEF LivesIn
  <2>4. \A f \in Files : live'[f] = live[f] + (IF f = req[w].file THEN 1 ELSE 0)
    BY <1>2, <2>1, WriterTypes
  <2>5. Author(w, e)
    BY <1>3, <1>4 DEF Author
  <2> HIDE DEF e, k
  <2>6. \A f \in Files : live'[f] = live[f] + (IF ~e.tomb /\ e.file = f THEN 1 ELSE 0)
                                            - (IF LivesIn(Chain(k), f) THEN 1 ELSE 0)
    BY <1>2, <1>3, <2>3, <2>4, WriterTypes
  <2> QED BY <1>3, <1>4, <2>1, <2>2, <2>5, <2>6 DEF Replaces, k
<1>6. ASSUME NEW c, NEW p, NEW t, Placed(w, e, c, p), Sets(w, c, p, t)
      PROVE  Done(w)
  BY <1>1, <1>3, <1>5, <1>6, RevisionWritten
<1>7. pending = [pending EXCEPT ![k] = pending[k]] /\ entries = [entries EXCEPT ![k] = entries[k]]
  BY <1>2, WriterTypes
<1>8. Push(e, entries[k]) # <<>> /\ Len(Push(e, entries[k])) = Len(entries[k]) + 1
      /\ Len(entries[k]) \in Nat
  BY <1>2, <1>3, PushedLength, ChainLength
<1>9. CASE /\ Multi(entries[k]) /\ ~GoesToPending(w)
           /\ SetEntry(w, Push(e, entries[k]), tombstones)
           /\ UNCHANGED <<pending, hasPending>>
  <2>1. entries[k] # <<>> /\ ~LoneTomb(entries[k]) /\ ~LoneTomb(Push(e, entries[k]))
    <3> HIDE DEF e, k
    <3>1. Len(entries[k]) > 1 /\ Len(Push(e, entries[k])) > 1
      BY <1>8, <1>9 DEF Multi
    <3>2. entries[k] # <<>>
      BY <1>2, <3>1, ChainLength
    <3>3. ~Single(entries[k]) /\ ~Single(Push(e, entries[k]))
      BY <1>2, <1>3, <3>1, TypePush, NotSingle DEF Multi
    <3> QED BY <3>2, <3>3 DEF LoneTomb
  <2>2. Placed(w, e, Push(e, entries[k]), pending[k])
    BY <1>9, <2>1 DEF Placed
  <2>3. Sets(w, Push(e, entries[k]), pending[k], tombstones)
    BY <1>2, <1>7, <1>9, <2>1, WriterTypes DEF Sets, SetEntry, TombsAfter
  <2> QED BY <1>6, <2>2, <2>3
<1>10. CASE /\ Single(entries[k]) /\ ~GoesToPending(w) /\ SetEntry(w, <<e>>, tb)
            /\ UNCHANGED <<pending, hasPending>>
  <2>1. entries[k] # <<>> /\ LoneTomb(entries[k])
    <3>1. entries[k] # <<>>
      BY <1>2, <1>10, ChainLength DEF Single
    <3> QED BY <1>4, <1>10, <3>1 DEF LoneTomb, Chain, ChainIn, Dead
  <2>2. Placed(w, e, <<e>>, pending[k])
    BY <2>1 DEF Placed
  <2>3. ~LoneTomb(<<e>>)
    BY <1>3, OneRev DEF LoneTomb
  <2>4. tb \in [Shards -> Int] /\ \A s \in Shards : tb[s] = TombsAfter(w, <<e>>, s)
    <3>1. tombstones \in [Shards -> Int]
      BY <1>2, WriterTypes
    <3>2. \A s \in Shards : TombsAfter(w, <<e>>, s) =
             IF s # ShardOf[k] THEN tombstones[s]
             ELSE IF tombstones[s] > 0 THEN tombstones[s] - 1 ELSE tombstones[s]
      BY <2>1, <2>3 DEF TombsAfter
    <3> QED BY <1>2, <3>1, <3>2
  <2>5. Sets(w, <<e>>, pending[k], tb)
    BY <1>7, <1>10, <2>4 DEF Sets, SetEntry
  <2> QED BY <1>6, <2>2, <2>5
<1>11. CASE /\ GoesToPending(w) /\ SetPending(k, e) /\ hasPending' = TRUE
            /\ SetEntries(w, entries, tombstones)
  <2>1. Placed(w, e, entries[k], <<e>>)
    BY <1>11 DEF Placed, GoesToPending
  <2>2. Sets(w, entries[k], <<e>>, tombstones)
    BY <1>2, <1>7, <1>11, WriterTypes DEF Sets, SetPending, TombsAfter
  <2> QED BY <1>6, <2>1, <2>2
<1>12. CASE /\ entries[k] = <<>> /\ ~GoesToPending(w) /\ SetEntry(w, <<e>>, tombstones)
            /\ UNCHANGED <<pending, hasPending>>
  <2>1. Placed(w, e, <<e>>, pending[k])
    BY <1>12 DEF Placed, GoesToPending
  <2>2. ~LoneTomb(entries[k]) /\ ~LoneTomb(<<e>>)
    BY <1>2, <1>3, <1>12, OneRev, ChainLength DEF LoneTomb, Single
  <2>3. Sets(w, <<e>>, pending[k], tombstones)
    BY <1>2, <1>7, <1>12, <2>2, WriterTypes DEF Sets, SetEntry, TombsAfter
  <2> QED BY <1>6, <2>1, <2>3
<1> HIDE DEF tb, e
<1> QED BY <1>9, <1>10, <1>11, <1>12 DEF PutInsert, e, tb

LEMMA PutOverwriteDone ==
    ASSUME IInv, NEW w \in Writers, PutOverwrite(w)
    PROVE  Done(w)
<1> DEFINE k == req[w].key
           e == Entry(req[w].file, req[w].ord, epoch + 1)
           old == Chain(k)
<1>1. IsWrite(w)
  BY DEF IsWrite
<1>2. /\ req[w] \in Requests /\ k \in Keys /\ Found(w) = old /\ ShardOf[k] \in Shards
      /\ entries[k] \in Seq(Rev)
  BY <1>1, AboutToWrite
<1>3. /\ e \in Rev /\ e.file = req[w].file /\ e.ord = req[w].ord /\ e.epoch = epoch + 1
      /\ ~e.tomb
  BY <1>2, WriterTypes DEF Entry
<1>4. ~Dead(old) /\ Accepts(req[w], old[1]) /\ req[w].op \in {"put", "move"}
  BY <1>2 DEF PutOverwrite, IsPut
<1>5. Replaces(w, e)
  <2>1. keyCount' = keyCount /\ Observe(k) /\ epoch' = epoch + 1
        /\ live' = LiveAfter(old[1].file, req[w].file)
    BY <1>2 DEF PutOverwrite, Tick
  <2>2. biggest' >= biggest
    <3>1. req[w].file \in Int /\ biggest \in Int
      BY <1>2, WriterTypes DEF Files
    <3>2. biggest' = IF req[w].file > biggest THEN req[w].file ELSE biggest
      BY DEF PutOverwrite, RaiseBiggest
    <3> QED BY <3>1, <3>2
  <2>3. \A f \in Files : LivesIn(old, f) <=> old[1].file = f
    BY <1>4 DEF LivesIn
  <2>4. \A was, now : \A f \in Files :
           LiveAfter(was, now)[f] = live[f] + (IF now = f THEN 1 ELSE 0)
                                            - (IF was = f THEN 1 ELSE 0)
    <3> SUFFICES ASSUME NEW was, NEW now, NEW f \in Files
                 PROVE  LiveAfter(was, now)[f] = live[f] + (IF now = f THEN 1 ELSE 0)
                                                         - (IF was = f THEN 1 ELSE 0)
      OBVIOUS
    <3>1. live \in [Files -> Int] /\ live[f] \in Int
      BY <1>2, WriterTypes
    <3> DEFINE less == [live EXCEPT ![was] = @ - 1]
    <3>2. less \in [Files -> Int] /\ less[f] = IF was = f THEN live[f] - 1 ELSE live[f]
      BY <3>1, TypeCount
    <3>3. [less EXCEPT ![now] = @ + 1][f] = IF now = f THEN less[f] + 1 ELSE less[f]
      BY <3>2
    <3>4. LiveAfter(was, now) = IF was = now THEN live ELSE [less EXCEPT ![now] = @ + 1]
      BY DEF LiveAfter
    <3> HIDE DEF less
    <3> QED BY <3>1, <3>2, <3>3, <3>4
  <2>5. Author(w, e)
    BY <1>3, <1>4 DEF Author
  <2> HIDE DEF e
  <2>6. \A f \in Files : live'[f] = live[f] + (IF ~e.tomb /\ e.file = f THEN 1 ELSE 0)
                                            - (IF LivesIn(old, f) THEN 1 ELSE 0)
    BY <1>3, <2>1, <2>3, <2>4
  <2>7. keyCount' = keyCount + 0
    BY <1>2, <2>1, WriterTypes
  <2>8. req[w].op # "ttl"
    BY <1>4
  <2> QED BY <1>3, <1>4, <2>1, <2>2, <2>5, <2>6, <2>7, <2>8 DEF Replaces
<1>6. ASSUME NEW c, NEW p, NEW t, Placed(w, e, c, p), Sets(w, c, p, t)
      PROVE  Done(w)
  BY <1>1, <1>3, <1>5, <1>6, RevisionWritten
<1>7. pending = [pending EXCEPT ![k] = pending[k]] /\ entries = [entries EXCEPT ![k] = entries[k]]
  BY <1>2, WriterTypes
<1>8. ~LoneTomb(<<e>>) /\ (entries[k] # <<>> => ~LoneTomb(Push(e, entries[k])))
  <2> HIDE DEF e, k
  <2>0. Len(Push(e, entries[k])) = Len(entries[k]) + 1
    BY <1>2, <1>3, PushedLength
  <2>1. entries[k] # <<>> => Len(Push(e, entries[k])) > 1
    BY <1>2, <2>0, ChainLength
  <2> QED BY <1>3, <2>1, OneRev DEF LoneTomb, Single
<1>9. entries[k] # <<>> => ~LoneTomb(entries[k])
  BY <1>4 DEF LoneTomb, Chain, ChainIn, Dead
<1>10. CASE /\ entries[k] # <<>>
            /\ SetEntry(w, IF foldSeen[w] THEN Push(e, entries[k]) ELSE <<e>>, tombstones)
            /\ UNCHANGED <<pending, hasPending>>
  <2> DEFINE c == IF foldSeen[w] THEN Push(e, entries[k]) ELSE <<e>>
  <2>1. Placed(w, e, c, pending[k])
    BY <1>10 DEF Placed
  <2>2. ~LoneTomb(c) /\ ~LoneTomb(entries[k])
    BY <1>8, <1>9, <1>10
  <2> HIDE DEF c
  <2>3. SetEntry(w, c, tombstones) /\ pending' = pending
    BY <1>10 DEF c
  <2>4. Sets(w, c, pending[k], tombstones)
    BY <1>2, <1>7, <2>2, <2>3, WriterTypes DEF Sets, SetEntry, TombsAfter
  <2> QED BY <1>6, <2>1, <2>4
<1>11. CASE entries[k] = <<>> /\ SetPending(k, e) /\ SetEntries(w, entries, tombstones)
  <2>1. metaOwner = w
    BY <1>4, <1>11, <1>1, AboutToWrite DEF Chain, ChainIn, Dead
  <2>2. Placed(w, e, entries[k], <<e>>)
    BY <1>11, <2>1 DEF Placed
  <2>3. Sets(w, entries[k], <<e>>, tombstones)
    BY <1>2, <1>7, <1>11, WriterTypes DEF Sets, SetPending, TombsAfter
  <2> QED BY <1>6, <2>2, <2>3
<1> HIDE DEF e
<1> QED BY <1>10, <1>11 DEF PutOverwrite, e

LEMMA RemoveNothingDone ==
    ASSUME IInv, NEW w \in Writers, RemoveNothing(w)
    PROVE  Done(w)
<1> DEFINE k == req[w].key
           o == TombOrd(req[w])
           e == Tombstone(o, epoch + 1)
<1>1. IsWrite(w)
  BY DEF IsWrite
<1>2. /\ req[w] \in Requests /\ k \in Keys /\ Found(w) = Chain(k) /\ ShardOf[k] \in Shards
      /\ entries[k] \in Seq(Rev)
  BY <1>1, AboutToWrite
<1>3. /\ e \in Rev /\ e.file = 0 /\ e.ord = o /\ e.epoch = epoch + 1 /\ e.tomb
  BY <1>2, WriterTypes DEF Tombstone
<1>4. Author(w, e)
  BY <1>3 DEF Author, RemoveNothing, IsRemove, TombOrd
<1>5. CASE UNCHANGED entries
  BY <1>2, <1>3, <1>4, <1>5, NothingWritten DEF RemoveNothing, Tick
<1>6. CASE /\ Dead(Chain(k)) /\ entries[k] # <<>> /\ Single(entries[k]) /\ o # 0
           /\ entries' = [entries EXCEPT ![k] = <<e>>]
  <2>1. LoneTomb(entries[k]) /\ LoneTomb(<<e>>)
    BY <1>3, <1>6, OneRev DEF LoneTomb, Single, Chain, ChainIn, Dead
  <2>2. req[w].op # "ttl" /\ req[w].op # "move"
    BY <1>6 DEF TombOrd, RemoveNothing, IsRemove
  <2>3. /\ UNCHANGED <<pending, tombstones, keyCount, live, biggest, seen>>
        /\ epoch' = epoch + 1
    BY DEF RemoveNothing, Tick
  <2>4. \A f \in Files : ~LivesIn(Chain(k), f)
    BY <1>6 DEF LivesIn
  <2> HIDE DEF e
  <2>5. Replaces(w, e)
    <3>1. keyCount' = keyCount + 0
      BY <1>2, <2>3, WriterTypes
    <3>2. \A f \in Files : live'[f] = live[f] + 0 - 0
      BY <1>2, <2>3, WriterTypes
    <3>3. biggest' >= biggest
      BY <1>2, <2>3, WriterTypes
    <3> QED BY <1>3, <1>4, <1>6, <2>2, <2>3, <2>4, <3>1, <3>2, <3>3 DEF Replaces
  <2>6. Placed(w, e, <<e>>, pending[k])
    BY <2>1 DEF Placed
  <2>7. Sets(w, <<e>>, pending[k], tombstones)
    <3>1. pending = [pending EXCEPT ![k] = pending[k]]
      BY <1>2, WriterTypes
    <3> QED BY <1>2, <1>6, <2>1, <2>3, <3>1, WriterTypes DEF Sets, TombsAfter
  <2> QED BY <1>1, <1>3, <2>5, <2>6, <2>7, RevisionWritten
<1> HIDE DEF e
<1>7. \/ UNCHANGED entries
      \/ /\ Dead(Chain(k)) /\ entries[k] # <<>> /\ Single(entries[k]) /\ o # 0
         /\ entries' = [entries EXCEPT ![k] = <<e>>]
  BY <1>2 DEF RemoveNothing, e
<1> QED BY <1>5, <1>6, <1>7

LEMMA RemoveLiveDone ==
    ASSUME IInv, NEW w \in Writers, RemoveLive(w)
    PROVE  Done(w)
<1> DEFINE k == req[w].key
           t == Tombstone(TombOrd(req[w]), epoch + 1)
           old == Chain(k)
           tb == [tombstones EXCEPT ![ShardOf[k]] = @ + 1]
<1>1. IsWrite(w)
  BY DEF IsWrite
<1>2. /\ req[w] \in Requests /\ k \in Keys /\ Found(w) = old /\ ShardOf[k] \in Shards
      /\ entries[k] \in Seq(Rev) /\ pending[k] \in Seq(Rev)
  BY <1>1, AboutToWrite
<1>3. /\ t \in Rev /\ t.file = 0 /\ t.ord = TombOrd(req[w]) /\ t.epoch = epoch + 1 /\ t.tomb
  BY <1>2, WriterTypes DEF Tombstone
<1>4. /\ ~Dead(old) /\ req[w].op \in {"remove", "ttl"}
      /\ req[w].op = "ttl" => Expected(req[w], old[1])
  BY <1>2 DEF RemoveLive, IsRemove
<1>5. ASSUME NEW e \in Rev, e.tomb, Author(w, e) PROVE Replaces(w, e)
  <2>1. /\ keyCount' = keyCount - 1 /\ Observe(k) /\ epoch' = epoch + 1 /\ biggest' = biggest
        /\ live' = [live EXCEPT ![old[1].file] = @ - 1]
    BY <1>2 DEF RemoveLive, Tick
  <2>2. \A f \in Files : LivesIn(old, f) <=> old[1].file = f
    BY <1>4 DEF LivesIn
  <2> HIDE DEF old
  <2>3. \A f \in Files : live'[f] = live[f] + 0 - (IF LivesIn(old, f) THEN 1 ELSE 0)
    BY <1>2, <2>1, <2>2, WriterTypes, SMTT(20)
  <2>4. keyCount' = keyCount + (-1)
    BY <1>2, <2>1, WriterTypes
  <2>5. biggest' >= biggest
    BY <1>2, <2>1, WriterTypes
  <2> QED BY <1>4, <1>5, <2>1, <2>3, <2>4, <2>5 DEF Replaces, old
<1>6. ASSUME NEW e \in Rev, e.tomb, Author(w, e), NEW c, NEW p, NEW u,
             Placed(w, e, c, p), Sets(w, c, p, u)
      PROVE  Done(w)
  BY <1>1, <1>5, <1>6, RevisionWritten
<1>7. pending = [pending EXCEPT ![k] = pending[k]] /\ entries = [entries EXCEPT ![k] = entries[k]]
  BY <1>2, WriterTypes
<1>8. entries[k] # <<>> => ~LoneTomb(entries[k]) /\ ~LoneTomb(Push(t, entries[k]))
  <2>1. entries[k] # <<>> => ~LoneTomb(entries[k])
    BY <1>4 DEF LoneTomb, Chain, ChainIn, Dead
  <2> HIDE DEF t, k
  <2>2. Len(Push(t, entries[k])) = Len(entries[k]) + 1
    BY <1>2, <1>3, PushedLength
  <2>3. entries[k] # <<>> => Len(Push(t, entries[k])) > 1
    BY <1>2, <2>2, ChainLength
  <2>4. entries[k] # <<>> => ~Single(Push(t, entries[k]))
    BY <1>2, <2>2, <2>3, ChainLength DEF Single
  <2> QED BY <2>1, <2>4 DEF LoneTomb
<1>9. Author(w, t)
  BY <1>3, <1>4 DEF Author, TombOrd
<1>10. CASE /\ entries[k] # <<>> /\ foldSeen[w] /\ UNCHANGED pending
            /\ SetEntry(w, Push(t, entries[k]), tombstones)
  <2>1. Placed(w, t, Push(t, entries[k]), pending[k])
    BY <1>10 DEF Placed
  <2>2. Sets(w, Push(t, entries[k]), pending[k], tombstones)
    BY <1>2, <1>7, <1>8, <1>10, WriterTypes DEF Sets, SetEntry, TombsAfter
  <2> QED BY <1>3, <1>6, <1>9, <2>1, <2>2
<1>11. CASE /\ entries[k] # <<>> /\ ~foldSeen[w] /\ UNCHANGED pending
            /\ SetEntry(w, <<t>>, tb)
  <2>1. Placed(w, t, <<t>>, pending[k])
    BY <1>11 DEF Placed
  <2>2. LoneTomb(<<t>>)
    BY <1>3, OneRev DEF LoneTomb, Single
  <2>3. tb \in [Shards -> Int] /\ \A s \in Shards : tb[s] = TombsAfter(w, <<t>>, s)
    <3>1. tombstones \in [Shards -> Int]
      BY <1>2, WriterTypes
    <3>2. \A s \in Shards : TombsAfter(w, <<t>>, s) =
             IF s # ShardOf[k] THEN tombstones[s] ELSE tombstones[s] + 1
      BY <1>8, <1>11, <2>2 DEF TombsAfter
    <3> QED BY <1>2, <3>1, <3>2
  <2>4. Sets(w, <<t>>, pending[k], tb)
    BY <1>7, <1>11, <2>3 DEF Sets, SetEntry
  <2> QED BY <1>3, <1>6, <1>9, <2>1, <2>4
<1>12. CASE /\ entries[k] = <<>> /\ SetPending(k, [t EXCEPT !.file = pending[k][1].file])
            /\ UNCHANGED <<entries, tombstones>>
  <2> DEFINE e == [t EXCEPT !.file = pending[k][1].file]
  <2>1. metaOwner = w /\ pending[k] # <<>>
    BY <1>2, <1>4, <1>12, <1>1, AboutToWrite DEF Chain, ChainIn, Dead
  <2>2. pending[k][1].file \in Files \cup {0}
    BY <1>2, <2>1, RevsOfChain
  <2>3. /\ e \in Rev /\ e.tomb /\ e.ord = t.ord /\ e.epoch = t.epoch
        /\ e.file = pending[k][1].file
    BY <1>3, <2>2 DEF Rev
  <2> HIDE DEF e, t
  <2>4. Author(w, e)
    BY <1>3, <1>4, <1>12, <2>1, <2>3 DEF Author, TombOrd
  <2>5. Placed(w, e, entries[k], <<e>>)
    BY <1>12, <2>1 DEF Placed
  <2>6. Sets(w, entries[k], <<e>>, tombstones)
    BY <1>2, <1>7, <1>12, WriterTypes DEF Sets, SetPending, TombsAfter, e
  <2> QED BY <1>6, <2>3, <2>4, <2>5, <2>6
<1> HIDE DEF t, tb
<1> QED BY <1>10, <1>11, <1>12 DEF RemoveLive, t, tb

LEMMA EveryWriteIsDone ==
    ASSUME IInv, NEW w \in Writers, IsWrite(w)
    PROVE  Done(w)
  BY PutMissedDone, PutRefusedDone, PutInsertDone, PutOverwriteDone, RemoveNothingDone,
     RemoveLiveDone DEF IsWrite

-----------------------------------------------------------------------------
(* Heads: what readers, folds and counters see of a key.                   *)

\* The chain of k keeps its head, or was dead and is gone.
HeadKept(k) == \/ Chain(k)' = <<>> /\ Dead(Chain(k))
               \/ Chain(k)' # <<>> /\ Chain(k) # <<>> /\ Chain(k)'[1] = Chain(k)[1]

LEMMA HeadTells ==
    ASSUME NEW k \in Keys, HeadKept(k)
    PROVE  /\ Current(k)' = Current(k) /\ (Dead(Chain(k))' <=> Dead(Chain(k)))
           /\ \A f : LivesIn(Chain(k), f)' <=> LivesIn(Chain(k), f)
  BY DEF HeadKept, Current, ValueIn, Chain, Dead, LivesIn

\* What a write leaves at every key.
LEMMA TablesAt ==
    ASSUME IInv, NEW w \in Writers, IsWrite(w), NEW c, NEW p, NEW gone, Tables(w, c, p, gone),
           NEW j \in Keys
    PROVE  LET k == req[w].key
               now == IF j = k THEN c ELSE entries[j]
           IN /\ entries'[j] = IF j \in gone THEN <<>> ELSE now
              /\ pending'[j] = IF j = k THEN p ELSE pending[j]
              /\ j \in gone => ShardOf[j] = ShardOf[k] /\ LoneTomb(now) /\ ~foldSeen[w]
<1> DEFINE k == req[w].key
           en == [entries EXCEPT ![k] = c]
<1>1. entries \in [Keys -> Seq(Rev)] /\ pending \in [Keys -> Seq(Rev)] /\ k \in Keys
  BY AboutToWrite DEF IInv, TypeOK
<1>2. en[j] = IF j = k THEN c ELSE entries[j]
  BY <1>1
<1>3. pending'[j] = IF j = k THEN p ELSE pending[j]
  BY <1>1 DEF Tables
<1>4. entries' = [i \in Keys |-> IF i \in gone THEN <<>> ELSE en[i]]
  BY DEF Tables
<1>5. j \in gone => j \in Sweepable(en, ShardOf[k]) /\ ~foldSeen[w]
  BY DEF Tables
<1> HIDE DEF en, k
<1>6. j \in gone => ShardOf[j] = ShardOf[k] /\ LoneTomb(en[j]) /\ ~foldSeen[w]
  BY <1>5 DEF Sweepable, LoneTomb
<1> QED BY <1>2, <1>3, <1>4, <1>6 DEF k

\* The key of a write shows its new revision, unless nothing was written; the
\* other keys of the shard lose lone tombstones at most.
LEMMA WriteHeads ==
    ASSUME IInv, NEW w \in Writers, IsWrite(w), NEW e \in Rev, NEW c \in Seq(Rev),
           NEW p \in Seq(Rev), NEW gone \in SUBSET Keys, Written(w, e, c, p, gone),
           NEW k, k = req[w].key
    PROVE  /\ \A j \in Keys \ {k} : \/ Chain(j)' = Chain(j)
                                    \/ Chain(j)' = <<>> /\ Dead(Chain(j))
           /\ Keeps(k, c, p) => HeadKept(k)
           /\ ~Keeps(k, c, p) => \/ Chain(k)' = <<>> /\ e.tomb
                                 \/ Chain(k)' # <<>> /\ Chain(k)'[1] = e
           /\ Dead(Chain(k))' <=> Dead(Newer(c, p))
           /\ \A f : LivesIn(Chain(k), f)' <=> LivesIn(Newer(c, p), f)
<1>1. /\ k \in Keys /\ entries[k] \in Seq(Rev) /\ pending[k] \in Seq(Rev)
      /\ entries \in [Keys -> Seq(Rev)]
      /\ \A j \in Keys : entries[j] = <<>> \/ pending[j] = <<>>
  BY AboutToWrite DEF IInv, TypeOK
<1>2. Tables(w, c, p, gone) /\ Shape(w, e, c, p)
  BY DEF Written
<1>3. \A c1 \in Seq(Rev) : LoneTomb(c1) => c1 # <<>> /\ Dead(c1)
  BY ChainLength DEF LoneTomb, Single, Dead
<1>4. ASSUME NEW j \in Keys \ {k}
      PROVE  Chain(j)' = Chain(j) \/ (Chain(j)' = <<>> /\ Dead(Chain(j)))
  <2>1. /\ entries'[j] = IF j \in gone THEN <<>> ELSE entries[j]
        /\ pending'[j] = pending[j] /\ (j \in gone => LoneTomb(entries[j]))
    BY <1>2, TablesAt
  <2> QED BY <1>1, <1>3, <2>1 DEF Chain, ChainIn
<1>5. /\ entries'[k] = IF k \in gone THEN <<>> ELSE c
      /\ pending'[k] = p /\ (k \in gone => LoneTomb(c))
  BY <1>1, <1>2, TablesAt
<1>6. \A e1 \in Rev : Push(e1, entries[k]) # <<>> /\ <<e1>> # <<>>
  BY <1>1, PushedRev, OneRev
<1>7. c # <<>> => p = <<>>
  BY <1>1, <1>2 DEF Shape, Keeps
<1>8. /\ ~Keeps(k, c, p) => Newer(c, p) # <<>> /\ Newer(c, p)[1] = e
      /\ Keeps(k, c, p) => Newer(c, p) = Chain(k)
  <2>1. Push(e, entries[k])[1] = e /\ <<e>>[1] = e
    BY <1>1, PushedRev, OneRev
  <2> QED BY <1>2, <1>6, <2>1 DEF Shape, Keeps, Newer, Chain, ChainIn
<1>9. CASE k \in gone
  <2>1. Chain(k)' = <<>> /\ Newer(c, p) = c /\ Dead(c) /\ c # <<>>
    BY <1>3, <1>5, <1>7, <1>9 DEF Chain, ChainIn, Newer
  <2>2. Keeps(k, c, p) => HeadKept(k)
    BY <1>8, <2>1 DEF HeadKept
  <2>3. ~Keeps(k, c, p) => e.tomb
    BY <1>8, <2>1 DEF Dead
  <2> QED BY <1>4, <2>1, <2>2, <2>3 DEF Dead, LivesIn
<1>10. CASE k \notin gone
  <2>1. Chain(k)' = Newer(c, p)
    BY <1>5, <1>10 DEF Chain, ChainIn, Newer
  <2>2. Keeps(k, c, p) => HeadKept(k)
    BY <1>8, <2>1 DEF HeadKept, Dead
  <2> QED BY <1>4, <1>8, <2>1, <2>2 DEF Dead, LivesIn
<1> QED BY <1>9, <1>10

\* What a write leaves alone.
LEMMA WriteRests ==
    ASSUME IInv, NEW w \in Writers, IsWrite(w)
    PROVE  /\ UNCHANGED <<keyfolders, at, todo, why, iterEpoch, nextOrd, mergeFiles, ops>>
           /\ \A t \in Threads : t # w => pc'[t] = pc[t]
           /\ pc'[w] = "idle" /\ req'[w] = NoReq
           /\ \A v \in Writers : v # w => req'[v] = req[v]
           /\ \A f \in Folders : pc'[f] = pc[f] /\ pc[f] \notin Inside
           /\ \A r \in Readers : pc'[r] = pc[r]
<1>1. Leave(w) /\ pc[w] = "apply"
  BY DEF IsWrite, PutMissed, PutRefused, PutInsert, PutOverwrite, RemoveNothing, RemoveLive,
         IsPut, IsRemove
<1>2. \A f \in Folders : pc[f] \notin Inside
  BY <1>1 DEF IInv, LockInv, BarrierExcludesWriters
<1>3. pc \in [Threads -> WriterPCs \cup ReaderPCs \cup FolderPCs]
      /\ req \in [Writers -> Requests \cup {NoReq}]
  BY DEF IInv, TypeOK
<1> QED BY <1>1, <1>2, <1>3, Kinds DEF Leave, Goto, flocal, input

-----------------------------------------------------------------------------
(* entry_at_epoch.                                                         *)

LEMMA AtEpochIs ==
    ASSUME NEW c \in Seq(Rev), NEW i \in Nat, NEW n \in DOMAIN c, c[n].epoch <= i,
           \A m \in DOMAIN c : c[m].epoch <= i => n <= m
    PROVE  AtEpoch(c, i) = <<c[n]>>
<1> DEFINE vis == VisibleRevs(c, i)
<1>1. vis \subseteq Nat /\ n \in vis /\ \A m \in vis : n <= m
  BY ChainLength DEF VisibleRevs
<1>2. \A x \in vis : (\A m \in vis : x <= m) => x = n
  BY <1>1
<1> HIDE DEF vis
<1>3. (CHOOSE x \in vis : \A m \in vis : x <= m) = n
  BY <1>1, <1>2
<1> QED BY <1>1, <1>3 DEF AtEpoch, vis

LEMMA AtEpochNone ==
    ASSUME NEW c, NEW i, \A m \in DOMAIN c : ~(c[m].epoch <= i)
    PROVE  AtEpoch(c, i) = <<>>
<1>1. VisibleRevs(c, i) = {}
  BY DEF VisibleRevs
<1> QED BY <1>1 DEF AtEpoch

\* A revision newer than the epoch changes nothing.
LEMMA AtEpochPush ==
    ASSUME NEW c \in Seq(Rev), NEW e \in Rev, NEW i \in Nat, e.epoch > i
    PROVE  AtEpoch(Push(e, c), i) = AtEpoch(c, i)
<1> DEFINE d == Push(e, c)
<1>1. /\ d \in Seq(Rev) /\ d[1] = e
      /\ \A m \in DOMAIN d : m = 1 \/ (m - 1 \in DOMAIN c /\ d[m] = c[m - 1])
      /\ \A m \in DOMAIN c : m + 1 \in DOMAIN d /\ d[m + 1] = c[m]
  BY PushedRev
<1>2. DOMAIN c \subseteq Nat /\ DOMAIN d \subseteq Nat
  BY <1>1, ChainLength
<1>3. e.epoch \in Nat /\ ~(e.epoch <= i)
  BY DEF Rev
<1> HIDE DEF d
<1>4. CASE \A m \in DOMAIN c : ~(c[m].epoch <= i)
  <2>1. \A m \in DOMAIN d : ~(d[m].epoch <= i)
    BY <1>1, <1>3, <1>4
  <2> QED BY <1>4, <2>1, AtEpochNone DEF d
<1>5. CASE \E m \in DOMAIN c : c[m].epoch <= i
  <2>1. PICK n \in VisibleRevs(c, i) : \A m \in VisibleRevs(c, i) : n <= m
    BY <1>2, <1>5, LeastExists DEF VisibleRevs
  <2>2. n \in DOMAIN c /\ c[n].epoch <= i /\ \A m \in DOMAIN c : c[m].epoch <= i => n <= m
    BY <2>1 DEF VisibleRevs
  <2>3. n + 1 \in DOMAIN d /\ d[n + 1] = c[n]
    BY <1>1, <2>2
  <2>4. ASSUME NEW m \in DOMAIN d, d[m].epoch <= i PROVE n + 1 <= m
    <3>1. m # 1
      BY <1>1, <1>3, <2>4
    <3>2. m - 1 \in DOMAIN c /\ d[m] = c[m - 1]
      BY <1>1, <3>1
    <3>3. n <= m - 1
      BY <2>2, <2>4, <3>2
    <3> QED BY <1>2, <2>2, <3>3
  <2>5. AtEpoch(c, i) = <<c[n]>>
    BY <2>2, AtEpochIs
  <2>6. AtEpoch(d, i) = <<d[n + 1]>>
    BY <1>1, <2>2, <2>3, <2>4, AtEpochIs
  <2> QED BY <2>3, <2>5, <2>6 DEF d
<1> QED BY <1>4, <1>5

\* At an epoch that is not behind the head, the head.
LEMMA AtEpochHead ==
    ASSUME NEW c \in Seq(Rev), c # <<>>, NEW i \in Nat, c[1].epoch <= i
    PROVE  AtEpoch(c, i) = <<c[1]>>
<1>1. 1 \in DOMAIN c /\ \A m \in DOMAIN c : 1 <= m
  BY ChainLength
<1> QED BY <1>1, AtEpochIs

\* A lone revision: itself or nothing.
LEMMA AtEpochSingle ==
    ASSUME NEW c \in Seq(Rev), Single(c), NEW i \in Nat
    PROVE  AtEpoch(c, i) \in {<<>>, <<c[1]>>}
<1>1. c # <<>> /\ DOMAIN c = {1}
  BY ChainLength DEF Single
<1>2. CASE c[1].epoch <= i
  BY <1>1, <1>2, AtEpochHead
<1>3. CASE ~(c[1].epoch <= i)
  BY <1>1, <1>3, AtEpochNone
<1> QED BY <1>2, <1>3

-----------------------------------------------------------------------------
(* Counting.                                                               *)

LEMMA KeySets ==
    ASSUME NEW S \in SUBSET Keys
    PROVE  IsFiniteSet(S) /\ Cardinality(S) \in Nat
  BY ConstantsOK, FS_Subset, FS_CardinalityType

\* Two sets of keys that differ in k at most.
OffBy(S, T, k) == /\ k \in Keys /\ S \subseteq Keys /\ T \subseteq Keys
                  /\ \A j \in Keys : j = k \/ (j \in S <=> j \in T)

LEMMA CountOff ==
    ASSUME NEW S, NEW T, NEW k, OffBy(S, T, k)
    PROVE  /\ Cardinality(S) \in Nat
           /\ Cardinality(T) = Cardinality(S) + (IF k \in T THEN 1 ELSE 0)
                                              - (IF k \in S THEN 1 ELSE 0)
<1>1. S \ {k} = T \ {k}
  BY DEF OffBy
<1>2. Cardinality(S) \in Nat /\ Cardinality(T) \in Nat /\ IsFiniteSet(S) /\ IsFiniteSet(T)
  BY KeySets DEF OffBy
<1>3. Cardinality(S \ {k}) = IF k \in S THEN Cardinality(S) - 1 ELSE Cardinality(S)
  BY <1>2, FS_RemoveElement
<1>4. Cardinality(T \ {k}) = IF k \in T THEN Cardinality(T) - 1 ELSE Cardinality(T)
  BY <1>2, FS_RemoveElement
<1> QED BY <1>1, <1>2, <1>3, <1>4

LiveKeys  == {k \in Keys : ~Dead(Chain(k))}
LiveIn(f) == {k \in Keys : LivesIn(Chain(k), f)}

\* CountersExact, in terms of chains.
CountsHold ==
    /\ keyCount = Cardinality(LiveKeys)
    /\ \A f \in Files : live[f] = Cardinality(LiveIn(f))
    /\ \A s \in Shards : tombstones[s] = Cardinality(Sweepable(entries, s))

FullInv == IInv /\ MapInv /\ CountsHold

\* A key has a value exactly when its chain is not dead.
LEMMA LiveIs ==
    ASSUME TypeOK, OrdsPast, NEW k \in Keys
    PROVE  /\ IsLive(k) <=> ~Dead(Chain(k))
           /\ ~Dead(Chain(k)) => Current(k) = Chain(k)[1].ord
           /\ Dead(Chain(k)) => Current(k) = Absent
           /\ Current(k) \in Nat /\ Current(k) < nextOrd
<1>1. entries[k] \in Seq(Rev) /\ pending[k] \in Seq(Rev) /\ nextOrd \in Nat /\ 0 < nextOrd
  BY DEF TypeOK, OrdsPast
<1>2. Chain(k) \in Seq(Rev) /\ RevsPast(Chain(k))
  BY <1>1 DEF OrdsPast, Chain, ChainIn
<1>3. Chain(k) # <<>> => /\ Chain(k)[1] \in Rev /\ Chain(k)[1].ord < nextOrd
                         /\ Chain(k)[1].ord \in Nat
                         /\ ~Chain(k)[1].tomb => Chain(k)[1].ord > 0
  BY <1>2, ChainLength, RevsOfChain DEF RevsPast
<1>4. Current(k) = IF Chain(k) = <<>> \/ Chain(k)[1].tomb THEN Absent ELSE Chain(k)[1].ord
  BY DEF Current, ValueIn, Chain
<1> QED BY <1>1, <1>3, <1>4 DEF Dead, IsLive, Absent

LEMMA CountsMean ==
    ASSUME TypeOK, OrdsPast, CountsHold
    PROVE  CountersExact
<1>1. {k \in Keys : IsLive(k)} = LiveKeys
  BY LiveIs DEF LiveKeys
<1>2. \A f : {k \in LiveKeys : Chain(k)[1].file = f} = LiveIn(f)
  BY DEF LiveKeys, LiveIn, LivesIn
<1> QED BY <1>1, <1>2 DEF CountersExact, CountsHold

-----------------------------------------------------------------------------
(* Writes keep the invariant.                                              *)

LEMMA WriteOrds ==
    ASSUME IInv, OrdsPast, NEW w \in Writers, IsWrite(w), NEW e \in Rev, NEW c \in Seq(Rev),
           NEW p \in Seq(Rev), NEW gone \in SUBSET Keys, Written(w, e, c, p, gone), NEW k, k = req[w].key
    PROVE  OrdsPast'
<1> DEFINE Past(r) == r.ord < nextOrd' /\ r.epoch <= epoch' /\ (~r.tomb => r.ord > 0)
<1>1. /\ req[w] \in Requests /\ k \in Keys /\ req[w] # NoReq
      /\ entries[k] \in Seq(Rev) /\ pending[k] \in Seq(Rev)
  BY AboutToWrite DEF Requests, NoReq
<1>2. /\ nextOrd' = nextOrd /\ ops' = ops /\ req'[w] = NoReq
      /\ \A v \in Writers : v # w => req'[v] = req[v]
  BY WriteRests
<1>3. epoch \in Nat /\ nextOrd \in Nat /\ epoch' \in {epoch, epoch + 1}
      /\ entries \in [Keys -> Seq(Rev)] /\ pending \in [Keys -> Seq(Rev)]
  BY DEF Written, IInv, TypeOK
<1>4. ~Keeps(k, c, p) => Past(e)
  <2>1. ~Keeps(k, c, p) => epoch' = epoch + 1
    BY DEF Written, Asks
  <2>2. e.epoch = epoch + 1 /\ (e.ord = req[w].ord \/ (e.ord = 0 /\ e.tomb))
        /\ (~e.tomb => req[w].op \in {"put", "move"} /\ e.ord = req[w].ord)
    BY DEF Written, Author, Rev
  <2>3. req[w].ord < nextOrd /\ 0 < nextOrd /\ (req[w].op \in {"put", "move"} => req[w].ord > 0)
    BY <1>1 DEF OrdsPast
  <2> QED BY <1>2, <1>3, <2>1, <2>2, <2>3
<1>5. ASSUME NEW j \in Keys
      PROVE  /\ \A i \in DOMAIN entries[j] : Past(entries[j][i])
             /\ \A i \in DOMAIN pending[j] : Past(pending[j][i])
  <2>1. RevsPast(entries[j]) /\ RevsPast(pending[j])
    BY DEF OrdsPast
  <2>2. \A i \in DOMAIN entries[j] : entries[j][i].epoch \in Nat
    BY <1>3, ChainLength DEF Rev
  <2>3. \A i \in DOMAIN pending[j] : pending[j][i].epoch \in Nat
    BY <1>3, ChainLength DEF Rev
  <2> QED BY <1>2, <1>3, <2>1, <2>2, <2>3 DEF RevsPast
<1> HIDE DEF Past
<1>6. (\A i \in DOMAIN c : Past(c[i])) /\ (\A i \in DOMAIN p : Past(p[i]))
  <2>1. CASE Keeps(k, c, p)
    BY <1>1, <1>5, <2>1 DEF Keeps
  <2>2. CASE ~Keeps(k, c, p)
    <3>1. \A i \in DOMAIN <<e>> : Past(<<e>>[i])
      BY <1>4, <2>2, OneRev
    <3>2. ASSUME NEW i \in DOMAIN Push(e, entries[k]) PROVE Past(Push(e, entries[k])[i])
      <4>1. \/ Push(e, entries[k])[i] = e
            \/ i - 1 \in DOMAIN entries[k] /\ Push(e, entries[k])[i] = entries[k][i - 1]
        BY <1>1, PushedLength, PushedAt
      <4> QED BY <1>1, <1>4, <1>5, <2>2, <4>1
    <3> QED BY <1>1, <1>5, <2>2, <3>1, <3>2 DEF Written, Shape
  <2> QED BY <2>1, <2>2
<1>7. ASSUME NEW j \in Keys
      PROVE  /\ \A i \in DOMAIN entries'[j] : Past(entries'[j][i])
             /\ \A i \in DOMAIN pending'[j] : Past(pending'[j][i])
  <2>1. /\ entries'[j] = IF j \in gone THEN <<>> ELSE IF j = k THEN c ELSE entries[j]
        /\ pending'[j] = IF j = k THEN p ELSE pending[j]
    BY TablesAt DEF Written
  <2>2. DOMAIN <<>> = {}
    OBVIOUS
  <2> QED BY <1>5, <1>6, <2>1, <2>2
<1> QED BY <1>2, <1>7 DEF OrdsPast, RevsPast, Past

LEMMA WriteChains ==
    ASSUME IInv, OrdsPast, ChainsStand, NEW w \in Writers, IsWrite(w), NEW e \in Rev,
           NEW c \in Seq(Rev), NEW p \in Seq(Rev), NEW gone \in SUBSET Keys,
           Written(w, e, c, p, gone), NEW k, k = req[w].key
    PROVE  ChainsStand'
<1>1. /\ k \in Keys /\ entries[k] \in Seq(Rev) /\ (foldSeen[w] <=> keyfolders > 0)
  BY AboutToWrite
<1>2. /\ keyfolders' = keyfolders /\ \A f \in Folders : pc[f] \notin Moving /\ pc[f] # "collapse"
  BY WriteRests DEF Inside, Moving
<1>3. \A j \in Keys : Descending(entries[j]) /\ (Multi(entries[j]) => keyfolders > 0)
  BY <1>2 DEF ChainsStand
<1>4. Descending(c) /\ (Multi(c) => keyfolders > 0)
  <2>1. CASE c = entries[k]
    BY <1>1, <1>3, <2>1
  <2>2. CASE c = <<e>>
    BY <2>2, OneRev DEF Descending, Multi
  <2>3. CASE c = Push(e, entries[k]) /\ (foldSeen[w] \/ Multi(entries[k]))
    <3>0. /\ c[1] = e
          /\ \A i \in DOMAIN c : i = 1 \/ (i - 1 \in DOMAIN entries[k] /\ c[i] = entries[k][i - 1])
      BY <1>1, <2>3, PushedLength, PushedAt
    <3>1. /\ e.epoch = epoch + 1 /\ epoch \in Nat
          /\ DOMAIN c \subseteq Nat /\ \A i \in DOMAIN entries[k] : entries[k][i] \in Rev
      BY <1>1, ChainLength DEF Written, Author, IInv, TypeOK
    <3>2. \A i \in DOMAIN entries[k] : entries[k][i].epoch \in Nat /\ entries[k][i].epoch <= epoch
      BY <1>1, <3>1 DEF OrdsPast, RevsPast, Rev
    <3>3. ASSUME NEW i \in DOMAIN c, NEW j \in DOMAIN c, i < j PROVE c[i].epoch > c[j].epoch
      <4>1. j # 1 /\ j - 1 \in DOMAIN entries[k] /\ c[j] = entries[k][j - 1] /\ i \in Nat /\ j \in Nat
        BY <1>1, <3>0, <3>1, <3>3, ChainLength
      <4>2. CASE i = 1
        BY <3>0, <3>1, <3>2, <4>1, <4>2
      <4>3. CASE i # 1
        <5>1. i - 1 \in DOMAIN entries[k] /\ c[i] = entries[k][i - 1] /\ i - 1 < j - 1
          BY <3>0, <3>1, <3>3, <4>1, <4>3
        <5> QED BY <1>1, <1>3, <4>1, <5>1 DEF Descending
      <4> QED BY <4>2, <4>3
    <3> QED BY <1>1, <1>3, <2>3, <3>3 DEF Descending
  <2> QED BY <2>1, <2>2, <2>3 DEF Written, Shape, Keeps
<1>5. Descending(<<>>) /\ ~Multi(<<>>)
  BY DEF Descending, Multi
<1>6. \A j \in Keys : Descending(entries'[j]) /\ (Multi(entries'[j]) => keyfolders > 0)
  <2> SUFFICES ASSUME NEW j \in Keys
               PROVE  Descending(entries'[j]) /\ (Multi(entries'[j]) => keyfolders > 0)
    OBVIOUS
  <2>1. entries'[j] = IF j \in gone THEN <<>> ELSE IF j = k THEN c ELSE entries[j]
    BY TablesAt DEF Written
  <2> QED BY <1>3, <1>4, <1>5, <2>1
<1> QED BY <1>2, <1>6 DEF ChainsStand, Descending, Multi

LEMMA WritePending ==
    ASSUME IInv, PendingMoved, NEW w \in Writers, IsWrite(w)
    PROVE  PendingMoved'
<1>1. \A f \in Folders : pc'[f] # "applying" /\ pc'[f] # "clear"
  BY WriteRests DEF Inside
<1> QED BY <1>1 DEF PendingMoved

LEMMA FoldsAreCounted ==
    ASSUME IInv
    PROVE  keyfolders > 0 <=> \E f \in Folders : phase[f] # "none"
<1> DEFINE S == {f \in Folders : phase[f] # "none"}
<1>1. IsFiniteSet(S) /\ keyfolders = Cardinality(S) /\ Cardinality(S) \in Nat
  BY FS_Subset, FS_CardinalityType, ConstantsOK DEF IInv, FoldsCounted
<1>2. Cardinality(S) = 0 <=> S = {}
  BY <1>1, FS_EmptySet
<1> QED BY <1>1, <1>2

\* No write disturbs what a running fold will see of any key.
LEMMA WriteKeepsViews ==
    ASSUME IInv, ViewsStand, NEW w \in Writers, IsWrite(w), NEW e \in Rev,
           NEW c \in Seq(Rev), NEW p \in Seq(Rev), NEW gone \in SUBSET Keys,
           Written(w, e, c, p, gone), NEW k, k = req[w].key, NEW f \in Folders, phase[f] # "none", NEW j \in Keys
    PROVE  ViewOf(f, j)' = ViewOf(f, j)
<1> DEFINE i == iterEpoch[f]
<1>1. /\ k \in Keys /\ entries[k] \in Seq(Rev) /\ (foldSeen[w] <=> keyfolders > 0)
  BY AboutToWrite
<1>2. foldSeen[w]
  BY <1>1, FoldsAreCounted
<1>3. entries'[j] = IF j = k THEN c ELSE entries[j]
  BY <1>2, TablesAt DEF Written
<1>4. iterEpoch'[f] = i /\ i \in Nat /\ i <= epoch /\ epoch \in Nat
  BY WriteRests DEF ViewsStand, IInv, TypeOK
<1>5. e.epoch = epoch + 1 /\ e.epoch > i
  BY <1>4 DEF Written, Author
<1> HIDE DEF i
<1>6. AtEpoch(<<e>>, i) = <<>> /\ AtEpoch(<<>>, i) = <<>>
  <2>1. \A m \in DOMAIN <<e>> : ~(<<e>>[m].epoch <= i)
    BY <1>4, <1>5, OneRev
  <2>2. DOMAIN <<>> = {}
    OBVIOUS
  <2> QED BY <2>1, <2>2, AtEpochNone
<1>7. \/ AtEpoch(c, i) = AtEpoch(entries[k], i)
      \/ Dead(AtEpoch(c, i)) /\ Dead(AtEpoch(entries[k], i))
  <2>1. CASE c = entries[k]
    BY <2>1
  <2>2. CASE c = Push(e, entries[k])
    BY <1>1, <1>4, <1>5, <2>2, AtEpochPush
  <2>3. CASE c = <<e>> /\ entries[k] = <<>>
    BY <1>6, <2>3
  <2>4. CASE c = <<e>> /\ LoneTomb(entries[k])
    <3>1. AtEpoch(entries[k], i) \in {<<>>, <<entries[k][1]>>} /\ entries[k][1].tomb
      BY <1>1, <1>4, <2>4, AtEpochSingle DEF LoneTomb
    <3> QED BY <1>6, <2>4, <3>1 DEF Dead
  <2> QED BY <1>2, <2>1, <2>2, <2>3, <2>4 DEF Written, Shape, Keeps
<1>8. \/ AtEpoch(entries'[j], i) = AtEpoch(entries[j], i)
      \/ Dead(AtEpoch(entries'[j], i)) /\ Dead(AtEpoch(entries[j], i))
  BY <1>3, <1>7
<1> QED BY <1>4, <1>8 DEF ViewOf, i

LEMMA WriteViews ==
    ASSUME IInv, ViewsStand, NEW w \in Writers, IsWrite(w), NEW e \in Rev,
           NEW c \in Seq(Rev), NEW p \in Seq(Rev), NEW gone \in SUBSET Keys,
           Written(w, e, c, p, gone), NEW k, k = req[w].key
    PROVE  ViewsStand'
<1>1. UNCHANGED <<phase, snap, iterEpoch>>
  BY WriteRests DEF Written, Watched
<1>2. epoch' >= epoch /\ epoch \in Nat /\ epoch' \in Nat /\ iterEpoch \in [Folders -> Nat]
  BY DEF Written, IInv, TypeOK
<1>3. \A f \in Folders : phase[f] # "none" => iterEpoch[f] <= epoch'
  BY <1>2 DEF ViewsStand
<1>4. \A f \in Folders, j \in Keys : phase[f] # "none" => snap[f][j] = ViewOf(f, j)'
  BY WriteKeepsViews DEF ViewsStand
<1> QED BY <1>1, <1>3, <1>4 DEF ViewsStand

LEMMA WriteHands ==
    ASSUME IInv, FoldsHandOut, NEW w \in Writers, IsWrite(w), UNCHANGED <<phase, snap, out>>
    PROVE  FoldsHandOut'
  BY WriteRests DEF FoldsHandOut

LEMMA WriteBase ==
    ASSUME IInv, BaseStays, NEW w \in Writers, IsWrite(w), UNCHANGED base
    PROVE  BaseStays'
<1>1. keyfolders' = keyfolders
  BY WriteRests
<1>2. keyfolders > 0 => KeysStay
  BY WriterKeepsKeys DEF IsWrite
<1> QED BY <1>1, <1>2 DEF BaseStays, KeysStay

LEMMA WriteGets ==
    ASSUME IInv, OrdsPast, OrdsPast', TypeOK', GetsWatch, NEW w \in Writers, IsWrite(w),
           NEW e \in Rev, NEW c \in Seq(Rev), NEW p \in Seq(Rev), NEW gone \in SUBSET Keys,
           Written(w, e, c, p, gone), NEW k, k = req[w].key
    PROVE  GetsWatch'
<1>1. asked' = asked /\ \A r \in Readers : pc'[r] = pc[r]
  BY WriteRests DEF Written, Watched
<1>2. k \in Keys /\ pc[w] = "apply" /\ asked \in [Readers -> Keys \cup {NoKey}] /\ NoKey \notin Keys
  BY AboutToWrite, ConstantsOK DEF IInv, TypeOK
<1>3. ASSUME NEW j \in Keys, j # k PROVE Current(j)' = Current(j)
  <2>1. HeadKept(j)
    BY <1>3, WriteHeads DEF HeadKept, Dead
  <2> QED BY <2>1, HeadTells
<1>4. \/ Observe(k)
      \/ UNCHANGED window /\ Current(k)' = Current(k)
  <2>1. CASE Keeps(k, c, p)
    <3>1. HeadKept(k)
      BY <2>1, WriteHeads
    <3> QED BY <1>2, <2>1, <3>1, HeadTells DEF Written, Watched
  <2>2. CASE Dead(Chain(k)) /\ Dead(Newer(c, p))
    <3>1. Dead(Chain(k))'
      BY <2>2, WriteHeads
    <3>2. Current(k)' = Absent /\ Current(k) = Absent
      BY <2>2, <3>1, <1>2 DEF Current, ValueIn, Chain, Dead
    <3> QED BY <2>2, <3>2 DEF Written, Watched
  <2> QED BY <2>1, <2>2 DEF Written, Watched
<1>5. ASSUME NEW r \in Readers
      PROVE  /\ window[r] \subseteq window'[r]
             /\ asked[r] = k => Current(k)' \in window'[r] \/ Current(k)' = Current(k)
  <2>1. CASE Observe(k)
    <3>1. window'[r] = IF asked[r] = k THEN window[r] \cup {Current(k)'} ELSE window[r]
      BY <2>1 DEF Observe, Current
    <3> QED BY <3>1
  <2>2. CASE UNCHANGED window /\ Current(k)' = Current(k)
    BY <2>2
  <2> QED BY <1>4, <2>1, <2>2
<1>6. ASSUME NEW r \in Readers, NEW j, j = asked[r], j # NoKey
      PROVE  Current(j)' \in window'[r]
  <2>1. j \in Keys /\ Current(j) \in window[r]
    BY <1>2, <1>6 DEF GetsWatch
  <2> QED BY <1>3, <1>5, <1>6, <2>1
<1>7. ASSUME NEW r \in Readers, pc[r] = "optimistic", entries'[asked[r]] = <<>>
      PROVE  Absent \in window'[r]
  <2>1. asked[r] \in Keys
    BY <1>7 DEF IInv, LockInv, CallsHaveArguments
  <2>2. CASE entries[asked[r]] = <<>>
    BY <1>5, <1>7, <2>2 DEF GetsWatch
  <2>3. CASE entries[asked[r]] # <<>> /\ asked[r] # k
    <3>1. LoneTomb(entries[asked[r]])
      BY <1>7, <2>1, <2>3, TablesAt DEF Written
    <3>2. Current(asked[r]) = Absent
      BY <2>3, <3>1 DEF LoneTomb, Current, ValueIn, ChainIn
    <3>3. Current(asked[r]) \in window[r]
      BY <1>2, <2>1 DEF GetsWatch
    <3> QED BY <1>5, <3>2, <3>3
  <2>4. CASE entries[asked[r]] # <<>> /\ asked[r] = k
    <3>1. pending[k] = <<>> /\ entries[k] \in Seq(Rev)
      BY <2>4, AboutToWrite
    <3>2. c # <<>> /\ p = <<>>
      <4>1. Push(e, entries[k]) # <<>> /\ <<e>> # <<>>
        BY <3>1, PushedLength, OneRev
      <4> QED BY <2>4, <3>1, <4>1 DEF Written, Shape, Keeps
    <3>3. entries'[k] = <<>> /\ pending'[k] = <<>>
      BY <1>2, <1>7, <2>4, <3>2, TablesAt DEF Written
    <3>4. Current(k)' = Absent
      BY <3>3 DEF Current, ValueIn, ChainIn
    <3>5. Current(k)' \in window'[r]
      BY <1>2, <1>6, <2>4
    <3> QED BY <3>4, <3>5
  <2> QED BY <2>2, <2>3, <2>4
<1>8. ASSUME NEW r \in Readers, pc[r] = "meta shared"
      PROVE  entries'[asked[r]] = <<>>
  <2>1. asked[r] \in Keys /\ shardOwner[ShardOf[asked[r]]] = r /\ entries[asked[r]] = <<>>
    BY <1>8 DEF IInv, LockInv, CallsHaveArguments, ShardsHeld, GetsWatch
  <2>2. shardOwner[ShardOf[k]] = w /\ r # w
    BY <1>2, Kinds DEF IInv, LockInv, ShardsHeld, PastGate
  <2> QED BY <2>1, <2>2, TablesAt DEF Written
<1>9. ASSUME NEW r \in Readers, asked[r] # NoKey
      PROVE  ValueIn(entries', pending', asked[r]) \in window'[r]
  BY <1>6, <1>9 DEF Current
<1> QED BY <1>1, <1>7, <1>8, <1>9 DEF GetsWatch, Current

LEMMA WriteMoves ==
    ASSUME IInv, MovesApart, NEW w \in Writers, IsWrite(w), NEW e \in Rev,
           NEW c \in Seq(Rev), NEW p \in Seq(Rev), NEW gone \in SUBSET Keys,
           Written(w, e, c, p, gone), NEW k, k = req[w].key, biggest' \in Files
    PROVE  MovesApart'
<1>1. /\ k \in Keys /\ req[w] \in Requests /\ entries[k] \in Seq(Rev) /\ pending[k] \in Seq(Rev)
      /\ entries[k] = <<>> => Chain(k) = pending[k]
  BY AboutToWrite DEF Chain, ChainIn
<1>2. /\ mergeFiles' = mergeFiles /\ req'[w] = NoReq
      /\ \A v \in Writers : v # w => req'[v] = req[v]
  BY WriteRests
<1>3. /\ biggest' >= biggest /\ biggest \in Nat /\ biggest' \in Nat /\ mergeFiles \subseteq Files
      /\ Files \subseteq Nat /\ 0 \notin Files
  BY DEF Written, IInv, TypeOK, Files
<1>4. /\ \A g \in mergeFiles : g <= biggest'
      /\ (1..biggest) \subseteq (1..biggest')
  <2>1. \A g \in mergeFiles : g <= biggest /\ g \in Nat
    BY <1>3 DEF MovesApart
  <2> QED BY <1>3, <2>1
<1>5. ASSUME NEW v \in Writers, v # w, req[v].op = "move", NEW j, j = req[v].key,
             Chain(j)' # <<>>
      PROVE  Chain(j)'[1].file # req[v].file
  <2>1. req[v] \in Requests /\ j \in Keys
    <3>1. req[v] \in Requests \cup {NoReq}
      BY DEF IInv, TypeOK
    <3>2. req[v] # NoReq
      BY <1>5 DEF NoReq
    <3> QED BY <1>5, <3>1, <3>2 DEF Requests
  <2>2. req[v].file \in mergeFiles /\ req[w].op # "move"
        /\ (Chain(j) # <<>> => Chain(j)[1].file # req[v].file)
    BY <1>5 DEF MovesApart
  <2>3. CASE j # k
    BY <1>5, <2>1, <2>2, <2>3, WriteHeads
  <2>4. CASE j = k
    <3>1. CASE Keeps(k, c, p)
      BY <1>5, <2>2, <2>4, <3>1, WriteHeads DEF HeadKept
    <3>2. CASE ~Keeps(k, c, p)
      <4>1. Chain(k)'[1] = e
        BY <1>5, <2>4, <3>2, WriteHeads
      <4>2. CASE e.tomb
        <5>1. e.file = 0 \/ (Chain(k) # <<>> /\ e.file = Chain(k)[1].file)
          BY <1>1, <4>2 DEF Written, Author
        <5> QED BY <1>3, <2>2, <2>4, <4>1, <5>1
      <4>3. CASE ~e.tomb
        <5>1. req[w].op = "put" /\ e.file = req[w].file
          BY <2>2, <4>3 DEF Written, Author
        <5>2. req[w].file \notin mergeFiles
          BY <5>1 DEF MovesApart
        <5> QED BY <2>2, <2>4, <4>1, <5>1, <5>2
      <4> QED BY <4>2, <4>3
    <3> QED BY <3>1, <3>2
  <2> QED BY <2>3, <2>4
<1>6. NoReq.op # "put" /\ NoReq.op # "move"
  BY DEF NoReq
<1>7. ASSUME NEW v \in Writers
      PROVE  /\ req'[v].op = "put" => req'[v].file \in (1..biggest') \ mergeFiles
             /\ req'[v].op = "move" =>
                   /\ req'[v].file \in mergeFiles
                   /\ \A u \in Writers : req'[u].op = "move" => u = v
                   /\ LET c2 == ChainIn(entries', pending', req'[v].key)
                      IN c2 # <<>> => c2[1].file # req'[v].file
  <2>1. CASE v = w
    BY <1>2, <1>6, <2>1
  <2>2. CASE v # w
    <3>1. req'[v] = req[v]
      BY <1>2, <2>2
    <3>2. /\ req[v].op = "put" => req[v].file \in (1..biggest) \ mergeFiles
          /\ req[v].op = "move" => /\ req[v].file \in mergeFiles
                                   /\ \A u \in Writers : req[u].op = "move" => u = v
      BY DEF MovesApart
    <3>3. \A u \in Writers : req'[u].op = "move" => req[u].op = "move"
      BY <1>2, <1>6
    <3>4. req[v].op = "move" =>
             LET c2 == ChainIn(entries', pending', req[v].key)
             IN c2 # <<>> => c2[1].file # req[v].file
      BY <1>5, <2>2 DEF Chain
    <3> QED BY <1>4, <3>1, <3>2, <3>3, <3>4
  <2> QED BY <2>1, <2>2
<1> QED BY <1>2, <1>4, <1>7 DEF MovesApart, Chain

LEMMA WriteCounts ==
    ASSUME IInv, CountsHold, NEW w \in Writers, IsWrite(w), NEW e \in Rev,
           NEW c \in Seq(Rev), NEW p \in Seq(Rev), NEW gone \in SUBSET Keys,
           Written(w, e, c, p, gone), NEW k, k = req[w].key
    PROVE  CountsHold'
<1> DEFINE s0 == ShardOf[k]
           en == [entries EXCEPT ![k] = c]
<1>1. k \in Keys /\ s0 \in Shards /\ req[w] \in Requests
      /\ entries \in [Keys -> Seq(Rev)]
  BY AboutToWrite DEF IInv, TypeOK
<1>2. \A j \in Keys \ {k} : /\ Dead(Chain(j))' <=> Dead(Chain(j))
                            /\ \A f : LivesIn(Chain(j), f)' <=> LivesIn(Chain(j), f)
  <2> SUFFICES ASSUME NEW j \in Keys \ {k}
               PROVE  /\ Dead(Chain(j))' <=> Dead(Chain(j))
                      /\ \A f : LivesIn(Chain(j), f)' <=> LivesIn(Chain(j), f)
    OBVIOUS
  <2>1. HeadKept(j)
    BY WriteHeads DEF HeadKept, Dead
  <2> QED BY <2>1, HeadTells
<1>3. /\ Dead(Chain(k))' <=> Dead(Newer(c, p))
      /\ \A f : LivesIn(Chain(k), f)' <=> LivesIn(Newer(c, p), f)
  BY WriteHeads
<1>4. keyCount' = Cardinality(LiveKeys)'
  <2> DEFINE S == LiveKeys
             T == LiveKeys'
  <2>1. S \in SUBSET Keys /\ T \in SUBSET Keys
    BY DEF LiveKeys
  <2>2. OffBy(S, T, k)
    BY <1>1, <1>2, <2>1 DEF LiveKeys, OffBy
  <2>3. (k \in S <=> ~Dead(Chain(k))) /\ (k \in T <=> ~Dead(Newer(c, p)))
    BY <1>1, <1>3 DEF LiveKeys
  <2>4. keyCount' = keyCount + (IF Dead(Chain(k)) /\ ~Dead(Newer(c, p)) THEN 1
                                ELSE IF ~Dead(Chain(k)) /\ Dead(Newer(c, p)) THEN -1 ELSE 0)
    BY DEF Written, CountsMove
  <2>5. keyCount = Cardinality(S)
    BY DEF CountsHold
  <2> HIDE DEF S, T
  <2>6. Cardinality(T) = Cardinality(S) + (IF k \in T THEN 1 ELSE 0) - (IF k \in S THEN 1 ELSE 0)
    BY <2>2, CountOff
  <2>7. Cardinality(S) \in Nat
    BY <2>1, KeySets
  <2>8. keyCount' = Cardinality(T)
    BY <2>3, <2>4, <2>5, <2>6, <2>7
  <2> QED BY <2>8 DEF T
<1>5. ASSUME NEW f \in Files PROVE live'[f] = Cardinality(LiveIn(f))'
  <2> DEFINE S == LiveIn(f)
             T == LiveIn(f)'
  <2>1. S \in SUBSET Keys /\ T \in SUBSET Keys
    BY DEF LiveIn
  <2>2. OffBy(S, T, k)
    BY <1>1, <1>2, <2>1 DEF LiveIn, OffBy
  <2>3. (k \in S <=> LivesIn(Chain(k), f)) /\ (k \in T <=> LivesIn(Newer(c, p), f))
    BY <1>1, <1>3 DEF LiveIn
  <2>4. live'[f] = live[f] + (IF LivesIn(Newer(c, p), f) THEN 1 ELSE 0)
                           - (IF LivesIn(Chain(k), f) THEN 1 ELSE 0)
    BY DEF Written, CountsMove
  <2>5. live[f] = Cardinality(S)
    BY DEF CountsHold
  <2> HIDE DEF S, T
  <2>6. Cardinality(T) = Cardinality(S) + (IF k \in T THEN 1 ELSE 0) - (IF k \in S THEN 1 ELSE 0)
    BY <2>2, CountOff
  <2>7. Cardinality(S) \in Nat
    BY <2>1, KeySets
  <2>8. live'[f] = Cardinality(T)
    BY <2>3, <2>4, <2>5, <2>6, <2>7
  <2> QED BY <2>8 DEF T
<1>6. /\ \A j \in Keys : en[j] = IF j = k THEN c ELSE entries[j]
      /\ entries' = [j \in Keys |-> IF j \in gone THEN <<>> ELSE en[j]]
      /\ gone \subseteq Sweepable(en, s0)
  BY <1>1 DEF Written, Tables
<1> HIDE DEF en
<1>7. \A j \in Keys, s \in Shards :
         /\ j \in Sweepable(entries, s) <=> ShardOf[j] = s /\ LoneTomb(entries[j])
         /\ j \in Sweepable(en, s) <=> ShardOf[j] = s /\ LoneTomb(en[j])
         /\ j \in Sweepable(entries', s) <=> ShardOf[j] = s /\ LoneTomb(entries'[j])
  BY DEF Sweepable, LoneTomb
<1>8. \A x, s : Sweepable(x, s) \in SUBSET Keys
  BY DEF Sweepable
<1>9. ASSUME NEW s \in Shards
      PROVE  TombsAfter(w, c, s) = Cardinality(Sweepable(en, s))
  <2> DEFINE S == Sweepable(entries, s)
             T == Sweepable(en, s)
  <2>1. S \in SUBSET Keys /\ T \in SUBSET Keys
    BY <1>8
  <2>2. OffBy(S, T, k)
    BY <1>1, <1>6, <1>7, <2>1 DEF OffBy
  <2>0. en[k] = c
    BY <1>1, <1>6
  <2>3. /\ k \in S <=> s = s0 /\ LoneTomb(entries[k])
        /\ k \in T <=> s = s0 /\ LoneTomb(c)
    BY <1>1, <1>7, <2>0
  <2>4. tombstones[s] = Cardinality(S)
    BY DEF CountsHold
  <2> HIDE DEF S, T
  <2>5. Cardinality(T) = Cardinality(S) + (IF k \in T THEN 1 ELSE 0) - (IF k \in S THEN 1 ELSE 0)
    BY <2>2, CountOff
  <2>6. Cardinality(S) \in Nat /\ IsFiniteSet(S) /\ (Cardinality(S) = 0 <=> S = {})
    BY <2>1, KeySets, FS_EmptySet
  <2>7. k \in S => tombstones[s] > 0
    BY <2>4, <2>6
  <2>8. TombsAfter(w, c, s) = Cardinality(T)
    BY <2>3, <2>4, <2>5, <2>6, <2>7 DEF TombsAfter
  <2> QED BY <2>8 DEF T
<1>10. ASSUME NEW s \in Shards PROVE tombstones'[s] = Cardinality(Sweepable(entries', s))
  <2> DEFINE T == Sweepable(en, s)
             U == Sweepable(entries', s)
  <2>1. ~LoneTomb(<<>>)
    BY DEF LoneTomb, Single
  <2>2. \A j \in Keys : entries'[j] = IF j \in gone THEN <<>> ELSE en[j]
    BY <1>6
  <2>3. U = T \ gone
    BY <1>7, <1>8, <2>1, <2>2
  <2>4. /\ s = s0 => T \cap gone = gone
        /\ s # s0 => T \cap gone = {}
    <3>1. \A j \in gone : j \in Keys /\ j \in Sweepable(en, s0)
      BY <1>6
    <3>2. \A j \in gone : ShardOf[j] = s0
      BY <1>1, <1>7, <3>1
    <3>3. \A j \in T : ShardOf[j] = s
      BY <1>7, <1>8
    <3> QED BY <3>1, <3>2, <3>3
  <2>5. IsFiniteSet(T) /\ Cardinality(T) \in Nat /\ Cardinality({}) = 0
    BY <1>8, KeySets, FS_EmptySet
  <2>6. tombstones'[s] = IF s = s0 THEN Cardinality(T) - Cardinality(gone) ELSE Cardinality(T)
    BY <1>9 DEF Written, TombsMove
  <2> HIDE DEF T, U
  <2>7. Cardinality(U) = Cardinality(T) - Cardinality(T \cap gone)
    BY <2>3, <2>5, FS_Difference
  <2>8. tombstones'[s] = Cardinality(U)
    <3>1. CASE s = s0
      BY <2>4, <2>6, <2>7, <3>1
    <3>2. CASE s # s0
      <4>1. Cardinality(T \cap gone) = 0
        BY <2>4, <2>5, <3>2
      <4> QED BY <2>5, <2>6, <2>7, <3>2, <4>1
    <3> QED BY <3>1, <3>2
  <2> QED BY <2>8 DEF U
<1> QED BY <1>4, <1>5, <1>10 DEF CountsHold

\* Every write keeps the whole invariant.
LEMMA WriteFullInv ==
    ASSUME FullInv, IInv', NEW w \in Writers, IsWrite(w)
    PROVE  FullInv'
<1>1. PICK e \in Rev, c \in Seq(Rev), p \in Seq(Rev), gone \in SUBSET Keys :
         Written(w, e, c, p, gone)
  BY EveryWriteIsDone DEF FullInv, Done
<1>2. PICK k : k = req[w].key
  OBVIOUS
<1>3. biggest' \in Files /\ TypeOK'
  BY DEF IInv, TypeOK
<1>4. OrdsPast'
  BY <1>1, <1>2, WriteOrds DEF FullInv, MapInv
<1>5. ChainsStand' /\ PendingMoved'
  BY <1>1, <1>2, WriteChains, WritePending DEF FullInv, MapInv
<1>6. ViewsStand'
  BY <1>1, <1>2, WriteViews DEF FullInv, MapInv
<1>7. UNCHANGED <<phase, snap, out, base>>
  BY <1>1 DEF Written, Watched
<1>8. FoldsHandOut' /\ BaseStays'
  BY <1>7, WriteHands, WriteBase DEF FullInv, MapInv
<1>9. GetsWatch'
  BY <1>1, <1>2, <1>3, <1>4, WriteGets DEF FullInv, MapInv
<1>10. MovesApart'
  BY <1>1, <1>2, <1>3, WriteMoves DEF FullInv, MapInv
<1>11. CountsHold'
  BY <1>1, <1>2, WriteCounts DEF FullInv
<1>12. SeenTables'
  <2>1. \/ UNCHANGED window
        \/ \E g : window' = [r \in Readers |-> g[r]]
    <3>1. CASE Observe(k)
      <4> DEFINE g == [r \in Readers |-> IF asked[r] = k
                         THEN window[r] \cup {ValueIn(entries', pending', k)} ELSE window[r]]
      <4>1. window' = [r \in Readers |-> g[r]]
        BY <3>1 DEF Observe
      <4> QED BY <4>1
    <3> QED BY <1>1, <1>2, <3>1 DEF Written, Watched
  <2> QED BY <1>7, <2>1 DEF FullInv, MapInv, SeenTables
<1> QED BY <1>4, <1>5, <1>6, <1>8, <1>9, <1>10, <1>11, <1>12 DEF FullInv, MapInv

-----------------------------------------------------------------------------
(* Steps that leave the tables alone.                                      *)

Quiet == UNCHANGED <<entries, pending, keyfolders, tombstones, epoch, keyCount, live>>

\* No folder comes to, leaves or moves on in the part of release that writes.
MovingOn == Moving \cup {"collapse"}
FoldersCalm ==
    \A f \in Folders : \/ UNCHANGED <<pc[f], at[f], todo[f]>>
                       \/ pc[f] \notin MovingOn /\ pc'[f] \notin MovingOn

\* What a quiet step cannot disturb.
StillPart == ChainsStand /\ PendingMoved /\ BaseStays /\ CountsHold
LEMMA QuietKeeps ==
    ASSUME StillPart, Quiet, FoldersCalm, UNCHANGED base
    PROVE  StillPart'
<1>1. \A f \in Folders :
         /\ pc[f] \in Moving => pc'[f] \in Moving
         /\ pc[f] = "collapse" => pc'[f] = "collapse" /\ at'[f] = at[f]
         /\ pc'[f] = "applying" => pc[f] = "applying" /\ todo'[f] = todo[f]
         /\ pc'[f] = "clear" => pc[f] = "clear"
  BY DEF FoldersCalm, MovingOn, Moving
<1>2. ChainsStand'
  BY <1>1 DEF StillPart, ChainsStand, Quiet
<1>3. PendingMoved'
  BY <1>1 DEF StillPart, PendingMoved, MovedKey, Quiet
<1>4. BaseStays'
  BY DEF StillPart, BaseStays, Quiet
<1>5. CountsHold'
  BY DEF StillPart, CountsHold, Quiet, LiveKeys, LiveIn, Chain
<1> QED BY <1>2, <1>3, <1>4, <1>5 DEF StillPart

LEMMA QuietViews ==
    ASSUME ViewsStand, UNCHANGED <<entries, epoch, phase, snap, iterEpoch>>
    PROVE  ViewsStand'
  BY DEF ViewsStand, ViewOf

LEMMA QuietHands ==
    ASSUME FoldsHandOut, UNCHANGED <<phase, snap, out, todo, why>>,
           \A f \in Folders : pc'[f] = pc[f]
    PROVE  FoldsHandOut'
  BY DEF FoldsHandOut

LEMMA QuietGets ==
    ASSUME GetsWatch, UNCHANGED <<entries, pending, asked, window>>,
           \A r \in Readers : pc'[r] = pc[r]
    PROVE  GetsWatch'
  BY DEF GetsWatch, Current

LEMMA QuietMoves ==
    ASSUME MovesApart, UNCHANGED <<entries, pending, biggest, mergeFiles>>,
           \A w \in Writers : req'[w] \in {req[w], NoReq}
    PROVE  MovesApart'
<1>1. NoReq.op # "put" /\ NoReq.op # "move"
  BY DEF NoReq
<1>2. ASSUME NEW w \in Writers
      PROVE  /\ req'[w].op = "put" => req'[w].file \in (1..biggest) \ mergeFiles
             /\ req'[w].op = "move" =>
                   /\ req'[w].file \in mergeFiles
                   /\ \A v \in Writers : req'[v].op = "move" => v = w
                   /\ LET c == ChainIn(entries, pending, req'[w].key)
                      IN c # <<>> => c[1].file # req'[w].file
  <2>1. CASE req'[w] = NoReq
    BY <1>1, <2>1
  <2>2. CASE req'[w] = req[w]
    <3>1. \A v \in Writers : req'[v].op = "move" => req[v].op = "move"
      BY <1>1
    <3> QED BY <2>2, <3>1 DEF MovesApart, Chain
  <2> QED BY <2>1, <2>2
<1> QED BY <1>2 DEF MovesApart, Chain

LEMMA QuietOrds ==
    ASSUME OrdsPast, UNCHANGED <<entries, pending, epoch, nextOrd, ops>>,
           \A w \in Writers : req'[w] \in {req[w], NoReq}
    PROVE  OrdsPast'
  BY DEF OrdsPast, RevsPast

-----------------------------------------------------------------------------
(* Writers on their way, and the calls they begin.                         *)

LEMMA GateFullInv ==
    ASSUME FullInv, IInv', NEW w \in Writers,
           Lock(w) \/ Gate(w) \/ Wait(w) \/ Probe(w) \/ Meta(w) \/ Peek(w) \/ PeekMeta(w)
    PROVE  FullInv'
<1> USE DEF FullInv, MapInv
<1>1. /\ Quiet /\ UNCHANGED <<nextOrd, ops, mergeFiles, biggest, at, todo, why, iterEpoch>>
      /\ UNCHANGED <<asked, window, ret, phase, snap, out, base>>
  BY DEF Lock, Gate, Wait, Probe, Meta, Peek, PeekMeta, Quiet, data, stats, flocal, input, seen
<1>2. /\ \A f \in Folders : pc'[f] = pc[f]
      /\ \A r \in Readers : pc'[r] = pc[r]
  <2>1. pc' = pc \/ \E there : pc' = [pc EXCEPT ![w] = there]
    BY DEF Lock, Gate, Wait, Probe, Meta, Peek, PeekMeta, EndPeek, Goto
  <2>2. pc \in [Threads -> WriterPCs \cup ReaderPCs \cup FolderPCs]
    BY DEF IInv, TypeOK
  <2> QED BY <2>1, <2>2, Kinds
<1>3. \A v \in Writers : req'[v] \in {req[v], NoReq}
  BY DEF IInv, TypeOK, Lock, Gate, Wait, Probe, Meta, Peek, PeekMeta, EndPeek, wlocal
<1>4. StillPart'
  BY <1>1, <1>2, QuietKeeps DEF StillPart, FoldersCalm
<1>5. ViewsStand' /\ FoldsHandOut' /\ GetsWatch'
  BY <1>1, <1>2, QuietViews, QuietHands, QuietGets DEF Quiet
<1>6. MovesApart' /\ OrdsPast'
  BY <1>1, <1>3, QuietMoves, QuietOrds DEF Quiet
<1>7. SeenTables'
  BY <1>1 DEF SeenTables
<1> QED BY <1>4, <1>5, <1>6, <1>7 DEF StillPart

\* The call a writer begins, and what it asks for.
Begun(w, r) ==
    /\ r \in Requests /\ pc[w] = "idle" /\ ops' = ops + 1
    /\ req' = [req EXCEPT ![w] = r]
    /\ \E there \in {"lock", "peek"} : Goto(w, there)
    /\ \/ r.ord = nextOrd /\ nextOrd' = nextOrd + 1
       \/ /\ IsLive(r.key) /\ r.ord = Chain(r.key)[1].ord /\ nextOrd' = nextOrd
    /\ \/ r.op \in {"remove", "ttl"}
       \/ r.op = "put" /\ r.file \in (1..biggest) \ mergeFiles
       \/ /\ r.op = "move" /\ r.file \in mergeFiles
          /\ IsLive(r.key) /\ Chain(r.key)[1].file < r.file
          /\ \A v \in Writers : req[v] # NoReq => req[v].op # "move"
    /\ UNCHANGED <<data, keyfolders, stats, locks, foldSeen, flocal, seen, mergeFiles>>

LEMMA EveryCallBegun ==
    ASSUME TypeOK, NEW w \in Writers, NEW k \in Keys,
           BeginPut(w, k) \/ BeginRemove(w, k) \/ BeginMove(w, k) \/ BeginTtl(w, k)
    PROVE  \E r \in Requests : Begun(w, r)
<1>0. nextOrd \in Nat /\ biggest \in Files /\ Files \subseteq Nat /\ mergeFiles \subseteq Files
      /\ (1..biggest) \subseteq Files
  BY ConstantsOK DEF TypeOK, Files
<1>1. CASE BeginPut(w, k)
  <2>1. PICK f \in (1..biggest) \ mergeFiles :
           /\ Begin(w, [op |-> "put", key |-> k, file |-> f, ord |-> nextOrd, old |-> 0], "lock")
           /\ nextOrd' = nextOrd + 1 /\ UNCHANGED mergeFiles
    BY <1>1 DEF BeginPut
  <2>2. PICK r : r = [op |-> "put", key |-> k, file |-> f, ord |-> nextOrd, old |-> 0]
    OBVIOUS
  <2>3. r \in Requests /\ r.op = "put" /\ r.file = f /\ r.ord = nextOrd
    BY <1>0, <2>2 DEF Requests
  <2> QED BY <2>1, <2>2, <2>3 DEF Begun, Begin
<1>2. CASE BeginRemove(w, k)
  <2>1. PICK r : r = [op |-> "remove", key |-> k, file |-> 0, ord |-> nextOrd, old |-> 0]
    OBVIOUS
  <2>2. r \in Requests /\ r.op = "remove" /\ r.ord = nextOrd
    BY <1>0, <2>1 DEF Requests
  <2> QED BY <1>2, <2>1, <2>2 DEF Begun, Begin, BeginRemove
<1>3. CASE BeginMove(w, k)
  <2>1. PICK f \in mergeFiles :
           /\ f > Chain(k)[1].file
           /\ \A v \in Writers : req[v] # NoReq => req[v].op # "move"
           /\ Begin(w, [op |-> "move", key |-> k, file |-> f, ord |-> Chain(k)[1].ord,
                        old |-> Chain(k)[1].file], "lock")
    BY <1>3 DEF BeginMove
  <2>2. PICK r : r = [op |-> "move", key |-> k, file |-> f, ord |-> Chain(k)[1].ord,
                      old |-> Chain(k)[1].file]
    OBVIOUS
  <2>3. IsLive(k) /\ UNCHANGED <<nextOrd, mergeFiles>>
    BY <1>3 DEF BeginMove
  <2>4. r \in Requests /\ r.op = "move" /\ r.file = f /\ r.ord = Chain(k)[1].ord /\ r.key = k
    BY <1>0, <2>2, <2>3, TypeChain DEF Requests
  <2>5. Chain(k)[1].file < f
    BY <1>0, <2>1, <2>3, TypeChain
  <2> QED BY <2>1, <2>2, <2>3, <2>4, <2>5 DEF Begun, Begin
<1>4. CASE BeginTtl(w, k)
  <2>1. PICK r : r = [op |-> "ttl", key |-> k, file |-> 0, ord |-> Chain(k)[1].ord,
                      old |-> Chain(k)[1].file]
    OBVIOUS
  <2>2. IsLive(k) /\ UNCHANGED <<nextOrd, mergeFiles>> /\ Begin(w, r, "peek")
    BY <1>4, <2>1 DEF BeginTtl
  <2>3. r \in Requests /\ r.op = "ttl" /\ r.ord = Chain(k)[1].ord /\ r.key = k
    BY <2>1, <2>2, TypeChain DEF Requests
  <2> QED BY <2>2, <2>3 DEF Begun, Begin
<1> QED BY <1>1, <1>2, <1>3, <1>4

LEMMA BeginFullInv ==
    ASSUME FullInv, IInv', NEW w \in Writers, NEW r \in Requests, Begun(w, r)
    PROVE  FullInv'
<1> USE DEF FullInv, MapInv
<1>1. /\ Quiet /\ UNCHANGED <<mergeFiles, biggest, at, todo, why, iterEpoch>>
      /\ UNCHANGED <<asked, window, ret, phase, snap, out, base>>
  BY DEF Begun, Quiet, data, stats, flocal, seen
<1>2. /\ \A f \in Folders : pc'[f] = pc[f]
      /\ \A q \in Readers : pc'[q] = pc[q]
  <2>1. pc' = pc \/ \E there : pc' = [pc EXCEPT ![w] = there]
    BY DEF Begun, Goto
  <2>2. pc \in [Threads -> WriterPCs \cup ReaderPCs \cup FolderPCs]
    BY DEF IInv, TypeOK
  <2> QED BY <2>1, <2>2, Kinds
<1>3. req'[w] = r /\ \A v \in Writers : v # w => req'[v] = req[v]
  BY DEF IInv, TypeOK, Begun
<1>4. StillPart'
  BY <1>1, <1>2, QuietKeeps DEF StillPart, FoldersCalm
<1>5. ViewsStand' /\ FoldsHandOut' /\ GetsWatch'
  BY <1>1, <1>2, QuietViews, QuietHands, QuietGets DEF Quiet
<1>6. OrdsPast'
  <2>1. /\ nextOrd \in Nat /\ ops \in Nat /\ ops' = ops + 1 /\ nextOrd' \in {nextOrd, nextOrd + 1}
        /\ r.key \in Keys
    BY DEF IInv, TypeOK, Begun, Requests
  <2>2. IsLive(r.key) => /\ Chain(r.key)[1].ord \in Nat /\ Chain(r.key)[1].ord < nextOrd
                         /\ Chain(r.key)[1].ord > 0
    <3> SUFFICES ASSUME IsLive(r.key)
                 PROVE  /\ Chain(r.key)[1].ord \in Nat /\ Chain(r.key)[1].ord < nextOrd
                        /\ Chain(r.key)[1].ord > 0
      OBVIOUS
    <3>1. Current(r.key) = Chain(r.key)[1].ord /\ Current(r.key) # 0
          /\ Current(r.key) \in Nat /\ Current(r.key) < nextOrd
      BY <2>1, LiveIs DEF IInv, IsLive, Absent
    <3> QED BY <3>1
  <2>3. r.ord < nextOrd' /\ r.ord > 0
    BY <2>1, <2>2 DEF Begun, OrdsPast
  <2>4. nextOrd <= ops + 1 /\ 0 < nextOrd
    BY DEF OrdsPast
  <2>5. 0 < nextOrd' /\ nextOrd' <= ops' + 1
    BY <2>1, <2>4
  <2>6. ASSUME NEW j \in Keys PROVE RevsPast(entries[j])' /\ RevsPast(pending[j])'
    <3>1. RevsPast(entries[j]) /\ RevsPast(pending[j])
      BY DEF OrdsPast
    <3>2. /\ \A i \in DOMAIN entries[j] : entries[j][i] \in Rev
          /\ \A i \in DOMAIN pending[j] : pending[j][i] \in Rev
      BY ChainLength DEF IInv, TypeOK
    <3> QED BY <1>1, <2>1, <3>1, <3>2 DEF RevsPast, Quiet, Rev
  <2>7. ASSUME NEW v \in Writers, req'[v] # NoReq
        PROVE  /\ req'[v].ord < nextOrd'
               /\ req'[v].op \in {"put", "move"} => req'[v].ord > 0
    <3>1. CASE v = w
      BY <1>3, <2>3, <3>1
    <3>2. CASE v # w
      <4>1. req'[v] = req[v] /\ req[v] \in Requests
        BY <1>3, <2>7, <3>2 DEF IInv, TypeOK
      <4>2. req[v].ord < nextOrd /\ req[v].ord \in Nat
        BY <2>7, <4>1 DEF OrdsPast, Requests
      <4>3. req[v].op \in {"put", "move"} => req[v].ord > 0
        BY <2>7, <4>1 DEF OrdsPast
      <4> QED BY <2>1, <4>1, <4>2, <4>3
    <3> QED BY <3>1, <3>2
  <2> QED BY <2>5, <2>6, <2>7 DEF OrdsPast
<1>7. MovesApart'
  <2>0. r.op = "move" => \A v \in Writers : req[v].op # "move"
    BY DEF Begun, NoReq
  <2>1. ASSUME NEW v \in Writers
        PROVE  /\ req'[v].op = "put" => req'[v].file \in (1..biggest) \ mergeFiles
               /\ req'[v].op = "move" =>
                     /\ req'[v].file \in mergeFiles
                     /\ \A u \in Writers : req'[u].op = "move" => u = v
                     /\ LET c == ChainIn(entries, pending, req'[v].key)
                        IN c # <<>> => c[1].file # req'[v].file
    <3>1. CASE v = w
      <4>1. r.op = "move" => Chain(r.key)[1].file # r.file
        <5>1. r.op = "move" => Chain(r.key)[1].file \in Nat /\ Chain(r.key)[1].file < r.file
          BY TypeChain DEF Begun, IInv, Requests, Files
        <5>2. r.file \in Nat
          BY DEF Requests, Files
        <5> QED BY <5>1, <5>2
      <4>2. r.op = "put" => r.file \in (1..biggest) \ mergeFiles
        BY DEF Begun
      <4>3. r.op = "move" => r.file \in mergeFiles
        BY DEF Begun
      <4> QED BY <1>3, <2>0, <3>1, <4>1, <4>2, <4>3 DEF Chain
    <3>2. CASE v # w
      <4>1. req'[v] = req[v]
        BY <1>3, <3>2
      <4>2. req[v].op = "move" => \A u \in Writers : req'[u].op = "move" => u = v
        BY <1>3, <2>0 DEF MovesApart
      <4> QED BY <4>1, <4>2 DEF MovesApart, Chain
    <3> QED BY <3>1, <3>2
  <2> QED BY <1>1, <2>1 DEF MovesApart, Chain, Quiet
<1>8. SeenTables'
  BY <1>1 DEF SeenTables
<1> QED BY <1>4, <1>5, <1>6, <1>7, <1>8 DEF StillPart

-----------------------------------------------------------------------------
(* Readers.                                                                *)

\* What a get returns was the key's value at some moment of the call.
LEMMA ReaderAnswers ==
    ASSUME FullInv, NEW r \in Readers, ReaderStep(r)
    PROVE  /\ UNCHANGED <<phase, snap, out, base>>
           /\ asked[r] \in Keys /\ asked[r] # NoKey
           /\ \/ /\ UNCHANGED <<asked, window, ret>>
                 /\ \E there \in ReaderPCs \ {"idle"} :
                       /\ Goto(r, there)
                       /\ there = "optimistic" => pending[asked[r]] = <<>>
                       /\ there = "meta shared" => entries[asked[r]] = <<>>
              \/ \E v \in window[r] : Return(r, v)
<1> DEFINE k == asked[r]
<1>1. pc[r] # "idle" /\ k \in Keys /\ k # NoKey
  BY ConstantsOK DEF FullInv, IInv, LockInv, CallsHaveArguments, ReaderStep, GetKeyfolders,
     GetHasPending, GetOptimistic, GetLocked, GetPending
<1>2. /\ Current(k) \in window[r]
      /\ pc[r] = "optimistic" /\ entries[k] = <<>> => Absent \in window[r]
      /\ pc[r] = "meta shared" => entries[k] = <<>>
  BY <1>1 DEF FullInv, MapInv, GetsWatch
<1>3. ~hasPending => pending[k] = <<>>
  BY <1>1 DEF FullInv, IInv, PendingInv
<1>4. entries[k] # <<>> => Current(k) = IF Dead(entries[k]) THEN Absent ELSE entries[k][1].ord
  BY DEF Current, ValueIn, ChainIn, Dead
<1>5. entries[k] = <<>> => Current(k) = IF Dead(pending[k]) THEN Absent ELSE pending[k][1].ord
  BY DEF Current, ValueIn, ChainIn, Dead
<1>6. Dead(<<>>)
  BY DEF Dead
<1> HIDE DEF k
<1>a. ASSUME NEW there \in ReaderPCs \ {"idle"}, Goto(r, there), UNCHANGED seen,
             there = "optimistic" => pending[k] = <<>>,
             there = "meta shared" => entries[k] = <<>>
      PROVE  /\ UNCHANGED <<phase, snap, out, base>>
             /\ UNCHANGED <<asked, window, ret>>
             /\ \E to \in ReaderPCs \ {"idle"} :
                   /\ Goto(r, to)
                   /\ to = "optimistic" => pending[asked[r]] = <<>>
                   /\ to = "meta shared" => entries[asked[r]] = <<>>
  BY <1>a DEF seen, k
<1>b. {"has pending", "optimistic", "shard", "meta shared"} \subseteq ReaderPCs \ {"idle"}
  BY DEF ReaderPCs
<1>7. CASE GetKeyfolders(r)
  <2>1. UNCHANGED seen /\ (Goto(r, "has pending") \/ Goto(r, "shard"))
    BY <1>7 DEF GetKeyfolders
  <2>2. CASE Goto(r, "has pending")
    BY <1>1, <1>a, <1>b, <2>1, <2>2 DEF k
  <2>3. CASE Goto(r, "shard")
    BY <1>1, <1>a, <1>b, <2>1, <2>3 DEF k
  <2> QED BY <2>1, <2>2, <2>3
<1>8. CASE GetHasPending(r)
  <2>1. UNCHANGED seen /\ (Goto(r, "shard") \/ (~hasPending /\ Goto(r, "optimistic")))
    BY <1>8 DEF GetHasPending
  <2>2. CASE Goto(r, "shard")
    BY <1>1, <1>a, <1>b, <2>1, <2>2 DEF k
  <2>3. CASE ~hasPending /\ Goto(r, "optimistic")
    BY <1>1, <1>3, <1>a, <1>b, <2>1, <2>3 DEF k
  <2> QED BY <2>1, <2>2, <2>3
<1>9. CASE GetOptimistic(r)
  <2>1. \/ Return(r, IF Dead(entries[k]) THEN Absent ELSE entries[k][1].ord)
        \/ Goto(r, "shard") /\ UNCHANGED seen
    BY <1>9 DEF GetOptimistic, k
  <2>2. (IF Dead(entries[k]) THEN Absent ELSE entries[k][1].ord) \in window[r]
    BY <1>2, <1>4, <1>6, <1>9 DEF GetOptimistic
  <2>3. CASE Goto(r, "shard") /\ UNCHANGED seen
    BY <1>1, <1>a, <1>b, <2>3 DEF k
  <2> QED BY <1>1, <2>1, <2>2, <2>3 DEF Return, k
<1>10. CASE GetLocked(r)
  <2>1. \/ /\ entries[k] # <<>> \/ ~LookInPending
           /\ Return(r, IF Dead(entries[k]) THEN Absent ELSE entries[k][1].ord)
        \/ entries[k] = <<>> /\ Goto(r, "meta shared") /\ UNCHANGED seen
    BY <1>10 DEF GetLocked, k
  <2>2. entries[k] # <<>> \/ ~LookInPending
           => (IF Dead(entries[k]) THEN Absent ELSE entries[k][1].ord) \in window[r]
    BY <1>2, <1>3, <1>4, <1>5, <1>6 DEF LookInPending
  <2>3. CASE entries[k] = <<>> /\ Goto(r, "meta shared") /\ UNCHANGED seen
    BY <1>1, <1>a, <1>b, <2>3 DEF k
  <2> QED BY <1>1, <2>1, <2>2, <2>3 DEF Return, k
<1>11. CASE GetPending(r)
  <2>1. Return(r, IF Dead(pending[k]) THEN Absent ELSE pending[k][1].ord)
    BY <1>11 DEF GetPending, k
  <2>2. (IF Dead(pending[k]) THEN Absent ELSE pending[k][1].ord) \in window[r]
    BY <1>2, <1>5, <1>11 DEF GetPending
  <2> QED BY <1>1, <2>1, <2>2 DEF Return, k
<1> QED BY <1>7, <1>8, <1>9, <1>10, <1>11 DEF ReaderStep

LEMMA OrdTypes ==
    ASSUME IInv
    PROVE  ops \in Nat /\ nextOrd \in Nat /\ epoch \in Nat
  BY ConstantsOK DEF IInv, TypeOK

LEMMA OrdsLater ==
    ASSUME IInv, OrdsPast, UNCHANGED <<entries, pending, epoch, nextOrd, req>>,
           ops' \in {ops, ops + 1}
    PROVE  OrdsPast'
<1>1. ops \in Nat /\ nextOrd \in Nat
  BY OrdTypes
<1>2. 0 < nextOrd /\ nextOrd <= ops + 1
  BY DEF OrdsPast
<1>3. \A n, o \in Nat : \A m \in {o, o + 1} : n <= o + 1 => n <= m + 1
  OBVIOUS
<1>4. nextOrd <= ops' + 1
  BY <1>1, <1>2, <1>3
<1> QED BY <1>2, <1>4 DEF OrdsPast, RevsPast

\* A reader's step, as the invariant sees it.
ReaderDid(r) ==
    /\ Quiet /\ UNCHANGED <<nextOrd, mergeFiles, biggest, at, todo, why, iterEpoch, req>>
    /\ UNCHANGED <<phase, snap, out, base>> /\ ops' \in {ops, ops + 1}
    /\ \A t \in Threads : t # r => pc'[t] = pc[t]
    /\ \A q \in Readers : q # r => asked'[q] = asked[q] /\ window'[q] = window[q]
    /\ \E v : window' = [window EXCEPT ![r] = v]

LEMMA ReaderKeeps ==
    ASSUME FullInv, NEW r \in Readers, ReaderDid(r),
           /\ pc'[r] = "idle" <=> asked'[r] = NoKey
           /\ asked'[r] # NoKey => ValueIn(entries, pending, asked'[r]) \in window'[r]
           /\ pc'[r] = "optimistic" /\ entries[asked'[r]] = <<>> => Absent \in window'[r]
           /\ pc'[r] = "meta shared" => entries[asked'[r]] = <<>>
    PROVE  FullInv' \/ ~IInv'
<1> USE DEF FullInv, MapInv, ReaderDid
<1>1. \A v \in Writers \cup Folders : pc'[v] = pc[v]
  BY Kinds
<1>2. StillPart'
  BY <1>1, QuietKeeps DEF StillPart, FoldersCalm
<1>3. ViewsStand' /\ FoldsHandOut'
  BY <1>1, QuietViews, QuietHands DEF Quiet
<1>4. MovesApart'
  BY QuietMoves DEF Quiet
<1>5. OrdsPast'
  BY OrdsLater DEF Quiet
<1>6. GetsWatch'
  <2>1. ASSUME NEW q \in Readers
        PROVE  /\ pc'[q] = "idle" <=> asked'[q] = NoKey
               /\ asked'[q] # NoKey => ValueIn(entries, pending, asked'[q]) \in window'[q]
               /\ pc'[q] = "optimistic" /\ entries[asked'[q]] = <<>> => Absent \in window'[q]
               /\ pc'[q] = "meta shared" => entries[asked'[q]] = <<>>
    <3>1. CASE q = r
      BY <3>1
    <3>2. CASE q # r
      <4>1. pc'[q] = pc[q] /\ asked'[q] = asked[q] /\ window'[q] = window[q]
        BY <3>2, Kinds
      <4> QED BY <4>1 DEF GetsWatch, Current
    <3> QED BY <3>1, <3>2
  <2> QED BY <2>1 DEF GetsWatch, Current, Quiet
<1>7. SeenTables'
  BY DEF SeenTables
<1> QED BY <1>2, <1>3, <1>4, <1>5, <1>6, <1>7 DEF StillPart

LEMMA ReaderFullInv ==
    ASSUME FullInv, IInv', NEW r \in Readers, ReaderStep(r)
    PROVE  FullInv'
<1>0. /\ pc \in [Threads -> WriterPCs \cup ReaderPCs \cup FolderPCs] /\ r \in Threads
      /\ asked[r] \in Keys /\ asked[r] # NoKey
      /\ Current(asked[r]) \in window[r]
      /\ asked' \in [Readers -> Keys \cup {NoKey}] /\ asked \in [Readers -> Keys \cup {NoKey}]
  BY ReaderAnswers, Kinds DEF FullInv, MapInv, GetsWatch, IInv, TypeOK
<1>1. /\ Quiet /\ UNCHANGED <<nextOrd, mergeFiles, biggest, at, todo, why, iterEpoch, req, ops>>
  BY DEF ReaderStep, GetKeyfolders, GetHasPending, GetOptimistic, GetLocked, GetPending,
     Quiet, data, stats, flocal, wlocal, input
<1>2. CASE /\ UNCHANGED <<asked, window, ret>>
           /\ \E there \in ReaderPCs \ {"idle"} :
                 /\ Goto(r, there)
                 /\ there = "optimistic" => pending[asked[r]] = <<>>
                 /\ there = "meta shared" => entries[asked[r]] = <<>>
  <2>1. PICK there \in ReaderPCs \ {"idle"} :
                 /\ Goto(r, there)
                 /\ there = "optimistic" => pending[asked[r]] = <<>>
                 /\ there = "meta shared" => entries[asked[r]] = <<>>
    BY <1>2
  <2>2. pc'[r] = there /\ \A t \in Threads : t # r => pc'[t] = pc[t]
    BY <1>0, <2>1 DEF Goto
  <2>6. window' = [window EXCEPT ![r] = window[r]]
    BY <1>2 DEF FullInv, MapInv, SeenTables
  <2>3. ReaderDid(r)
    BY <1>1, <1>2, <2>2, <2>6, ReaderAnswers DEF ReaderDid
  <2>4. entries[asked[r]] = <<>> /\ pending[asked[r]] = <<>> => Current(asked[r]) = Absent
    BY DEF Current, ValueIn, ChainIn
  <2>5. there # "idle"
    BY <2>1
  <2> QED BY <1>0, <1>2, <2>1, <2>2, <2>3, <2>4, <2>5, ReaderKeeps DEF Current
<1>3. CASE \E v \in window[r] : Return(r, v)
  <2>1. /\ pc'[r] = "idle" /\ \A t \in Threads : t # r => pc'[t] = pc[t]
        /\ asked'[r] = NoKey
        /\ \A q \in Readers : q # r => asked'[q] = asked[q]
    BY <1>0, <1>3 DEF Return, Goto
  <2>4. window' = [window EXCEPT ![r] = {}]
    BY <1>3 DEF Return
  <2>2. \A q \in Readers : q # r => window'[q] = window[q]
    BY <2>4 DEF FullInv, MapInv, SeenTables
  <2>3. ReaderDid(r)
    BY <1>1, <2>1, <2>2, <2>4, ReaderAnswers DEF ReaderDid
  <2> QED BY <2>1, <2>3, ReaderKeeps
<1> QED BY <1>2, <1>3, ReaderAnswers

LEMMA GetBeginFullInv ==
    ASSUME FullInv, IInv', NEW r \in Readers, NEW k \in Keys, GetBegin(r, k)
    PROVE  FullInv'
<1>0. /\ pc \in [Threads -> WriterPCs \cup ReaderPCs \cup FolderPCs] /\ r \in Threads
      /\ asked \in [Readers -> Keys \cup {NoKey}] /\ k # NoKey
  BY ConstantsOK, Kinds DEF FullInv, IInv, TypeOK
<1>1. /\ pc'[r] = "keyfolders" /\ \A t \in Threads : t # r => pc'[t] = pc[t]
      /\ asked'[r] = k /\ \A q \in Readers : q # r => asked'[q] = asked[q]
  BY <1>0 DEF GetBegin, Goto
<1>4. \A q \in Readers : q # r => window'[q] = window[q]
  BY DEF FullInv, MapInv, SeenTables, GetBegin
<1>2. ReaderDid(r)
  BY <1>1, <1>4 DEF ReaderDid, GetBegin, Quiet, data, stats, flocal, wlocal
<1>3. window'[r] = {Current(k)}
  BY DEF FullInv, MapInv, SeenTables, GetBegin
<1> QED BY <1>0, <1>1, <1>2, <1>3, ReaderKeeps DEF Current

LEMMA IncrementFullInv ==
    ASSUME FullInv, IInv', IncrementFileId
    PROVE  FullInv'
<1> USE DEF FullInv, MapInv
<1>1. /\ Quiet /\ UNCHANGED <<pc, req, asked, window, phase, snap, out, base>>
      /\ UNCHANGED <<at, todo, why, iterEpoch, nextOrd, ops>>
  BY DEF IncrementFileId, Quiet, data, wlocal, flocal, seen
<1>2. StillPart'
  BY <1>1, QuietKeeps DEF StillPart, FoldersCalm
<1>3. ViewsStand' /\ FoldsHandOut' /\ GetsWatch' /\ OrdsPast' /\ SeenTables'
  BY <1>1, QuietViews, QuietHands, QuietGets, QuietOrds DEF Quiet, SeenTables
<1>4. MovesApart'
  <2>1. /\ biggest \in Nat /\ biggest' = biggest + 1 /\ mergeFiles \subseteq Nat
        /\ mergeFiles \subseteq mergeFiles' /\ mergeFiles' \subseteq mergeFiles \cup {biggest + 1}
    BY SMTT(20) DEF IInv, TypeOK, IncrementFileId, Files
  <2>2. \A g \in mergeFiles' : g <= biggest'
    <3>1. \A g \in mergeFiles : g \in Nat /\ g <= biggest
      BY <2>1 DEF MovesApart
    <3> QED BY <2>1, <3>1
  <2>3. (1..biggest) \ mergeFiles \subseteq (1..biggest') \ mergeFiles'
    BY <2>1
  <2> QED BY <1>1, <2>1, <2>2, <2>3 DEF MovesApart, Chain, Quiet
<1> QED BY <1>2, <1>3, <1>4 DEF StillPart

-----------------------------------------------------------------------------
(* Folders.                                                                *)

FolderAct(f) == FolderStep(f) \/ WantStart(f) \/ WantRelease(f) \/ NextKey(f) \/ NextEnd(f)

\* What every step of a folder leaves alone.
FolderDid(f) ==
    /\ UNCHANGED <<nextOrd, mergeFiles, biggest, req, asked, window, keyCount, live>>
    /\ ops' \in {ops, ops + 1} /\ epoch' \in {epoch, epoch + 1}
    /\ \A t \in Threads : t # f => pc'[t] = pc[t]
    /\ \A g \in Folders : g # f => /\ UNCHANGED <<at[g], todo[g], why[g], iterEpoch[g]>>
                                   /\ UNCHANGED <<phase[g], snap[g], out[g]>>

LEMMA EveryFolderDid ==
    ASSUME IInv, SeenTables, NEW f \in Folders, FolderAct(f)
    PROVE  FolderDid(f) /\ SeenTables'
<1> USE DEF FolderStep, WantStart, WantRelease, NextKey, NextEnd, LockBarrier, Raise, Drain,
        Lower, Notify, Start, StartRefused, ReleaseCount, PendingBegin, PendingKey, PendingEnd,
        PendingClear, Collapse, Goto, data, stats, locks, wlocal, flocal, input, seen
<1>1. UNCHANGED <<nextOrd, mergeFiles, biggest, req, asked, window, keyCount, live>>
  BY DEF FolderAct
<1>2. ops' \in {ops, ops + 1} /\ epoch' \in {epoch, epoch + 1}
  BY DEF FolderAct, StartEpoch
<1>3. pc' = pc \/ \E there : pc' = [pc EXCEPT ![f] = there]
  BY DEF FolderAct
<1>4. /\ at' = at \/ \E x : at' = [at EXCEPT ![f] = x]
      /\ todo' = todo \/ \E x : todo' = [todo EXCEPT ![f] = x]
      /\ why' = why \/ \E x : why' = [why EXCEPT ![f] = x]
  BY DEF FolderAct
<1>5. /\ iterEpoch' = iterEpoch \/ \E x : iterEpoch' = [iterEpoch EXCEPT ![f] = x]
      /\ phase' = phase \/ \E x : phase' = [phase EXCEPT ![f] = x]
  BY DEF FolderAct
<1>6. /\ out' = out \/ \E x : out' = [out EXCEPT ![f] = x]
      /\ \/ snap' = snap
         \/ \E x : snap' = [snap EXCEPT ![f] = [k \in Keys |-> x[k]]]
  <2>1. out' = out \/ \E x : out' = [out EXCEPT ![f] = x]
    BY DEF FolderAct
  <2>2. CASE Start(f)
    <3>1. PICK x : x = [k \in Keys |-> ValueIn(entries, [j \in Keys |-> <<>>], k)]
      OBVIOUS
    <3>2. snap' = [snap EXCEPT ![f] = [k \in Keys |-> x[k]]]
      BY <2>2, <3>1
    <3> QED BY <2>1, <3>2
  <2>3. CASE ReleaseCount(f)
    <3>1. PICK x : x = [k \in Keys |-> Absent]
      OBVIOUS
    <3>2. snap' = [snap EXCEPT ![f] = [k \in Keys |-> x[k]]]
      BY <2>3, <3>1
    <3> QED BY <2>1, <3>2
  <2>4. CASE ~Start(f) /\ ~ReleaseCount(f)
    <3>1. snap' = snap
      BY <2>4 DEF FolderAct
    <3> QED BY <2>1, <3>1
  <2> QED BY <2>2, <2>3, <2>4
<1>7. /\ pc \in [Threads -> WriterPCs \cup ReaderPCs \cup FolderPCs]
      /\ at \in [Folders -> Shards] /\ todo \in [Folders -> SUBSET Keys]
      /\ why \in [Folders -> {"start", "release"}] /\ iterEpoch \in [Folders -> Nat]
      /\ phase \in [Folders -> {"none", "open", "eof"}]
  BY DEF IInv, TypeOK
<1> HIDE DEF FolderStep, WantStart, WantRelease, NextKey, NextEnd, LockBarrier, Raise, Drain,
        Lower, Notify, Start, StartRefused, ReleaseCount, PendingBegin, PendingKey, PendingEnd,
        PendingClear, Collapse, Goto, data, stats, locks, wlocal, flocal, input, seen
<1>8. \A t \in Threads : t # f => pc'[t] = pc[t]
  BY <1>3, <1>7
<1>9. \A g \in Folders : g # f => UNCHANGED <<at[g], todo[g], why[g], iterEpoch[g], phase[g]>>
  BY <1>4, <1>5, <1>7
<1>10. \A g \in Folders : g # f => UNCHANGED <<snap[g], out[g]>>
  BY <1>6 DEF SeenTables
<1>11. SeenTables'
  <2>1. out' = [g \in Folders |-> out'[g]]
    BY <1>6 DEF SeenTables
  <2>2. snap' = [g \in Folders |-> [k \in Keys |-> snap'[g][k]]]
    BY <1>6 DEF SeenTables
  <2> QED BY <1>1, <2>1, <2>2 DEF SeenTables
<1> QED BY <1>1, <1>2, <1>8, <1>9, <1>10, <1>11 DEF FolderDid

\* The steps that rewrite the tables, all of them in the release of the last fold.
Rewrites(f) == PendingKey(f) \/ PendingClear(f) \/ Collapse(f)

LEMMA FolderReads ==
    ASSUME NEW f \in Folders, FolderAct(f), ~Rewrites(f)
    PROVE  UNCHANGED <<entries, pending, tombstones>>
  BY DEF FolderAct, FolderStep, WantStart, WantRelease, NextKey, NextEnd, LockBarrier, Raise,
     Drain, Lower, Notify, Start, StartRefused, ReleaseCount, PendingBegin, PendingEnd,
     Rewrites, data

LEMMA RewriterAlone ==
    ASSUME IInv, NEW f \in Folders, Rewrites(f)
    PROVE  /\ keyfolders = 0 /\ UNCHANGED <<keyfolders, epoch, phase, base, iterEpoch, snap, out>>
           /\ pc[f] \in MovingOn /\ pc'[f] \in MovingOn \cup {"lower"} /\ pc[f] \in Inside
           /\ \A g \in Folders : phase[g] = "none"
           /\ \A g \in Folders : g # f => pc[g] \notin MovingOn
<1>1. pc[f] \in MovingOn /\ pc[f] \in Inside
      /\ UNCHANGED <<keyfolders, epoch, phase, base, iterEpoch, snap, out>>
  BY DEF Rewrites, PendingKey, PendingClear, Collapse, MovingOn, Moving, Inside, stats, seen
<1>2. pc'[f] \in MovingOn \cup {"lower"}
  <2>1. pc \in [Threads -> WriterPCs \cup ReaderPCs \cup FolderPCs] /\ f \in Threads
    BY Kinds DEF IInv, TypeOK
  <2> QED BY <2>1 DEF Rewrites, PendingKey, PendingClear, Collapse, Goto, MovingOn, Moving
<1>3. keyfolders = 0
  BY <1>1 DEF IInv, FoldsCounted, MovingOn
<1>4. \A g \in Folders : phase[g] = "none"
  <2>1. ~(keyfolders > 0)
    BY <1>3
  <2> QED BY <2>1, FoldsAreCounted
<1>5. \A g \in Folders : g # f => pc[g] \notin MovingOn
  <2>1. MovingOn \subseteq Inside
    BY DEF MovingOn, Moving, Inside
  <2> QED BY <1>1, <2>1, OneInside DEF IInv
<1> QED BY <1>1, <1>2, <1>3, <1>4, <1>5

\* No folder invents a revision.
LEMMA FolderRevs ==
    ASSUME IInv, NEW f \in Folders, FolderAct(f), NEW k \in Keys
    PROVE  /\ \A i \in DOMAIN entries'[k] :
                 \/ \E j \in DOMAIN entries[k] : entries'[k][i] = entries[k][j]
                 \/ \E j \in DOMAIN pending[k] : entries'[k][i] = pending[k][j]
           /\ \A i \in DOMAIN pending'[k] : \E j \in DOMAIN pending[k] : pending'[k][i] = pending[k][j]
<1> USE DEF IInv, TypeOK
<1>0. DOMAIN <<>> = {} /\ \A x : DOMAIN <<x>> = {1} /\ <<x>>[1] = x
  OBVIOUS
<1>1. CASE ~Rewrites(f)
  BY <1>1, FolderReads
<1>2. CASE PendingKey(f)
  <2>1. PICK j \in todo[f] :
          entries' = [entries EXCEPT ![j] = IF pending[j][1].tomb THEN <<>> ELSE <<pending[j][1]>>]
    BY <1>2 DEF PendingKey
  <2>2. pending' = pending /\ pending[j] # <<>> /\ j \in Keys
    BY <1>2, <2>1 DEF PendingKey, PendingInv, InPending
  <2>3. 1 \in DOMAIN pending[j]
    BY <2>2, ChainLength
  <2>4. entries'[k] = IF k # j THEN entries[k]
                      ELSE IF pending[j][1].tomb THEN <<>> ELSE <<pending[j][1]>>
    BY <2>1, <2>2
  <2>5. CASE k # j
    BY <2>2, <2>4, <2>5
  <2>6. CASE k = j
    <3>1. \A i \in DOMAIN entries'[k] : i = 1 /\ entries'[k][i] = pending[k][1]
      BY <1>0, <2>4, <2>6
    <3> QED BY <2>2, <2>3, <2>6, <3>1
  <2> QED BY <2>5, <2>6
<1>3. CASE PendingClear(f)
  BY <1>0, <1>3 DEF PendingClear
<1>4. CASE Collapse(f)
  <2>1. entries'[k] \in {entries[k], <<>>, <<entries[k][1]>>} /\ pending' = pending
    BY <1>4 DEF Collapse, Collapsed
  <2>2. entries[k] # <<>> => 1 \in DOMAIN entries[k]
    BY ChainLength
  <2>3. entries[k] = <<>> => entries'[k] = <<>>
    BY <1>4 DEF Collapse, Collapsed, Dead
  <2> QED BY <1>0, <2>1, <2>2, <2>3
<1> QED BY <1>1, <1>2, <1>3, <1>4 DEF Rewrites

LEMMA FolderOrds ==
    ASSUME IInv, OrdsPast, SeenTables, NEW f \in Folders, FolderAct(f)
    PROVE  OrdsPast'
<1>1. /\ UNCHANGED <<nextOrd, req>> /\ ops' \in {ops, ops + 1} /\ epoch' \in {epoch, epoch + 1}
  BY EveryFolderDid DEF FolderDid
<1>2. ops \in Nat /\ nextOrd \in Nat /\ epoch \in Nat
  BY OrdTypes
<1>3. 0 < nextOrd /\ nextOrd <= ops + 1
  BY DEF OrdsPast
<1>4. \A n, o \in Nat : \A m \in {o, o + 1} : n <= o + 1 => n <= m + 1
  OBVIOUS
<1>5. nextOrd <= ops' + 1
  BY <1>1, <1>2, <1>3, <1>4
<1> DEFINE Past(r) == r.ord < nextOrd /\ r.epoch <= epoch' /\ (~r.tomb => r.ord > 0)
<1>6. ASSUME NEW j \in Keys
      PROVE  /\ \A i \in DOMAIN entries[j] : Past(entries[j][i])
             /\ \A i \in DOMAIN pending[j] : Past(pending[j][i])
  <2>1. RevsPast(entries[j]) /\ RevsPast(pending[j])
    BY DEF OrdsPast
  <2>2. /\ \A i \in DOMAIN entries[j] : entries[j][i].epoch \in Nat
        /\ \A i \in DOMAIN pending[j] : pending[j][i].epoch \in Nat
    <3>1. entries[j] \in Seq(Rev) /\ pending[j] \in Seq(Rev)
      BY DEF IInv, TypeOK
    <3>2. /\ \A i \in DOMAIN entries[j] : entries[j][i] \in Rev
          /\ \A i \in DOMAIN pending[j] : pending[j][i] \in Rev
      BY <3>1, ChainLength
    <3> QED BY <3>2 DEF Rev
  <2>3. \A a, b \in Nat : \A c \in {b, b + 1} : a <= b => a <= c
    OBVIOUS
  <2> QED BY <1>1, <1>2, <2>1, <2>2, <2>3 DEF RevsPast
<1> HIDE DEF Past
<1>7. ASSUME NEW j \in Keys
      PROVE  /\ \A i \in DOMAIN entries'[j] : Past(entries'[j][i])
             /\ \A i \in DOMAIN pending'[j] : Past(pending'[j][i])
  BY <1>6, FolderRevs
<1> QED BY <1>1, <1>3, <1>5, <1>7 DEF OrdsPast, RevsPast, Past

\* What a fold will hand out, one folder at a time.
HandsOut(f) ==
    /\ pc[f] \in {"iterating", "start"} => why[f] = "start"
    /\ pc[f] \in {"lower", "notify"} /\ phase[f] # "none" => why[f] = "start"
    /\ phase[f] # "none" /\ why[f] = "start" =>
          \A k \in Keys : <<k, snap[f][k]>> \in out[f]
                          <=> k \notin todo[f] /\ snap[f][k] # Absent

\* next() hands out exactly the fold's view of the key it takes.
LEMMA NextHands ==
    ASSUME FullInv, NEW f \in Folders, NextKey(f)
    PROVE  /\ HandsOut(f)'
           /\ \/ UNCHANGED out
              \/ \E k \in Keys : /\ snap[f][k] # Absent /\ <<k, snap[f][k]>> \notin out[f]
                                 /\ out' = [out EXCEPT ![f] = out[f] \cup {<<k, snap[f][k]>>}]
<1>1. PICK k \in todo[f] :
        /\ todo' = [todo EXCEPT ![f] = todo[f] \ {k}]
        /\ out' = IF Dead(AtEpoch(entries[k], iterEpoch[f])) THEN out
                  ELSE [out EXCEPT ![f] = out[f] \cup
                          {<<k, AtEpoch(entries[k], iterEpoch[f])[1].ord>>}]
  BY DEF NextKey
<1>2. /\ pc[f] = "iterating" /\ phase[f] = "open" /\ UNCHANGED <<pc, why, phase, snap>>
      /\ k \in Keys /\ todo \in [Folders -> SUBSET Keys]
      /\ entries[k] \in Seq(Rev) /\ iterEpoch[f] \in Nat
  BY DEF NextKey, FullInv, IInv, TypeOK
<1>3. /\ why[f] = "start"
      /\ \A j \in Keys : <<j, snap[f][j]>> \in out[f] <=> j \notin todo[f] /\ snap[f][j] # Absent
      /\ snap[f][k] = ViewOf(f, k)
  BY <1>2 DEF FullInv, MapInv, FoldsHandOut, ViewsStand
<1> DEFINE c == AtEpoch(entries[k], iterEpoch[f])
<1>4. todo'[f] = todo[f] \ {k}
  BY <1>1, <1>2
<1>5. CASE Dead(c)
  <2>1. snap[f][k] = Absent /\ out' = out
    BY <1>1, <1>3, <1>5 DEF ViewOf
  <2>2. \A j \in Keys : <<j, snap'[f][j]>> \in out'[f] <=> j \notin todo'[f] /\ snap'[f][j] # Absent
    BY <1>2, <1>3, <1>4, <2>1
  <2> QED BY <1>2, <1>3, <2>1, <2>2 DEF HandsOut
<1>6. CASE ~Dead(c)
  <2>1. snap[f][k] = c[1].ord /\ out' = [out EXCEPT ![f] = out[f] \cup {<<k, c[1].ord>>}]
    BY <1>1, <1>3, <1>6 DEF ViewOf
  <2>2. snap[f][k] # Absent
    <3>1. VisibleRevs(entries[k], iterEpoch[f]) # {}
      BY <1>6 DEF AtEpoch, Dead
    <3>2. PICK n \in DOMAIN entries[k] : c = <<entries[k][n]>>
      <4>1. VisibleRevs(entries[k], iterEpoch[f]) \subseteq Nat
        BY <1>2, ChainLength DEF VisibleRevs
      <4>2. PICK n \in VisibleRevs(entries[k], iterEpoch[f]) :
               \A m \in VisibleRevs(entries[k], iterEpoch[f]) : n <= m
        BY <3>1, <4>1, LeastExists
      <4>3. n \in DOMAIN entries[k] /\ c = <<entries[k][n]>>
        BY <1>2, <4>2, AtEpochIs DEF VisibleRevs
      <4> QED BY <4>3
    <3>3. ~entries[k][n].tomb /\ c[1] = entries[k][n]
      BY <1>6, <3>2 DEF Dead
    <3>4. entries[k][n].ord > 0
      BY <1>2, <3>3 DEF FullInv, MapInv, OrdsPast, RevsPast
    <3> QED BY <2>1, <3>3, <3>4 DEF Absent
  <2> HIDE DEF c
  <2>3. out'[f] = out[f] \cup {<<k, snap[f][k]>>}
    BY <2>1 DEF FullInv, MapInv, SeenTables
  <2>4. ASSUME NEW j \in Keys
        PROVE  <<j, snap'[f][j]>> \in out'[f] <=> j \notin todo'[f] /\ snap'[f][j] # Absent
    <3>1. CASE j = k
      BY <1>2, <1>4, <2>2, <2>3, <3>1
    <3>2. CASE j # k
      <4>1. <<j, snap[f][j]>> \in out'[f] <=> <<j, snap[f][j]>> \in out[f]
        BY <2>3, <3>2
      <4> QED BY <1>2, <1>3, <1>4, <3>2, <4>1
    <3> QED BY <3>1, <3>2
  <2>5. HandsOut(f)'
    BY <1>2, <1>3, <2>4 DEF HandsOut
  <2> QED BY <1>2, <1>3, <2>1, <2>2, <2>5
<1> QED BY <1>5, <1>6

LEMMA FolderHands ==
    ASSUME FullInv, NEW f \in Folders, FolderAct(f)
    PROVE  FoldsHandOut'
<1>0. FolderDid(f)
  BY EveryFolderDid DEF FullInv, MapInv
<1>1. SUFFICES HandsOut(f)'
  BY <1>0, Kinds DEF FolderDid, FullInv, MapInv, FoldsHandOut, HandsOut
<1>2. HandsOut(f) /\ PhaseOf(f)
  BY DEF FullInv, MapInv, FoldsHandOut, HandsOut, IInv, FoldsCounted, PhaseOf
<1>3. /\ pc \in [Threads -> WriterPCs \cup ReaderPCs \cup FolderPCs] /\ f \in Threads
      /\ phase \in [Folders -> {"none", "open", "eof"}] /\ todo \in [Folders -> SUBSET Keys]
      /\ why \in [Folders -> {"start", "release"}]
  BY Kinds DEF FullInv, IInv, TypeOK
<1> USE DEF Goto, seen, flocal
<1>4. CASE WantStart(f) \/ WantRelease(f)
  BY <1>2, <1>3, <1>4 DEF WantStart, WantRelease, HandsOut, PhaseOf
<1>5. CASE LockBarrier(f) \/ Raise(f)
  BY <1>2, <1>3, <1>5 DEF LockBarrier, Raise, HandsOut, PhaseOf
<1>6. CASE Drain(f)
  BY <1>2, <1>3, <1>6 DEF Drain, HandsOut, PhaseOf
<1>7. CASE Lower(f) \/ StartRefused(f)
  BY <1>2, <1>3, <1>7 DEF Lower, StartRefused, HandsOut, PhaseOf
<1>8. CASE Notify(f)
  BY <1>2, <1>3, <1>8 DEF Notify, AfterBarrier, HandsOut, PhaseOf
<1>9. CASE NextKey(f)
  BY <1>9, NextHands
<1>10. CASE NextEnd(f)
  BY <1>2, <1>3, <1>10 DEF NextEnd, HandsOut
<1>11. CASE Start(f)
  <2>1. /\ pc'[f] = "lower" /\ why'[f] = "start" /\ out' = [out EXCEPT ![f] = {}]
        /\ todo'[f] = {k \in Keys : entries[k] # <<>>}
        /\ snap' = [snap EXCEPT ![f] = [k \in Keys |-> ValueIn(entries, [j \in Keys |-> <<>>], k)]]
    BY <1>2, <1>3, <1>11 DEF Start, HandsOut
  <2>2. out'[f] = {} /\ \A k \in Keys : snap'[f][k] = ValueIn(entries, [j \in Keys |-> <<>>], k)
    BY <2>1 DEF FullInv, MapInv, SeenTables
  <2>3. \A k \in Keys : entries[k] = <<>> => snap'[f][k] = Absent
    BY <2>2 DEF ValueIn, ChainIn
  <2> QED BY <2>1, <2>2, <2>3 DEF HandsOut
<1>12. CASE ReleaseCount(f)
  BY <1>2, <1>3, <1>12 DEF ReleaseCount, HandsOut
<1>13. CASE PendingBegin(f) \/ PendingKey(f) \/ PendingEnd(f) \/ PendingClear(f)
  BY <1>2, <1>3, <1>13 DEF PendingBegin, PendingKey, PendingEnd, PendingClear, HandsOut, PhaseOf,
     Moving
<1>14. CASE Collapse(f)
  BY <1>2, <1>3, <1>14 DEF Collapse, HandsOut, PhaseOf
<1> QED BY <1>4, <1>5, <1>6, <1>7, <1>8, <1>9, <1>10, <1>11, <1>12, <1>13, <1>14
        DEF FolderAct, FolderStep

\* When the last fold collapses chains, the pending table is empty.
LEMMA ReleaseEmpties ==
    ASSUME IInv, NEW f \in Folders, pc[f] = "collapse", NEW k \in Keys
    PROVE  pending[k] = <<>>
<1>1. keyfolders = 0 /\ pc[f] \in Inside
  BY DEF IInv, FoldsCounted, Inside
<1>2. Moving \subseteq Inside /\ "collapse" \notin Moving
  BY DEF Moving, Inside
<1>3. \A g \in Folders : pc[g] \notin Moving
  BY <1>1, <1>2, OneInside DEF IInv
<1> QED BY <1>1, <1>3 DEF IInv, PendingInv

\* A step that changes the keys' chains only in their tails, or drops dead ones.
HeadsKept == \A k \in Keys : HeadKept(k)

\* The release of the last fold shows every key as before.
LEMMA FolderHeads ==
    ASSUME FullInv, NEW f \in Folders, FolderAct(f)
    PROVE  HeadsKept
<1> USE DEF HeadKept, Chain, ChainIn, Dead
<1>1. SUFFICES ASSUME NEW k \in Keys PROVE HeadKept(k)
  BY DEF HeadsKept
<1>2. /\ entries \in [Keys -> Seq(Rev)] /\ pending \in [Keys -> Seq(Rev)]
      /\ entries[k] # <<>> /\ pending[k] # <<>> => entries[k] = pending[k]
  BY DEF FullInv, IInv, TypeOK, PendingInv
<1>3. CASE ~Rewrites(f)
  BY <1>3, FolderReads
<1>4. CASE PendingKey(f)
  <2>1. PICK j \in todo[f] :
          entries' = [entries EXCEPT ![j] = IF pending[j][1].tomb THEN <<>> ELSE <<pending[j][1]>>]
    BY <1>4 DEF PendingKey
  <2>2. pending' = pending /\ pending[j] # <<>> /\ j \in Keys
    BY <1>4, <2>1 DEF PendingKey, FullInv, IInv, PendingInv, InPending
  <2>3. entries'[k] = IF k # j THEN entries[k]
                      ELSE IF pending[j][1].tomb THEN <<>> ELSE <<pending[j][1]>>
    BY <1>2, <2>1, <2>2
  <2>4. CASE k # j
    BY <2>2, <2>3, <2>4
  <2>5. CASE k = j
    <3>1. Chain(k) = pending[k]
      BY <1>2, <2>2, <2>5
    <3>2. Chain(k)' # <<>> /\ Chain(k)'[1] = pending[k][1]
      BY <2>2, <2>3, <2>5
    <3> QED BY <2>2, <2>5, <3>1, <3>2
  <2> QED BY <2>4, <2>5
<1>5. CASE PendingClear(f)
  <2>1. entries' = entries /\ pending'[k] = <<>>
    BY <1>5 DEF PendingClear
  <2>2. pending[k] # <<>> => MovedKey(k)
    BY <1>5 DEF PendingClear, FullInv, MapInv, PendingMoved
  <2> QED BY <2>1, <2>2 DEF MovedKey
<1>6. CASE Collapse(f)
  <2>1. pending' = pending /\ pending[k] = <<>>
    <3>1. pc[f] = "collapse"
      BY <1>6 DEF Collapse
    <3>2. pending[k] = <<>>
      BY <3>1, ReleaseEmpties DEF FullInv
    <3> QED BY <1>6, <3>2 DEF Collapse
  <2>2. entries'[k] \in {entries[k], Collapsed(entries[k])}
    BY <1>6 DEF Collapse
  <2> QED BY <2>1, <2>2 DEF Collapsed
<1> QED BY <1>3, <1>4, <1>5, <1>6 DEF Rewrites

\* entries loses dead keys only, and gets keys under their shard's lock.
LEMMA FolderTables ==
    ASSUME FullInv, NEW f \in Folders, FolderAct(f), NEW k \in Keys
    PROVE  /\ entries[k] # <<>> /\ entries'[k] = <<>> => Current(k) = Absent
           /\ entries[k] = <<>> /\ entries'[k] # <<>> => ShardFree(k)
<1> USE DEF Current, ValueIn, ChainIn
<1>1. /\ entries \in [Keys -> Seq(Rev)] /\ pending \in [Keys -> Seq(Rev)]
      /\ entries[k] # <<>> /\ pending[k] # <<>> => entries[k] = pending[k]
  BY DEF FullInv, IInv, TypeOK, PendingInv
<1>2. CASE ~Rewrites(f)
  BY <1>2, FolderReads
<1>3. CASE PendingKey(f)
  <2>1. PICK j \in todo[f] :
          /\ ShardFree(j)
          /\ entries' = [entries EXCEPT ![j] = IF pending[j][1].tomb THEN <<>> ELSE <<pending[j][1]>>]
    BY <1>3 DEF PendingKey
  <2>2. pending[j] # <<>> /\ j \in Keys
    BY <1>3, <2>1 DEF PendingKey, FullInv, IInv, PendingInv, InPending
  <2>3. entries'[k] = IF k # j THEN entries[k]
                      ELSE IF pending[j][1].tomb THEN <<>> ELSE <<pending[j][1]>>
    BY <1>1, <2>1, <2>2
  <2>4. CASE k # j
    BY <2>3, <2>4
  <2>5. CASE k = j
    BY <1>1, <2>1, <2>2, <2>3, <2>5
  <2> QED BY <2>4, <2>5
<1>4. CASE PendingClear(f)
  BY <1>4 DEF PendingClear
<1>5. CASE Collapse(f)
  <2>1. entries'[k] \in {entries[k], Collapsed(entries[k])}
    BY <1>5 DEF Collapse
  <2> QED BY <2>1 DEF Collapsed, Dead
<1> QED BY <1>2, <1>3, <1>4, <1>5 DEF Rewrites

LEMMA FolderGets ==
    ASSUME FullInv, NEW f \in Folders, FolderAct(f)
    PROVE  GetsWatch'
<1>1. FolderDid(f)
  BY EveryFolderDid DEF FullInv, MapInv
<1>2. /\ UNCHANGED <<asked, window>> /\ \A r \in Readers : pc'[r] = pc[r]
  BY <1>1, Kinds DEF FolderDid
<1>3. \A k \in Keys : Current(k)' = Current(k)
  BY FolderHeads, HeadTells DEF HeadsKept
<1>4. ASSUME NEW r \in Readers, asked[r] # NoKey
      PROVE  /\ Current(asked[r])' \in window[r]
             /\ pc[r] = "optimistic" /\ entries'[asked[r]] = <<>> => Absent \in window[r]
             /\ pc[r] = "meta shared" => entries'[asked[r]] = <<>>
  <2>1. asked[r] \in Keys
    BY <1>4 DEF FullInv, IInv, TypeOK
  <2>2. /\ Current(asked[r]) \in window[r]
        /\ pc[r] = "optimistic" /\ entries[asked[r]] = <<>> => Absent \in window[r]
        /\ pc[r] = "meta shared" => entries[asked[r]] = <<>>
    BY <1>4 DEF FullInv, MapInv, GetsWatch
  <2>3. PICK k : k = asked[r]
    OBVIOUS
  <2>4. pc[r] = "meta shared" => ~ShardFree(k)
    BY <2>3, Kinds DEF FullInv, IInv, LockInv, ShardsHeld, ShardFree
  <2>5. /\ entries[k] # <<>> /\ entries'[k] = <<>> => Current(k) = Absent
        /\ entries[k] = <<>> /\ entries'[k] # <<>> => ShardFree(k)
    BY <2>1, <2>3, FolderTables
  <2>6. ValueIn(entries', pending', k) = Current(k)
    BY <1>3, <2>1, <2>3 DEF Current
  <2>7. Current(asked[r])' = ValueIn(entries', pending', k)
    BY <1>2, <2>3 DEF Current
  <2> QED BY <2>2, <2>3, <2>4, <2>5, <2>6, <2>7
<1>5. \A r \in Readers : pc[r] = "idle" <=> asked[r] = NoKey
  BY DEF FullInv, MapInv, GetsWatch
<1>6. \A r \in Readers : pc[r] \in {"optimistic", "meta shared"} => asked[r] # NoKey
  BY <1>5
<1> QED BY <1>2, <1>4, <1>5, <1>6 DEF GetsWatch

LEMMA FolderMovesApart ==
    ASSUME FullInv, NEW f \in Folders, FolderAct(f)
    PROVE  MovesApart'
<1>1. UNCHANGED <<mergeFiles, biggest, req>>
  BY EveryFolderDid DEF FolderDid, FullInv, MapInv
<1>2. ASSUME NEW w \in Writers, req[w].op = "move", NEW k, k = req[w].key, Chain(k)' # <<>>
      PROVE  Chain(k)'[1].file # req[w].file
  <2>1. k \in Keys
    BY <1>2 DEF FullInv, IInv, TypeOK, Requests, NoReq
  <2>2. HeadKept(k)
    BY <2>1, FolderHeads DEF HeadsKept
  <2> QED BY <1>2, <2>2 DEF HeadKept, FullInv, MapInv, MovesApart
<1>3. ASSUME NEW w \in Writers, req'[w].op = "move", Chain(req[w].key)' # <<>>
      PROVE  Chain(req[w].key)'[1].file # req'[w].file
  <2>1. PICK k : k = req[w].key
    OBVIOUS
  <2>2. Chain(req[w].key)' = Chain(k)'
    BY <1>1, <2>1 DEF Chain
  <2> QED BY <1>1, <1>2, <1>3, <2>1, <2>2
<1> QED BY <1>1, <1>3 DEF FullInv, MapInv, MovesApart

LEMMA FolderViews ==
    ASSUME FullInv, NEW f \in Folders, FolderAct(f)
    PROVE  /\ ViewsStand'
           /\ \A g \in Folders : phase[g] # "none" /\ phase'[g] # "none"
                 => \A k \in Keys : ViewOf(g, k)' = ViewOf(g, k)
<1>1. FolderDid(f)
  BY EveryFolderDid DEF FullInv, MapInv
<1>2. /\ entries \in [Keys -> Seq(Rev)] /\ iterEpoch \in [Folders -> Nat] /\ epoch \in Nat
      /\ phase \in [Folders -> {"none", "open", "eof"}]
  BY DEF FullInv, IInv, TypeOK
<1>3. \A a \in Nat : \A b \in {epoch, epoch + 1} : a <= epoch => a <= b
  BY <1>2
<1>4. CASE Rewrites(f)
  BY <1>4, RewriterAlone DEF FullInv, ViewsStand
<1>5. CASE ~Rewrites(f)
  <2>1. entries' = entries
    BY <1>5, FolderReads
  <2>2. ASSUME NEW g \in Folders, UNCHANGED <<iterEpoch[g], snap[g]>>, phase[g] # "none"
        PROVE  /\ iterEpoch'[g] <= epoch'
               /\ \A k \in Keys : snap'[g][k] = ViewOf(g, k)' /\ ViewOf(g, k)' = ViewOf(g, k)
    <3>1. \A k \in Keys : ViewOf(g, k)' = ViewOf(g, k)
      BY <2>1, <2>2 DEF ViewOf
    <3>2. iterEpoch[g] <= epoch /\ \A k \in Keys : snap[g][k] = ViewOf(g, k)
      BY <2>2 DEF FullInv, MapInv, ViewsStand
    <3> QED BY <1>1, <1>2, <1>3, <2>2, <3>1, <3>2 DEF FolderDid
  <2>3. CASE Start(f)
    <3>1. /\ epoch' = epoch + 1 /\ iterEpoch'[f] = epoch + 1 /\ phase[f] = "none"
      BY <1>2, <2>3 DEF Start, StartEpoch, FullInv, IInv, FoldsCounted
    <3>2. ASSUME NEW k \in Keys PROVE snap'[f][k] = ViewOf(f, k)'
      <4>1. snap' = [snap EXCEPT ![f] = [j \in Keys |-> ValueIn(entries, [i \in Keys |-> <<>>], j)]]
        BY <2>3 DEF Start
      <4>2. snap'[f][k] = ValueIn(entries, [i \in Keys |-> <<>>], k)
        BY <4>1 DEF FullInv, MapInv, SeenTables
      <4>3. ViewOf(f, k)' = LET c == AtEpoch(entries[k], epoch + 1)
                            IN IF Dead(c) THEN Absent ELSE c[1].ord
        BY <2>1, <3>1 DEF ViewOf
      <4>4. CASE entries[k] = <<>>
        <5>1. AtEpoch(<<>>, epoch + 1) = <<>>
          BY AtEpochNone
        <5> QED BY <4>2, <4>3, <4>4, <5>1 DEF ValueIn, ChainIn, Dead
      <4>5. CASE entries[k] # <<>>
        <5>1. 1 \in DOMAIN entries[k] /\ entries[k][1] \in Rev /\ entries[k] \in Seq(Rev)
          BY <1>2, <4>5, ChainLength
        <5>2. entries[k][1].epoch <= epoch + 1 /\ epoch + 1 \in Nat
          BY <1>2, <5>1 DEF FullInv, MapInv, OrdsPast, RevsPast, Rev
        <5>3. AtEpoch(entries[k], epoch + 1) = <<entries[k][1]>>
          BY <4>5, <5>1, <5>2, AtEpochHead
        <5> QED BY <4>2, <4>3, <4>5, <5>1, <5>3, OneRev DEF ValueIn, ChainIn, Dead
      <4> QED BY <4>4, <4>5
    <3>3. iterEpoch'[f] <= epoch'
      BY <1>2, <3>1
    <3>4. \A g \in Folders : g # f => UNCHANGED <<iterEpoch[g], snap[g], phase[g]>>
      BY <1>1 DEF FolderDid
    <3> QED BY <2>2, <3>1, <3>2, <3>3, <3>4 DEF ViewsStand
  <2>4. CASE ~Start(f)
    <3>1. \/ UNCHANGED <<iterEpoch, snap>> /\ (phase'[f] # "none" => phase[f] # "none")
          \/ phase'[f] = "none"
      BY <1>2, <1>5, <2>4 DEF FolderAct, FolderStep, WantStart, WantRelease, NextKey, NextEnd,
         LockBarrier, Raise, Drain, Lower, Notify, StartRefused, ReleaseCount, PendingBegin,
         PendingEnd, Rewrites, flocal, seen
    <3>2. \A g \in Folders : g # f => UNCHANGED <<iterEpoch[g], snap[g], phase[g]>>
      BY <1>1 DEF FolderDid
    <3>3. \A g \in Folders : phase'[g] # "none"
             => UNCHANGED <<iterEpoch[g], snap[g]>> /\ phase[g] # "none"
      BY <3>1, <3>2
    <3> QED BY <2>2, <3>3 DEF ViewsStand
  <2> QED BY <2>3, <2>4
<1> QED BY <1>4, <1>5

\* A fold that starts alone finds the pending table empty.
LEMMA StartFindsNothing ==
    ASSUME IInv, NEW f \in Folders, Start(f), keyfolders = 0, NEW k \in Keys
    PROVE  pending[k] = <<>>
<1>1. pc[f] = "start" /\ pc[f] \in Inside
  BY DEF Start, Inside
<1>2. Moving \subseteq Inside /\ "start" \notin Moving
  BY DEF Moving, Inside
<1>3. \A g \in Folders : pc[g] \notin Moving
  BY <1>1, <1>2, OneInside DEF IInv
<1> QED BY <1>3 DEF IInv, PendingInv

\* The steps of a folder before and after the ones that rewrite the tables.
LEMMA FolderOnward ==
    ASSUME FullInv, NEW f \in Folders, FolderAct(f), ~Rewrites(f)
    PROVE  /\ pc[f] # "collapse"
           /\ pc[f] \in Moving => pc'[f] \in Moving
           /\ keyfolders > 0 => keyfolders' > 0 \/ pc'[f] \in Moving
           /\ pc'[f] = "applying" => todo'[f] = InPending
           /\ pc'[f] = "clear" => pc[f] = "applying" /\ todo[f] = {}
           /\ \A g \in Folders : g # f => UNCHANGED <<pc[g], at[g], todo[g]>>
<1>1. /\ pc \in [Threads -> WriterPCs \cup ReaderPCs \cup FolderPCs] /\ f \in Threads
      /\ phase \in [Folders -> {"none", "open", "eof"}] /\ keyfolders \in Nat
      /\ todo \in [Folders -> SUBSET Keys] /\ why[f] \in {"start", "release"}
  BY Kinds DEF FullInv, IInv, TypeOK
<1>2. pc[f] # "collapse"
  BY DEF FolderAct, FolderStep, WantStart, WantRelease, NextKey, NextEnd, LockBarrier, Raise,
     Drain, Lower, Notify, Start, StartRefused, ReleaseCount, PendingBegin, PendingEnd, Rewrites,
     Collapse, PendingKey, PendingClear
<1>3. /\ pc[f] \in Moving => pc'[f] \in Moving
      /\ pc'[f] = "applying" => PendingBegin(f)
      /\ pc'[f] = "clear" => PendingEnd(f)
  BY <1>1 DEF FolderAct, FolderStep, WantStart, WantRelease, NextKey, NextEnd, LockBarrier, Raise,
     Drain, Lower, Notify, Start, StartRefused, ReleaseCount, PendingBegin, PendingEnd, Rewrites,
     Goto, AfterBarrier, Moving
<1>4. keyfolders > 0 => keyfolders' > 0 \/ pc'[f] \in Moving
  <2>1. CASE ReleaseCount(f)
    <3>1. keyfolders' = keyfolders - 1 /\ (keyfolders = 1 => pc'[f] = "pending")
      BY <1>1, <2>1 DEF ReleaseCount, Goto, IsLastFolder
    <3> QED BY <1>1, <3>1 DEF Moving
  <2>2. CASE Start(f)
    BY <1>1, <2>2 DEF Start
  <2>3. CASE ~ReleaseCount(f) /\ ~Start(f)
    BY <2>3 DEF FolderAct, FolderStep, WantStart, WantRelease, NextKey, NextEnd, LockBarrier,
       Raise, Drain, Lower, Notify, StartRefused, PendingBegin, PendingEnd, Rewrites
  <2> QED BY <2>1, <2>2, <2>3
<1>5. /\ PendingBegin(f) => todo'[f] = InPending
      /\ PendingEnd(f) => pc[f] = "applying" /\ todo[f] = {}
  BY <1>1 DEF PendingBegin, PendingEnd
<1>6. \A g \in Folders : g # f => UNCHANGED <<pc[g], at[g], todo[g]>>
  BY EveryFolderDid, Kinds DEF FolderDid, FullInv, MapInv
<1> QED BY <1>2, <1>3, <1>4, <1>5, <1>6

LEMMA FolderChains ==
    ASSUME FullInv, NEW f \in Folders, FolderAct(f)
    PROVE  ChainsStand'
<1> USE DEF FullInv, MapInv
<1>1. /\ entries \in [Keys -> Seq(Rev)] /\ pending \in [Keys -> Seq(Rev)]
      /\ pc \in [Threads -> WriterPCs \cup ReaderPCs \cup FolderPCs] /\ f \in Threads
      /\ at \in [Folders -> Shards] /\ ShardOf \in [Keys -> Shards] /\ NShards \in Nat
      /\ Shards \subseteq Nat /\ \A s \in Shards : 1 <= s /\ s <= NShards
  BY Kinds, ConstantsOK DEF IInv, TypeOK, Shards
<1>2. \A x : /\ ~Multi(<<>>) /\ Descending(<<>>) /\ ~Multi(<<x>>)
  BY DEF Multi, Descending
<1>3. \A x : Descending(<<x>>)
  <2>1. ASSUME NEW x PROVE DOMAIN <<x>> = {1}
    OBVIOUS
  <2> QED BY <2>1 DEF Descending
<1>4. \A g \in Folders : g # f => pc'[g] = pc[g] /\ at'[g] = at[g]
  BY EveryFolderDid, Kinds DEF FolderDid
<1>5. CASE ~Rewrites(f)
  <2>1. entries' = entries
    BY <1>5, FolderReads
  <2>2. \A g \in Folders : /\ pc[g] \in Moving => pc'[g] \in Moving
                           /\ pc[g] = "collapse" => pc'[g] = "collapse" /\ at'[g] = at[g]
    BY <1>4, <1>5, FolderOnward
  <2>3. keyfolders > 0 => keyfolders' > 0 \/ pc'[f] \in Moving
    BY <1>5, FolderOnward
  <2> QED BY <2>1, <2>2, <2>3 DEF ChainsStand
<1>6. CASE PendingKey(f)
  <2>1. \A k \in Keys : \/ entries'[k] = entries[k] \/ entries'[k] = <<>>
                        \/ entries'[k] = <<pending[k][1]>>
    BY <1>1, <1>6 DEF PendingKey
  <2>2. pc'[f] \in Moving
    BY <1>6 DEF PendingKey, Moving
  <2> QED BY <1>2, <1>3, <2>1, <2>2 DEF ChainsStand
<1>7. CASE PendingClear(f)
  <2>1. entries' = entries /\ pc'[f] = "collapse" /\ at'[f] = 1
    BY <1>1, <1>7 DEF PendingClear, Goto
  <2>2. \A k \in Keys : at'[f] <= ShardOf[k]
    BY <1>1, <2>1
  <2> QED BY <2>1, <2>2 DEF ChainsStand
<1>8. CASE Collapse(f)
  <2>1. ~(keyfolders > 0) /\ pc[f] = "collapse"
        /\ \A g \in Folders : pc[g] \notin Moving /\ (pc[g] = "collapse" => g = f)
    <3>1. keyfolders = 0 /\ \A g \in Folders : g # f => pc[g] \notin MovingOn
      BY <1>8, RewriterAlone DEF Rewrites
    <3>2. pc[f] = "collapse" /\ "collapse" \notin Moving
      BY <1>8 DEF Collapse, Moving
    <3> QED BY <3>1, <3>2 DEF MovingOn
  <2>2. ASSUME NEW k \in Keys
        PROVE  /\ Descending(entries'[k])
               /\ Multi(entries'[k]) => pc'[f] = "collapse" /\ at'[f] <= ShardOf[k]
    <3>1. CASE ShardOf[k] = at[f]
      <4>1. entries'[k] = Collapsed(entries[k])
        BY <1>8, <3>1 DEF Collapse
      <4> QED BY <1>2, <1>3, <4>1 DEF Collapsed
    <3>2. CASE ShardOf[k] # at[f]
      <4>1. entries'[k] = entries[k]
        BY <1>8, <3>2 DEF Collapse
      <4>2. Descending(entries'[k]) /\ (Multi(entries'[k]) => at[f] <= ShardOf[k])
        BY <2>1, <4>1 DEF ChainsStand
      <4>3. at[f] <= ShardOf[k] => at[f] < NShards /\ at[f] + 1 <= ShardOf[k]
        <5>1. at[f] \in Nat /\ ShardOf[k] \in Nat /\ ShardOf[k] <= NShards
          BY <1>1
        <5> QED BY <1>1, <3>2, <5>1
      <4>4. at[f] < NShards => pc'[f] = "collapse" /\ at'[f] = at[f] + 1
        BY <1>1, <1>8 DEF Collapse, Goto
      <4> QED BY <4>2, <4>3, <4>4
    <3> QED BY <3>1, <3>2
  <2> QED BY <2>2 DEF ChainsStand
<1> QED BY <1>5, <1>6, <1>7, <1>8 DEF Rewrites

LEMMA FolderPending ==
    ASSUME FullInv, NEW f \in Folders, FolderAct(f)
    PROVE  PendingMoved'
<1> USE DEF FullInv, MapInv
<1>1. /\ entries \in [Keys -> Seq(Rev)] /\ pending \in [Keys -> Seq(Rev)]
      /\ todo \in [Folders -> SUBSET Keys]
  BY DEF IInv, TypeOK
<1>2. \A g \in Folders : g # f => pc'[g] = pc[g] /\ todo'[g] = todo[g]
  BY EveryFolderDid, Kinds DEF FolderDid
<1>3. CASE ~Rewrites(f)
  <2>1. entries' = entries /\ pending' = pending
    BY <1>3, FolderReads
  <2>2. /\ pc'[f] = "applying" => todo'[f] = InPending
        /\ pc'[f] = "clear" => pc[f] = "applying" /\ todo[f] = {}
    BY <1>3, FolderOnward
  <2>3. ASSUME NEW g \in Folders, NEW k \in Keys, pending[k] # <<>>
        PROVE  /\ pc'[g] = "applying" /\ k \notin todo'[g] => MovedKey(k)
               /\ pc'[g] = "clear" => MovedKey(k)
    <3>1. CASE g = f
      BY <2>2, <2>3, <3>1 DEF PendingMoved, InPending
    <3>2. CASE g # f
      BY <1>2, <2>3, <3>2 DEF PendingMoved
    <3> QED BY <3>1, <3>2
  <2> QED BY <2>1, <2>3 DEF PendingMoved, MovedKey
<1>4. CASE PendingKey(f)
  <2>1. PICK j \in todo[f] :
          /\ todo' = [todo EXCEPT ![f] = todo[f] \ {j}]
          /\ entries' = [entries EXCEPT ![j] = IF pending[j][1].tomb THEN <<>> ELSE <<pending[j][1]>>]
    BY <1>4 DEF PendingKey
  <2>2. /\ pending' = pending /\ pending[j] # <<>> /\ j \in Keys /\ pc[f] = "applying"
        /\ Len(pending[j]) = 1 /\ pc' = pc
    BY <1>4, <2>1 DEF PendingKey, IInv, PendingInv, InPending
  <2>3. pending[j] = <<pending[j][1]>>
    BY <1>1, <2>2
  <2>4. \A k \in Keys : entries'[k] = IF k # j THEN entries[k]
                                      ELSE IF pending[j][1].tomb THEN <<>> ELSE pending[j]
    BY <1>1, <2>1, <2>2, <2>3
  <2>5. \A g \in Folders : g # f => pc[g] # "applying" /\ pc[g] # "clear"
    BY <1>4, RewriterAlone DEF Rewrites, MovingOn, Moving
  <2>6. ASSUME NEW k \in Keys, pending[k] # <<>>, k \notin todo'[f]
        PROVE  MovedKey(k)'
    <3>1. CASE k = j
      BY <2>2, <2>4, <3>1 DEF MovedKey
    <3>2. CASE k # j
      <4>1. k \notin todo[f]
        BY <1>1, <2>1, <2>6, <3>2
      <4>2. MovedKey(k)
        BY <2>2, <2>6, <4>1 DEF PendingMoved
      <4> QED BY <2>2, <2>4, <3>2, <4>2 DEF MovedKey
    <3> QED BY <3>1, <3>2
  <2> QED BY <2>2, <2>5, <2>6 DEF PendingMoved
<1>5. CASE PendingClear(f)
  BY <1>5 DEF PendingClear, PendingMoved
<1>6. CASE Collapse(f)
  <2>1. pending' = pending /\ pc[f] = "collapse"
    BY <1>6 DEF Collapse
  <2> QED BY <2>1, ReleaseEmpties DEF PendingMoved
<1> QED BY <1>3, <1>4, <1>5, <1>6 DEF Rewrites

LEMMA FolderBase ==
    ASSUME FullInv, NEW f \in Folders, FolderAct(f)
    PROVE  BaseStays'
<1> USE DEF FullInv, MapInv
<1>0. keyfolders \in Nat
  BY DEF IInv, TypeOK
<1>1. CASE Rewrites(f)
  BY <1>1, RewriterAlone DEF BaseStays
<1>2. CASE ~Rewrites(f)
  <2>1. entries' = entries
    BY <1>2, FolderReads
  <2>2. CASE Start(f)
    <3>1. CASE keyfolders = 0
      <4>1. \A k \in Keys : IsLive(k) => entries[k] # <<>>
        BY <2>2, <3>1, StartFindsNothing DEF IsLive, Current, ValueIn, ChainIn
      <4> QED BY <2>1, <2>2, <3>1, <4>1 DEF Start, BaseStays
    <3>2. CASE keyfolders # 0
      BY <1>0, <2>1, <2>2, <3>2 DEF Start, BaseStays
    <3> QED BY <3>1, <3>2
  <2>3. CASE ReleaseCount(f)
    <3>1. CASE keyfolders = 1
      BY <2>3, <3>1 DEF ReleaseCount, BaseStays
    <3>2. CASE keyfolders # 1
      <4>1. base' = base /\ keyfolders' = keyfolders - 1
        BY <2>3, <3>2 DEF ReleaseCount
      <4>2. keyfolders' > 0 => keyfolders > 0
        BY <1>0, <4>1
      <4> QED BY <2>1, <4>1, <4>2 DEF BaseStays
    <3> QED BY <3>1, <3>2
  <2>4. CASE ~Start(f) /\ ~ReleaseCount(f)
    <3>1. keyfolders' = keyfolders /\ base' = base
      BY <1>2, <2>4 DEF FolderAct, FolderStep, WantStart, WantRelease, NextKey, NextEnd,
         LockBarrier, Raise, Drain, Lower, Notify, StartRefused, PendingBegin, PendingEnd,
         Rewrites, seen
    <3> QED BY <2>1, <3>1 DEF BaseStays
  <2> QED BY <2>2, <2>3, <2>4
<1> QED BY <1>1, <1>2

LEMMA FolderCounts ==
    ASSUME FullInv, NEW f \in Folders, FolderAct(f)
    PROVE  CountsHold'
<1> USE DEF FullInv, MapInv
<1>1. keyCount' = keyCount /\ live' = live
  BY EveryFolderDid DEF FolderDid
<1>2. LiveKeys' = LiveKeys
  BY FolderHeads, HeadTells DEF HeadsKept, LiveKeys
<1>3. ASSUME NEW g \in Files PROVE live'[g] = Cardinality(LiveIn(g)')
  <2>1. \A k \in Keys : LivesIn(Chain(k), g)' <=> LivesIn(Chain(k), g)
    BY FolderHeads, HeadTells DEF HeadsKept
  <2>2. LiveIn(g)' = LiveIn(g)
    BY <2>1 DEF LiveIn
  <2> QED BY <1>1, <2>2 DEF CountsHold
<1>4. ASSUME NEW s \in Shards PROVE tombstones'[s] = Cardinality(Sweepable(entries', s))
  <2>0. /\ tombstones[s] = Cardinality(Sweepable(entries, s)) /\ tombstones \in [Shards -> Int]
        /\ entries \in [Keys -> Seq(Rev)] /\ ShardOf \in [Keys -> Shards]
    BY ConstantsOK DEF CountsHold, IInv, TypeOK
  <2>1. CASE ~Rewrites(f)
    BY <2>0, <2>1, FolderReads
  <2>2. CASE PendingKey(f)
    <3>1. PICK j \in todo[f] :
            LET q == ShardOf[j]
                wasTomb == /\ entries[j] # <<>> /\ Single(entries[j])
                           /\ entries[j][1].tomb /\ tombstones[q] > 0
            IN /\ entries' = [entries EXCEPT ![j] = IF pending[j][1].tomb THEN <<>>
                                                    ELSE <<pending[j][1]>>]
               /\ tombstones' = [tombstones EXCEPT ![q] = IF wasTomb THEN tombstones[q] - 1
                                                          ELSE tombstones[q]]
      BY <2>2 DEF PendingKey
    <3>2. j \in Keys
      BY <3>1 DEF IInv, TypeOK
    <3>3. \A k \in Keys : k # j => entries'[k] = entries[k]
      BY <2>0, <3>1, <3>2
    <3>4. ~LoneTomb(entries'[j])
      <4>1. \A x : <<x>>[1] = x /\ ~Single(<<>>)
        BY DEF Single
      <4> QED BY <2>0, <3>1, <3>2, <4>1 DEF LoneTomb
    <3>5. \A k \in Keys : /\ k \in Sweepable(entries, s) <=> ShardOf[k] = s /\ LoneTomb(entries[k])
                          /\ k \in Sweepable(entries', s) <=> ShardOf[k] = s /\ LoneTomb(entries'[k])
      BY DEF Sweepable, LoneTomb
    <3>6. Sweepable(entries, s) \subseteq Keys /\ Sweepable(entries', s) \subseteq Keys
      BY DEF Sweepable
    <3>7. CASE s # ShardOf[j]
      <4>1. Sweepable(entries', s) = Sweepable(entries, s)
        BY <3>3, <3>5, <3>6, <3>7
      <4>2. tombstones'[s] = tombstones[s]
        BY <2>0, <3>1, <3>7
      <4> QED BY <2>0, <4>1, <4>2
    <3>8. CASE s = ShardOf[j]
      <4>1. OffBy(Sweepable(entries, s), Sweepable(entries', s), j)
        BY <3>2, <3>3, <3>5, <3>6 DEF OffBy
      <4>2. /\ j \notin Sweepable(entries', s)
            /\ j \in Sweepable(entries, s) <=> LoneTomb(entries[j])
        BY <3>2, <3>4, <3>5, <3>8
      <4>3. PICK n \in Nat : n = Cardinality(Sweepable(entries, s))
        BY <4>1, CountOff
      <4>4. Cardinality(Sweepable(entries', s)) = IF LoneTomb(entries[j]) THEN n - 1 ELSE n
        BY <4>1, <4>2, <4>3, CountOff
      <4>5. LoneTomb(entries[j]) => n > 0
        <5>1. Cardinality(Sweepable(entries', s)) \in Nat
          BY <3>6, KeySets
        <5> QED BY <4>3, <4>4, <5>1
      <4>6. tombstones'[s] = IF LoneTomb(entries[j]) THEN n - 1 ELSE n
        <5>1. tombstones[s] = n
          BY <2>0, <4>3
        <5>2. LoneTomb(entries[j]) => entries[j] # <<>>
          BY <2>0, <3>2, ChainLength DEF LoneTomb, Single
        <5> QED BY <2>0, <3>1, <3>8, <4>5, <5>1, <5>2 DEF LoneTomb
      <4> QED BY <4>4, <4>6
    <3> QED BY <3>7, <3>8
  <2>3. CASE PendingClear(f)
    BY <2>0, <2>3 DEF PendingClear
  <2>4. CASE Collapse(f)
    <3>1. CASE s = at[f]
      <4>1. ASSUME NEW k \in Keys, ShardOf[k] = s PROVE ~LoneTomb(entries'[k])
        <5>1. entries'[k] = Collapsed(entries[k])
          BY <2>4, <3>1, <4>1 DEF Collapse
        <5>2. \A x : <<x>>[1] = x /\ ~Single(<<>>)
          BY DEF Single
        <5> QED BY <5>1, <5>2 DEF Collapsed, Dead, LoneTomb
      <4>2. Sweepable(entries', s) = {}
        BY <4>1 DEF Sweepable, LoneTomb
      <4> QED BY <2>0, <2>4, <3>1, <4>2, FS_EmptySet DEF Collapse
    <3>2. CASE s # at[f]
      <4>1. \A k \in Keys : ShardOf[k] = s => entries'[k] = entries[k]
        BY <2>4, <3>2 DEF Collapse
      <4>2. Sweepable(entries', s) = Sweepable(entries, s)
        BY <4>1 DEF Sweepable
      <4>3. tombstones'[s] = tombstones[s]
        BY <2>0, <2>4, <3>2 DEF Collapse
      <4> QED BY <2>0, <4>2, <4>3
    <3> QED BY <3>1, <3>2
  <2> QED BY <2>1, <2>2, <2>3, <2>4 DEF Rewrites
<1> QED BY <1>1, <1>2, <1>3, <1>4 DEF CountsHold

LEMMA FolderFullInv ==
    ASSUME FullInv, IInv', NEW f \in Folders, FolderAct(f)
    PROVE  FullInv'
<1>1. OrdsPast' /\ SeenTables'
  BY FolderOrds, EveryFolderDid DEF FullInv, MapInv
<1> QED BY <1>1, FolderChains, FolderPending, FolderViews, FolderHands, FolderBase, FolderGets,
           FolderMovesApart, FolderCounts DEF FullInv, MapInv

-----------------------------------------------------------------------------
(* The whole invariant holds.                                              *)

LEMMA InitFullInv == ASSUME Init PROVE FullInv
<1> USE DEF Init
<1>1. IInv
  BY InitIInv
<1>2. \A k \in Keys : entries[k] = <<>> /\ pending[k] = <<>> /\ Chain(k) = <<>> /\ Dead(Chain(k))
  BY DEF Chain, ChainIn, Dead
<1>3. DOMAIN <<>> = {} /\ ~Multi(<<>>) /\ ~Single(<<>>)
  BY DEF Multi, Single
<1>4. OrdsPast /\ ChainsStand /\ PendingMoved
  <2>1. 0 < nextOrd /\ nextOrd <= ops + 1
    OBVIOUS
  <2>2. \A k \in Keys : RevsPast(entries[k]) /\ RevsPast(pending[k]) /\ Descending(entries[k])
    BY <1>2, <1>3 DEF RevsPast, Descending
  <2> QED BY <1>2, <1>3, <2>1, <2>2 DEF OrdsPast, ChainsStand, PendingMoved
<1>5. ViewsStand /\ FoldsHandOut /\ BaseStays
  BY Kinds DEF ViewsStand, FoldsHandOut, BaseStays
<1>6. GetsWatch /\ MovesApart /\ SeenTables
  <2>1. \A r \in Readers : pc[r] = "idle" /\ asked[r] = NoKey
    BY Kinds
  <2>2. \A w \in Writers : req[w].op = "none"
    BY DEF NoReq
  <2> QED BY <2>1, <2>2 DEF GetsWatch, MovesApart, SeenTables
<1>7. CountsHold
  <2>1. LiveKeys = {} /\ \A f : LiveIn(f) = {}
    BY <1>2 DEF LiveKeys, LiveIn, LivesIn
  <2>2. \A s : Sweepable(entries, s) = {}
    BY <1>2, <1>3 DEF Sweepable
  <2> QED BY <2>1, <2>2, FS_EmptySet DEF CountsHold
<1> QED BY <1>1, <1>4, <1>5, <1>6, <1>7 DEF FullInv, MapInv

\* Where a step of the specification comes from.
LEMMA NextSplits ==
    ASSUME Next
    PROVE  \/ \E w \in Writers : IsWrite(w)
           \/ \E w \in Writers : Lock(w) \/ Gate(w) \/ Wait(w) \/ Probe(w) \/ Meta(w)
                                   \/ Peek(w) \/ PeekMeta(w)
           \/ \E w \in Writers, k \in Keys : BeginPut(w, k) \/ BeginRemove(w, k)
                                               \/ BeginMove(w, k) \/ BeginTtl(w, k)
           \/ \E r \in Readers : ReaderStep(r)
           \/ \E r \in Readers, k \in Keys : GetBegin(r, k)
           \/ \E f \in Folders : FolderAct(f)
           \/ IncrementFileId
           \/ UNCHANGED vars
  BY DEF Next, WriterStep, IsWrite, FolderAct, Rest

LEMMA StillFullInv ==
    ASSUME FullInv, IInv', UNCHANGED vars
    PROVE  FullInv'
<1> USE DEF FullInv, MapInv
<1>1. /\ Quiet /\ UNCHANGED <<pc, req, asked, window, phase, snap, out, base>>
      /\ UNCHANGED <<at, todo, why, iterEpoch, nextOrd, ops, biggest, mergeFiles>>
  BY DEF vars, Quiet, data, stats, wlocal, flocal, input, seen
<1>2. StillPart'
  BY <1>1, QuietKeeps DEF StillPart, FoldersCalm
<1>3. ViewsStand' /\ FoldsHandOut' /\ GetsWatch' /\ OrdsPast' /\ SeenTables'
  BY <1>1, QuietViews, QuietHands, QuietGets, QuietOrds DEF Quiet, SeenTables
<1>4. MovesApart'
  BY <1>1, QuietMoves DEF Quiet
<1> QED BY <1>2, <1>3, <1>4 DEF StillPart

LEMMA NextFullInv ==
    ASSUME FullInv, [Next]_vars
    PROVE  FullInv'
<1>1. IInv'
  BY NextIInv DEF FullInv
<1>2. CASE UNCHANGED vars
  BY <1>1, <1>2, StillFullInv
<1>3. CASE Next
  <2>1. ASSUME NEW w \in Writers, IsWrite(w) PROVE FullInv'
    BY <1>1, <2>1, WriteFullInv
  <2>2. ASSUME NEW w \in Writers, Lock(w) \/ Gate(w) \/ Wait(w) \/ Probe(w) \/ Meta(w)
                                    \/ Peek(w) \/ PeekMeta(w)
        PROVE  FullInv'
    BY <1>1, <2>2, GateFullInv
  <2>3. ASSUME NEW w \in Writers, NEW k \in Keys,
               BeginPut(w, k) \/ BeginRemove(w, k) \/ BeginMove(w, k) \/ BeginTtl(w, k)
        PROVE  FullInv'
    <3>1. PICK r \in Requests : Begun(w, r)
      BY <2>3, EveryCallBegun DEF FullInv, IInv
    <3> QED BY <1>1, <3>1, BeginFullInv
  <2>4. ASSUME NEW r \in Readers, ReaderStep(r) PROVE FullInv'
    BY <1>1, <2>4, ReaderFullInv
  <2>5. ASSUME NEW r \in Readers, NEW k \in Keys, GetBegin(r, k) PROVE FullInv'
    BY <1>1, <2>5, GetBeginFullInv
  <2>6. ASSUME NEW f \in Folders, FolderAct(f) PROVE FullInv'
    BY <1>1, <2>6, FolderFullInv
  <2>7. CASE IncrementFileId
    BY <1>1, <2>7, IncrementFullInv
  <2> QED BY <1>2, <1>3, <2>1, <2>2, <2>3, <2>4, <2>5, <2>6, <2>7, NextSplits
<1> QED BY <1>2, <1>3

\* The invariant that everything below follows from.
THEOREM FullInvariance == Spec => []FullInv
<1>1. Init => FullInv
  BY InitFullInv
<1>2. FullInv /\ [Next]_vars => FullInv'
  BY NextFullInv
<1> QED BY <1>1, <1>2, PTL DEF Spec

\* Sibling chains are newest first, stamped with epochs that have come, and
\* stand only while a fold or its release runs (entry_at_epoch, keydir.cpp).
THEOREM ChainsAreOrdered == Spec => []ChainsNewestFirst
<1>1. FullInv => ChainsNewestFirst
  <2> SUFFICES ASSUME FullInv PROVE ChainsNewestFirst
    OBVIOUS
  <2>1. ASSUME NEW k \in Keys, Len(entries[k]) > 1
        PROVE  keyfolders > 0 \/ barrierOwner # NoOne
    <3>1. CASE keyfolders > 0
      BY <3>1
    <3>2. CASE \E f \in Folders : pc[f] \in Moving \cup {"collapse"}
      <4>1. PICK f \in Folders : pc[f] \in Moving \cup {"collapse"}
        BY <3>2
      <4>2. barrierOwner = f
        BY <4>1 DEF FullInv, IInv, LockInv, BarrierHeld, Inside, Moving
      <4> QED BY <4>2, Kinds
    <3> QED BY <2>1, <3>1, <3>2 DEF FullInv, MapInv, ChainsStand, Multi
  <2> QED BY <2>1 DEF FullInv, MapInv, ChainsStand, OrdsPast, RevsPast, Descending, ChainsNewestFirst
<1> QED BY <1>1, FullInvariance, PTL

\* key_count_, the live keys of each file and each shard's tombstones are what
\* a scan would count, whatever runs beside it (keydir.cpp's fstats).
THEOREM CountersAreExact == Spec => []CountersExact
<1>1. FullInv => CountersExact
  BY CountsMean DEF FullInv, MapInv, IInv
<1> QED BY <1>1, FullInvariance, PTL

-----------------------------------------------------------------------------
(* What a step may never do.                                               *)

\* A call ends with its write.
LEMMA ApplyIsWrite ==
    ASSUME IInv, [Next]_vars, NEW w \in Writers, pc[w] = "apply", pc'[w] # "apply"
    PROVE  IsWrite(w)
<1>0. pc \in [Threads -> WriterPCs \cup ReaderPCs \cup FolderPCs]
  BY DEF IInv, TypeOK
<1>1. ASSUME NEW t \in Threads, pc' = pc \/ \E there : pc' = [pc EXCEPT ![t] = there]
      PROVE  t = w
  BY <1>0, <1>1, Kinds
<1>2. ~UNCHANGED vars
  BY DEF vars
<1>3. ASSUME NEW v \in Writers, IsWrite(v) PROVE v = w
  BY <1>3, WriteRests, Kinds
<1>4. ASSUME NEW v \in Writers, \/ Lock(v) \/ Gate(v) \/ Wait(v) \/ Probe(v) \/ Meta(v)
                                \/ Peek(v) \/ PeekMeta(v)
      PROVE  FALSE
  <2>1. pc' = pc \/ \E there : pc' = [pc EXCEPT ![v] = there]
    BY <1>4 DEF Lock, Gate, Wait, Probe, Meta, Peek, PeekMeta, EndPeek, Goto
  <2>2. pc[v] # "apply"
    BY <1>4 DEF Lock, Gate, Wait, Probe, Meta, Peek, PeekMeta
  <2>3. v \in Threads
    BY Kinds
  <2> QED BY <1>1, <2>1, <2>2, <2>3
<1>5. ASSUME NEW v \in Writers, NEW k \in Keys,
             BeginPut(v, k) \/ BeginRemove(v, k) \/ BeginMove(v, k) \/ BeginTtl(v, k)
      PROVE  FALSE
  <2>1. PICK r \in Requests : Begun(v, r)
    BY <1>5, EveryCallBegun DEF IInv
  <2>2. pc[v] # "apply" /\ \E there : pc' = [pc EXCEPT ![v] = there]
    BY <2>1 DEF Begun, Goto
  <2>3. v \in Threads
    BY Kinds
  <2> QED BY <1>1, <2>2, <2>3
<1>6. ASSUME NEW r \in Readers, ReaderStep(r) \/ \E k \in Keys : GetBegin(r, k)
      PROVE  FALSE
  <2>1. \E there : pc' = [pc EXCEPT ![r] = there]
    BY <1>6 DEF ReaderStep, GetBegin, GetKeyfolders, GetHasPending, GetOptimistic, GetLocked,
       GetPending, Return, Goto
  <2>2. r \in Threads /\ r # w
    BY Kinds
  <2> QED BY <1>1, <2>1, <2>2
<1>7. ASSUME NEW f \in Folders, FolderAct(f)
      PROVE  FALSE
  <2>1. pc' = pc \/ \E there : pc' = [pc EXCEPT ![f] = there]
    BY <1>7 DEF FolderAct, FolderStep, WantStart, WantRelease, NextKey, NextEnd, LockBarrier,
       Raise, Drain, Lower, Notify, Start, StartRefused, ReleaseCount, PendingBegin, PendingKey,
       PendingEnd, PendingClear, Collapse, Goto
  <2>2. f \in Threads /\ f # w
    BY Kinds
  <2> QED BY <1>1, <2>1, <2>2
<1>8. ~IncrementFileId
  BY DEF IncrementFileId
<1> QED BY <1>2, <1>3, <1>4, <1>5, <1>6, <1>7, <1>8, NextSplits

\* A merge never costs a write: pointing a key at its copy keeps the value, and
\* expiring a record removes that record only (put_probe's compare-and-swap and
\* conditional_remove, keydir.cpp).
THEOREM MergesLoseNothing == Spec => MergeLosesNoWrite
<1>1. ASSUME FullInv, [Next]_vars, NEW w \in Writers, NEW k \in Keys, NEW o \in 1..MaxOps,
             pc[w] = "apply", pc'[w] = "idle", req[w].op \in {"move", "ttl"},
             req[w].key = k, req[w].ord = o
      PROVE  \/ Current(k)' = Current(k)
             \/ req[w].op = "ttl" /\ Current(k) = o /\ Current(k)' = Absent
  <2>1. IsWrite(w)
    BY <1>1, ApplyIsWrite DEF FullInv
  <2>2. PICK e \in Rev, c \in Seq(Rev), p \in Seq(Rev), gone \in SUBSET Keys :
           Written(w, e, c, p, gone)
    BY <1>1, <2>1, EveryWriteIsDone DEF FullInv, Done
  <2>3. CASE Keeps(k, c, p)
    <3>1. HeadKept(k)
      BY <1>1, <2>1, <2>2, <2>3, WriteHeads DEF FullInv
    <3> QED BY <3>1, HeadTells
  <2>4. CASE ~Keeps(k, c, p)
    <3>1. \/ Chain(k)' = <<>> /\ e.tomb
          \/ Chain(k)' # <<>> /\ Chain(k)'[1] = e
      BY <1>1, <2>1, <2>2, <2>4, WriteHeads DEF FullInv
    <3>2. /\ Asks(w, e, c, p) /\ Author(w, e) /\ ~Dead(Chain(k))
      BY <1>1, <2>2, <2>4 DEF Written, Asks
    <3>3. Current(k) = Chain(k)[1].ord
      BY <1>1, <3>2, LiveIs DEF FullInv, IInv, MapInv
    <3>4. Current(k)' = IF Chain(k)' = <<>> \/ Chain(k)'[1].tomb THEN Absent ELSE Chain(k)'[1].ord
      BY DEF Current, ValueIn, Chain
    <3>5. CASE req[w].op = "move"
      <4>1. ~e.tomb /\ Accepts(req[w], Chain(k)[1])
        BY <1>1, <2>4, <3>2, <3>5 DEF Asks
      <4>2. Chain(k) # <<>> /\ Chain(k)[1].file # req[w].file
        BY <1>1, <3>2, <3>5 DEF Dead, FullInv, MapInv, MovesApart
      <4>3. req[w].ord = Chain(k)[1].ord
        BY <3>5, <4>1, <4>2 DEF Accepts
      <4>4. e.ord = req[w].ord
        BY <3>2, <4>1 DEF Author
      <4> QED BY <3>1, <3>3, <3>4, <4>1, <4>3, <4>4
    <3>6. CASE req[w].op = "ttl"
      <4>1. e.tomb /\ Chain(k)[1].ord = o
        BY <1>1, <2>4, <3>2, <3>6 DEF Asks, Expected
      <4> QED BY <3>1, <3>3, <3>4, <3>6, <4>1
    <3> QED BY <1>1, <3>5, <3>6
  <2> QED BY <2>3, <2>4
<1>2. FullInv /\ [Next]_vars =>
        [\A w \in Writers, k \in Keys, o \in 1..MaxOps :
          /\ pc[w] = "apply" /\ pc'[w] = "idle"
          /\ req[w].op \in {"move", "ttl"} /\ req[w].key = k /\ req[w].ord = o
          => \/ Current(k)' = Current(k)
             \/ req[w].op = "ttl" /\ Current(k) = o /\ Current(k)' = Absent]_vars
  BY <1>1
<1> QED BY <1>2, FullInvariance, PTL DEF Spec, MergeLosesNoWrite

\* What a running fold will be told of any key never changes (the iterator's
\* epoch, the pending table and the barrier of keydir.cpp together).
THEOREM FoldViewsStand == Spec => FoldViewStands
<1>1. ASSUME FullInv, [Next]_vars, NEW g \in Folders, phase[g] # "none", phase'[g] # "none",
             NEW k \in Keys
      PROVE  ViewOf(g, k)' = ViewOf(g, k)
  <2>1. ASSUME NEW w \in Writers, IsWrite(w) PROVE ViewOf(g, k)' = ViewOf(g, k)
    <3>1. PICK e \in Rev, c \in Seq(Rev), p \in Seq(Rev), gone \in SUBSET Keys :
             Written(w, e, c, p, gone)
      BY <1>1, <2>1, EveryWriteIsDone DEF FullInv, Done
    <3>2. PICK j : j = req[w].key
      OBVIOUS
    <3> QED BY <1>1, <2>1, <3>1, <3>2, WriteKeepsViews DEF FullInv, MapInv
  <2>2. ASSUME NEW f \in Folders, FolderAct(f) PROVE ViewOf(g, k)' = ViewOf(g, k)
    BY <1>1, <2>2, FolderViews
  <2>3. ASSUME UNCHANGED <<entries, iterEpoch>> PROVE ViewOf(g, k)' = ViewOf(g, k)
    BY <2>3 DEF ViewOf
  <2>4. ASSUME NEW w \in Writers, \/ Lock(w) \/ Gate(w) \/ Wait(w) \/ Probe(w) \/ Meta(w)
                                  \/ Peek(w) \/ PeekMeta(w)
        PROVE  UNCHANGED <<entries, iterEpoch>>
    BY <2>4 DEF Lock, Gate, Wait, Probe, Meta, Peek, PeekMeta, data, flocal
  <2>5. ASSUME NEW w \in Writers, NEW j \in Keys,
               BeginPut(w, j) \/ BeginRemove(w, j) \/ BeginMove(w, j) \/ BeginTtl(w, j)
        PROVE  UNCHANGED <<entries, iterEpoch>>
    BY <2>5 DEF BeginPut, BeginRemove, BeginMove, BeginTtl, Begin, data, flocal
  <2>6. ASSUME NEW r \in Readers, ReaderStep(r) \/ \E j \in Keys : GetBegin(r, j)
        PROVE  UNCHANGED <<entries, iterEpoch>>
    BY <2>6 DEF ReaderStep, GetBegin, GetKeyfolders, GetHasPending, GetOptimistic, GetLocked,
       GetPending, data, flocal
  <2>7. IncrementFileId \/ UNCHANGED vars => UNCHANGED <<entries, iterEpoch>>
    BY DEF IncrementFileId, vars, data, flocal
  <2> QED BY <1>1, <2>1, <2>2, <2>3, <2>4, <2>5, <2>6, <2>7, NextSplits
<1>2. FullInv /\ [Next]_vars =>
        [\A f \in Folders : phase[f] # "none" /\ phase'[f] # "none"
           => \A k \in Keys : ViewOf(f, k)' = ViewOf(f, k)]_vars
  BY <1>1
<1> QED BY <1>2, FullInvariance, PTL DEF Spec, FoldViewStands

-----------------------------------------------------------------------------
(* KeyDir implements KeyDirMap.                                            *)

\* The map a caller sees.
Seen == [k \in Keys |-> Current(k)]

LEMMA SameSeen ==
    ASSUME \A k \in Keys : Current(k)' = Current(k)
    PROVE  Seen' = Seen
  BY DEF Seen

LEMMA MapInit == ASSUME Init PROVE Map!Init
<1>1. \A k \in Keys : Current(k) = Absent
  BY DEF Init, Current, ValueIn, ChainIn
<1> QED BY <1>1 DEF Init, Map!Init, Absent, Map!Absent, NoKey, Map!NoKey

\* A write is the map's write of its key, or changes nothing a caller sees.
LEMMA MapWrite ==
    ASSUME FullInv, NEW w \in Writers, IsWrite(w)
    PROVE  UNCHANGED Map!vars \/ \E k \in Keys, v \in Map!Value : Map!Write(k, v)
<1>1. PICK e \in Rev, c \in Seq(Rev), p \in Seq(Rev), gone \in SUBSET Keys :
         Written(w, e, c, p, gone)
  BY EveryWriteIsDone DEF FullInv, Done
<1>2. PICK k \in Keys : k = req[w].key
  BY AboutToWrite DEF FullInv
<1>3. /\ \A j \in Keys \ {k} : \/ Chain(j)' = Chain(j)
                               \/ Chain(j)' = <<>> /\ Dead(Chain(j))
      /\ Keeps(k, c, p) => HeadKept(k)
      /\ ~Keeps(k, c, p) => \/ Chain(k)' = <<>> /\ e.tomb
                            \/ Chain(k)' # <<>> /\ Chain(k)'[1] = e
      /\ Dead(Chain(k))' <=> Dead(Newer(c, p))
  BY <1>1, <1>2, WriteHeads DEF FullInv
<1>4. \A j \in Keys : Current(j)' = IF Chain(j)' = <<>> \/ Chain(j)'[1].tomb THEN Absent
                                     ELSE Chain(j)'[1].ord
  BY DEF Current, ValueIn, Chain
<1>5. \A j \in Keys : Dead(Chain(j)) => Current(j) = Absent
  BY DEF Current, ValueIn, Chain, Dead
<1>6. ASSUME NEW j \in Keys \ {k} PROVE Current(j)' = Current(j)
  <2>1. CASE Chain(j)' = Chain(j)
    BY <2>1 DEF Current, ValueIn, Chain
  <2>2. CASE Chain(j)' = <<>> /\ Dead(Chain(j))
    BY <1>4, <1>5, <2>2
  <2> QED BY <1>3, <2>1, <2>2
<1>7. Keeps(k, c, p) => Current(k)' = Current(k)
  BY <1>3, HeadTells
<1>8. Current(k)' \in Map!Value
  <2>1. /\ nextOrd \in Nat /\ 0 < nextOrd /\ nextOrd <= ops + 1 /\ ops \in Nat /\ ops <= MaxOps
        /\ MaxOps \in Nat
    BY OrdTypes, ConstantsOK DEF FullInv, MapInv, OrdsPast, IInv, TypeOK
  <2>2. \A n \in Nat : n < nextOrd => n \in 0..MaxOps
    BY <2>1
  <2>3. CASE Keeps(k, c, p)
    <3>1. Current(k) \in Nat /\ Current(k) < nextOrd
      BY LiveIs DEF FullInv, IInv, MapInv
    <3> QED BY <1>7, <2>2, <2>3, <3>1 DEF Map!Value
  <2>4. CASE ~Keeps(k, c, p) /\ e.tomb
    BY <1>3, <1>4, <2>1, <2>2, <2>4 DEF Map!Value, Absent
  <2>5. CASE ~Keeps(k, c, p) /\ ~e.tomb
    <3>1. e.ord = req[w].ord /\ e.ord \in Nat
      BY <1>1, <2>5 DEF Written, Author, Rev
    <3>2. req[w] # NoReq
      BY AboutToWrite DEF FullInv, NoReq, Requests
    <3>3. req[w].ord < nextOrd
      BY <3>2 DEF FullInv, MapInv, OrdsPast
    <3> QED BY <1>3, <1>4, <2>2, <2>5, <3>1, <3>3 DEF Map!Value
  <2> QED BY <2>3, <2>4, <2>5
<1>9. UNCHANGED <<asked, ret, phase, snap, out, base>>
  BY <1>1 DEF Written, Watched
<1>10. Seen' = [Seen EXCEPT ![k] = Current(k)']
  <2>1. \A j \in Keys : Seen'[j] = [Seen EXCEPT ![k] = Current(k)'][j]
    BY <1>6 DEF Seen
  <2> QED BY <2>1 DEF Seen
<1>11. CASE Observe(k)
  <2>1. window' = [r \in Readers |-> IF asked[r] = k THEN window[r] \cup {Current(k)'} ELSE window[r]]
    BY <1>11 DEF Observe, Current
  <2>2. Map!Write(k, Current(k)')
    BY <1>9, <1>10, <2>1 DEF Map!Write, Seen
  <2> QED BY <1>8, <2>2
<1>12. CASE UNCHANGED window /\ (Keeps(k, c, p) \/ (Dead(Chain(k)) /\ Dead(Newer(c, p))))
  <2>1. Current(k)' = Current(k)
    <3>1. CASE Dead(Chain(k)) /\ Dead(Newer(c, p))
      <4>1. Dead(Chain(k))'
        BY <1>3, <3>1
      <4>2. Chain(k)' # <<>> => Chain(k)'[1].tomb
        BY <4>1 DEF Dead
      <4> QED BY <1>4, <1>5, <3>1, <4>2
    <3> QED BY <1>7, <1>12, <3>1
  <2>2. Seen' = Seen
    BY <1>6, <2>1, SameSeen
  <2> QED BY <1>9, <1>12, <2>2 DEF Map!vars, Seen
<1> QED BY <1>1, <1>2, <1>11, <1>12 DEF Written, Watched

\* A get answers with a value its key had during the call.
LEMMA MapReader ==
    ASSUME FullInv, NEW r \in Readers, ReaderStep(r)
    PROVE  UNCHANGED Map!vars \/ Map!GetEnd(r)
<1>1. UNCHANGED <<entries, pending>>
  BY DEF ReaderStep, GetKeyfolders, GetHasPending, GetOptimistic, GetLocked, GetPending, data
<1>2. Seen' = Seen
  BY <1>1 DEF Seen, Current
<1>3. UNCHANGED <<phase, snap, out, base>> /\ asked[r] # NoKey
      /\ (UNCHANGED <<asked, window, ret>> \/ \E v \in window[r] : Return(r, v))
  BY ReaderAnswers
<1>4. CASE UNCHANGED <<asked, window, ret>>
  BY <1>2, <1>3, <1>4 DEF Map!vars, Seen
<1>5. ASSUME NEW v \in window[r], Return(r, v) PROVE Map!GetEnd(r)
  BY <1>2, <1>3, <1>5 DEF Map!GetEnd, Seen, Return, NoKey, Map!NoKey
<1> QED BY <1>3, <1>4, <1>5

LEMMA MapGetBegin ==
    ASSUME FullInv, NEW r \in Readers, NEW k \in Keys, GetBegin(r, k)
    PROVE  Map!GetBegin(r, k)
<1>1. asked[r] = NoKey
  BY DEF FullInv, MapInv, GetsWatch, GetBegin
<1>2. Seen' = Seen /\ Seen[k] = Current(k)
  BY DEF GetBegin, data, Seen, Current
<1> QED BY <1>1, <1>2 DEF GetBegin, Map!GetBegin, Seen, NoKey, Map!NoKey

\* A fold that starts hides at most the keys that only the pending table has.
LEMMA MapStart ==
    ASSUME FullInv, NEW f \in Folders, Start(f)
    PROVE  Map!FoldStart(f)
<1> DEFINE hidden == {k \in Keys : entries[k] = <<>> /\ Current(k) # Absent}
<1>1. phase[f] = "none"
  BY DEF Start, FullInv, IInv, FoldsCounted
<1>2. keyfolders \in Nat /\ (keyfolders = 0 <=> Map!NoFold)
  <2>1. keyfolders \in Nat
    BY DEF FullInv, IInv, TypeOK
  <2>2. keyfolders > 0 <=> \E g \in Folders : phase[g] # "none"
    BY FoldsAreCounted DEF FullInv
  <2> QED BY <2>1, <2>2 DEF Map!NoFold
<1>3. Map!Live = {k \in Keys : IsLive(k)}
  BY DEF Map!Live, IsLive, Absent, Map!Absent
<1>4. base' = IF Map!NoFold THEN Map!Live ELSE base
  BY <1>2, <1>3 DEF Start
<1>5. Map!NoFold => hidden = {}
  <2>1. Map!NoFold => \A k \in Keys : pending[k] = <<>>
    BY <1>2, StartFindsNothing DEF FullInv
  <2> QED BY <2>1 DEF Current, ValueIn, ChainIn
<1>6. hidden \in SUBSET (Keys \ base')
  <2>1. CASE Map!NoFold
    BY <1>5, <2>1
  <2>2. CASE ~Map!NoFold
    <3>1. keyfolders > 0 /\ base' = base
      BY <1>2, <1>4, <2>2
    <3> QED BY <3>1 DEF FullInv, MapInv, BaseStays
  <2> QED BY <2>1, <2>2
<1>7. [k \in Keys |-> ValueIn(entries, [j \in Keys |-> <<>>], k)]
         = [k \in Keys |-> IF k \in hidden THEN Absent ELSE Seen[k]]
  <2>1. ASSUME NEW k \in Keys
        PROVE  ValueIn(entries, [j \in Keys |-> <<>>], k) = IF k \in hidden THEN Absent ELSE Seen[k]
    BY DEF Seen, Current, ValueIn, ChainIn
  <2> QED BY <2>1
<1>8. Seen' = Seen
  BY DEF Start, data, Seen, Current
<1> HIDE DEF hidden
<1>9. \E h \in SUBSET (Keys \ base') :
        /\ Map!NoFold => h = {}
        /\ snap' = [snap EXCEPT ![f] = [k \in Keys |-> IF k \in h THEN Map!Absent ELSE Seen[k]]]
  BY <1>5, <1>6, <1>7 DEF Start, Absent, Map!Absent
<1> QED BY <1>1, <1>4, <1>8, <1>9 DEF Start, Map!FoldStart, Seen

LEMMA MapRelease ==
    ASSUME FullInv, NEW f \in Folders, ReleaseCount(f)
    PROVE  Map!FoldRelease(f)
<1> DEFINE S == {g \in Folders : phase[g] # "none"}
<1>1. phase[f] # "none" /\ f \in S
  BY DEF ReleaseCount, FullInv, IInv, FoldsCounted
<1>2. keyfolders = Cardinality(S) /\ IsFiniteSet(S) /\ Cardinality(S) \in Nat
  BY ConstantsOK, FS_Subset, FS_CardinalityType DEF FullInv, IInv, FoldsCounted
<1>3. IsFiniteSet(S \ {f}) /\ Cardinality(S \ {f}) = Cardinality(S) - 1
  BY <1>1, <1>2, FS_RemoveElement
<1>4. Cardinality(S \ {f}) = 0 <=> S \ {f} = {}
  BY <1>3, FS_EmptySet
<1>5. keyfolders = 1 <=> \A g \in Folders \ {f} : phase[g] = "none"
  BY <1>2, <1>3, <1>4
<1>6. Seen' = Seen
  BY DEF ReleaseCount, data, Seen, Current
<1> QED BY <1>1, <1>5, <1>6 DEF ReleaseCount, Map!FoldRelease, Seen, Absent, Map!Absent

LEMMA MapFolder ==
    ASSUME FullInv, NEW f \in Folders, FolderAct(f)
    PROVE  \/ UNCHANGED Map!vars
           \/ Map!FoldStart(f) \/ Map!FoldEnd(f) \/ Map!FoldRelease(f)
           \/ \E k \in Keys : Map!FoldYield(f, k)
<1>1. Seen' = Seen
  BY FolderHeads, HeadTells, SameSeen DEF HeadsKept
<1>2. CASE Start(f)
  BY <1>2, MapStart
<1>3. CASE ReleaseCount(f)
  BY <1>3, MapRelease
<1>4. CASE NextKey(f)
  <2>1. UNCHANGED <<asked, window, ret, phase, snap, base>> /\ phase[f] = "open"
    BY <1>4 DEF NextKey
  <2>2. \/ UNCHANGED out
        \/ \E k \in Keys : /\ snap[f][k] # Absent /\ <<k, snap[f][k]>> \notin out[f]
                           /\ out' = [out EXCEPT ![f] = out[f] \cup {<<k, snap[f][k]>>}]
    BY <1>4, NextHands
  <2> QED BY <1>1, <2>1, <2>2 DEF Map!vars, Map!FoldYield, Seen, Absent, Map!Absent
<1>5. CASE NextEnd(f)
  <2>1. /\ UNCHANGED <<asked, window, ret, snap, out, base>> /\ phase[f] = "open"
        /\ phase' = [phase EXCEPT ![f] = "eof"] /\ todo[f] = {} /\ pc[f] = "iterating"
    BY <1>5 DEF NextEnd
  <2>2. \A k \in Keys : snap[f][k] # Absent => <<k, snap[f][k]>> \in out[f]
    BY <2>1 DEF FullInv, MapInv, FoldsHandOut
  <2> QED BY <1>1, <2>1, <2>2 DEF Map!FoldEnd, Seen, Absent, Map!Absent
<1>6. CASE ~Start(f) /\ ~ReleaseCount(f) /\ ~NextKey(f) /\ ~NextEnd(f)
  <2>1. UNCHANGED <<asked, window, ret, phase, snap, out, base>>
    BY <1>6 DEF FolderAct, FolderStep, WantStart, WantRelease, LockBarrier, Raise, Drain, Lower,
       Notify, StartRefused, PendingBegin, PendingKey, PendingEnd, PendingClear, Collapse, seen
  <2> QED BY <1>1, <2>1 DEF Map!vars, Seen
<1> QED BY <1>2, <1>3, <1>4, <1>5, <1>6

LEMMA MapStill ==
    ASSUME UNCHANGED <<entries, pending>>, UNCHANGED seen
    PROVE  UNCHANGED Map!vars
  BY DEF Map!vars, seen, Current

\* Reads, writes and folds of KeyDir are those of KeyDirMap: every step is a
\* step of it or changes nothing a caller sees (keydir.hpp).
THEOREM RefinesMap == Spec => ImplementsMap
<1>1. Init => Map!Init
  BY MapInit
<1>2. FullInv /\ [Next]_vars => [Map!Next]_(Map!vars)
  <2> SUFFICES ASSUME FullInv, [Next]_vars PROVE UNCHANGED Map!vars \/ Map!Next
    OBVIOUS
  <2>1. ASSUME NEW w \in Writers, IsWrite(w) PROVE UNCHANGED Map!vars \/ Map!Next
    BY <2>1, MapWrite DEF Map!Next
  <2>2. ASSUME NEW r \in Readers, ReaderStep(r) PROVE UNCHANGED Map!vars \/ Map!Next
    BY <2>2, MapReader DEF Map!Next
  <2>3. ASSUME NEW r \in Readers, NEW k \in Keys, GetBegin(r, k)
        PROVE  UNCHANGED Map!vars \/ Map!Next
    BY <2>3, MapGetBegin DEF Map!Next
  <2>4. ASSUME NEW f \in Folders, FolderAct(f) PROVE UNCHANGED Map!vars \/ Map!Next
    BY <2>4, MapFolder DEF Map!Next
  <2>5. ASSUME NEW w \in Writers, \/ Lock(w) \/ Gate(w) \/ Wait(w) \/ Probe(w) \/ Meta(w)
                                  \/ Peek(w) \/ PeekMeta(w)
        PROVE  UNCHANGED Map!vars
    <3>1. UNCHANGED <<entries, pending>> /\ UNCHANGED seen
      BY <2>5 DEF Lock, Gate, Wait, Probe, Meta, Peek, PeekMeta, data
    <3> QED BY <3>1, MapStill
  <2>6. ASSUME NEW w \in Writers, NEW k \in Keys,
               BeginPut(w, k) \/ BeginRemove(w, k) \/ BeginMove(w, k) \/ BeginTtl(w, k)
        PROVE  UNCHANGED Map!vars
    <3>1. UNCHANGED <<entries, pending>> /\ UNCHANGED seen
      BY <2>6 DEF BeginPut, BeginRemove, BeginMove, BeginTtl, Begin, data
    <3> QED BY <3>1, MapStill
  <2>7. CASE IncrementFileId \/ UNCHANGED vars
    <3>1. UNCHANGED <<entries, pending>> /\ UNCHANGED seen
      BY <2>7 DEF IncrementFileId, vars, data
    <3> QED BY <3>1, MapStill
  <2> QED BY <2>1, <2>2, <2>3, <2>4, <2>5, <2>6, <2>7, NextSplits
<1> QED BY <1>1, <1>2, FullInvariance, PTL DEF Spec, ImplementsMap, Map!Spec
=============================================================================
