--------------------------- MODULE LogFoldProofs ---------------------------
(***************************************************************************)
(* The order in which recovery's workers deliver the puts of a key does    *)
(* not matter, as long as the clock never went backwards along the log.    *)
(* And what a file yields grows with it: the whole records of a longer     *)
(* file begin with those of the shorter one, and so do the hint rows       *)
(* (WholeExtends, RowsExtend), which StoreProofs needs.                     *)
(***************************************************************************)
EXTENDS LogFold, FiniteSetTheorems, SequenceTheorems, NatSets

Entry == {NoEntry} \cup {Live(f, p, t, o) : f \in Nat, p \in Nat, t \in Nat, o \in Nat}

\* One recovered put: where its record is, its stamp and its ord
RowAt == [file : Nat, pos : Nat, ts : Nat, ord : Nat]

\* The record at (f, p) was written before the one at (g, q).
Earlier(f, p, g, q) == f < g \/ (f = g /\ p < q)

\* Two records lie apart, and the later one has no smaller stamp.
InClockOrder(f, p, t, g, q, u) ==
    \/ Earlier(f, p, g, q) /\ t <= u
    \/ Earlier(g, q, f, p) /\ u <= t

Deliver(e, r) == RecoveredPut(e, r.file, r.pos, r.ts, r.ord)

\* Between records in clock order, "is newer" is "was written later".
LEMMA NewerIsLater ==
    ASSUME NEW f \in Nat, NEW p \in Nat, NEW t \in Nat, NEW o \in Nat,
           NEW g \in Nat, NEW q \in Nat, NEW u \in Nat,
           InClockOrder(f, p, t, g, q, u)
    PROVE  IsNewer(Live(f, p, t, o), g, q, u) <=> Earlier(f, p, g, q)
BY DEF InClockOrder, Earlier, IsNewer, Live

\* What a put delivered to a live entry leaves: the later of the two
LEMMA DeliverToLive ==
    ASSUME NEW a \in RowAt, NEW b \in RowAt,
           InClockOrder(a.file, a.pos, a.ts, b.file, b.pos, b.ts)
    PROVE  Deliver(Live(a.file, a.pos, a.ts, a.ord), b)
             = IF Earlier(a.file, a.pos, b.file, b.pos)
               THEN Live(b.file, b.pos, b.ts, b.ord)
               ELSE Live(a.file, a.pos, a.ts, a.ord)
<1>1. IsNewer(Live(a.file, a.pos, a.ts, a.ord), b.file, b.pos, b.ts)
        <=> Earlier(a.file, a.pos, b.file, b.pos)
  BY NewerIsLater DEF RowAt
<1>2. RecoveredAccepted(Live(a.file, a.pos, a.ts, a.ord), b.file, b.pos, b.ts, b.ord)
        <=> IsNewer(Live(a.file, a.pos, a.ts, a.ord), b.file, b.pos, b.ts)
  BY DEF RecoveredAccepted, IsLive, IsDead, Live
<1>3. QED  BY <1>1, <1>2 DEF Deliver, RecoveredPut

\* A key without an entry takes what it is given.
LEMMA DeliverToNone ==
    ASSUME NEW a \in RowAt
    PROVE  Deliver(NoEntry, a) = Live(a.file, a.pos, a.ts, a.ord)
BY DEF Deliver, RecoveredPut, RecoveredAccepted, NoEntry

\* RecoveredPutsCommute: two puts of one key, delivered by two workers of
\* load_keydir_from_disk in either order, leave the same entry, provided the
\* stamps of the three records never go backwards along the log.
THEOREM RecoveredPutsCommute ==
    ASSUME NEW a \in RowAt, NEW b \in RowAt, NEW e \in Entry,
           InClockOrder(a.file, a.pos, a.ts, b.file, b.pos, b.ts),
           IsLive(e) => /\ InClockOrder(e.file, e.pos, e.ts, a.file, a.pos, a.ts)
                        /\ InClockOrder(e.file, e.pos, e.ts, b.file, b.pos, b.ts)
    PROVE  Deliver(Deliver(e, a), b) = Deliver(Deliver(e, b), a)
<1> DEFINE A == Live(a.file, a.pos, a.ts, a.ord)
           B == Live(b.file, b.pos, b.ts, b.ord)
<1>0. InClockOrder(b.file, b.pos, b.ts, a.file, a.pos, a.ts)
  BY DEF InClockOrder
<1>1. Deliver(A, b) = IF Earlier(a.file, a.pos, b.file, b.pos) THEN B ELSE A
  BY DeliverToLive
<1>2. Deliver(B, a) = IF Earlier(b.file, b.pos, a.file, a.pos) THEN A ELSE B
  BY DeliverToLive, <1>0
<1>3. Earlier(a.file, a.pos, b.file, b.pos) <=> ~Earlier(b.file, b.pos, a.file, a.pos)
  BY DEF InClockOrder, Earlier, RowAt
<1>4. Deliver(A, b) = Deliver(B, a)
  BY <1>1, <1>2, <1>3
<1>5. CASE e = NoEntry
  <2>1. Deliver(e, a) = A /\ Deliver(e, b) = B  BY <1>5, DeliverToNone
  <2>2. QED  BY <2>1, <1>4
<1>6. CASE e # NoEntry
  <2>1. PICK f \in Nat, p \in Nat, t \in Nat, o \in Nat : e = Live(f, p, t, o)
    BY <1>6 DEF Entry
  <2> DEFINE r == [file |-> f, pos |-> p, ts |-> t, ord |-> o]
  <2>2. /\ r \in RowAt /\ e = Live(r.file, r.pos, r.ts, r.ord)
        /\ IsLive(e) /\ e.file = r.file /\ e.pos = r.pos /\ e.ts = r.ts
    BY <2>1 DEF RowAt, Live, IsLive
  <2> HIDE DEF r
  <2>3. /\ InClockOrder(r.file, r.pos, r.ts, a.file, a.pos, a.ts)
        /\ InClockOrder(r.file, r.pos, r.ts, b.file, b.pos, b.ts)
    BY <2>2
  <2>4. Deliver(e, a) = IF Earlier(r.file, r.pos, a.file, a.pos) THEN A ELSE e
    BY <2>2, <2>3, DeliverToLive
  <2>5. Deliver(e, b) = IF Earlier(r.file, r.pos, b.file, b.pos) THEN B ELSE e
    BY <2>2, <2>3, DeliverToLive
  <2>6. CASE Earlier(r.file, r.pos, a.file, a.pos) /\ Earlier(r.file, r.pos, b.file, b.pos)
    BY <2>4, <2>5, <2>6, <1>4
  <2>7. CASE Earlier(r.file, r.pos, a.file, a.pos) /\ ~Earlier(r.file, r.pos, b.file, b.pos)
    <3>1. ~Earlier(a.file, a.pos, b.file, b.pos)
      BY <2>2, <2>7 DEF Earlier, RowAt
    <3>2. QED  BY <3>1, <2>4, <2>5, <2>7, <1>1
  <2>8. CASE ~Earlier(r.file, r.pos, a.file, a.pos) /\ Earlier(r.file, r.pos, b.file, b.pos)
    <3>1. ~Earlier(b.file, b.pos, a.file, a.pos)
      BY <2>2, <2>8 DEF Earlier, RowAt
    <3>2. QED  BY <3>1, <2>4, <2>5, <2>8, <1>2
  <2>9. CASE ~Earlier(r.file, r.pos, a.file, a.pos) /\ ~Earlier(r.file, r.pos, b.file, b.pos)
    BY <2>4, <2>5, <2>9
  <2>10. QED  BY <2>6, <2>7, <2>8, <2>9
<1>7. QED  BY <1>5, <1>6
(***************************************************************************)
(* Ascending: the elements of a finite set of numbers in their order       *)
(***************************************************************************)
Rank(S, x) == Cardinality({y \in S : y < x})

LEMMA RankType ==
    ASSUME NEW S \in SUBSET Nat, IsFiniteSet(S), NEW x \in Nat
    PROVE  /\ Rank(S, x) \in 0..Cardinality(S)
           /\ Cardinality(S) \in Nat
           /\ x \in S => Rank(S, x) < Cardinality(S)
<1> DEFINE B == {y \in S : y < x}
<1>1. B \in SUBSET S
  OBVIOUS
<1>2. IsFiniteSet(B) /\ Cardinality(B) <= Cardinality(S)
      /\ (Cardinality(S) = Cardinality(B) => S = B)
  BY <1>1, FS_Subset
<1>3. Cardinality(B) \in Nat /\ Cardinality(S) \in Nat
  BY <1>2, FS_CardinalityType
<1>4. x \in S => S # B
  OBVIOUS
<1>5. Rank(S, x) = Cardinality(B)
  BY DEF Rank
<1> HIDE DEF B
<1> QED BY <1>2, <1>3, <1>4, <1>5

LEMMA RankOrder ==
    ASSUME NEW S \in SUBSET Nat, IsFiniteSet(S), NEW x \in S, NEW y \in S, x < y
    PROVE  Rank(S, x) < Rank(S, y)
<1> DEFINE B == {z \in S : z < y}
<1>1. B \in SUBSET Nat /\ B \in SUBSET S /\ x \in B
  OBVIOUS
<1>2. IsFiniteSet(B)
  BY <1>1, FS_Subset
<1>3. \A z \in S : z < x => z < y
  OBVIOUS
<1>3a. {z \in B : z < x} = {z \in S : z < x}
  BY <1>3
<1>4. Rank(B, x) = Rank(S, x)
  BY <1>3a DEF Rank
<1>5. Rank(S, y) = Cardinality(B)
  BY DEF Rank
<1> HIDE DEF B
<1> QED BY <1>1, <1>2, <1>4, <1>5, RankType

LEMMA RankDetermines ==
    ASSUME NEW S \in SUBSET Nat, IsFiniteSet(S), NEW x \in S, NEW y \in S,
           Rank(S, x) = Rank(S, y)
    PROVE  x = y
<1>1. Rank(S, x) \in Nat /\ Rank(S, y) \in Nat
  BY RankType
<1>2. CASE x < y
  BY <1>1, <1>2, RankOrder
<1>3. CASE y < x
  BY <1>1, <1>3, RankOrder
<1> QED BY <1>2, <1>3

\* Every rank is taken: Rank is an injection between sets of one size.
LEMMA NthExists ==
    ASSUME NEW S \in SUBSET Nat, IsFiniteSet(S), NEW n \in 1..Cardinality(S)
    PROVE  \E x \in S : Rank(S, x) = n - 1
<1> DEFINE c == Cardinality(S)
           T == 0..(c - 1)
           g == [x \in S |-> Rank(S, x)]
<1>1. c \in Nat /\ \A x \in S : Rank(S, x) \in T
  BY RankType
<1>2. IsFiniteSet(T) /\ Cardinality(T) = c
  <2>1. c - 1 \in Int /\ 0 \in Int /\ (0 > c - 1 <=> c = 0)
    BY <1>1
  <2> HIDE DEF c
  <2>2. IsFiniteSet(0..(c - 1))
        /\ Cardinality(0..(c - 1)) = IF 0 > c - 1 THEN 0 ELSE (c - 1) - 0 + 1
    BY <2>1, FS_Interval
  <2> QED BY <1>1, <2>1, <2>2
<1>3. g \in Injection(S, T)
  <2>1. g \in [S -> T]
    BY <1>1
  <2>2. \A x, y \in S : g[x] = g[y] => x = y
    BY RankDetermines
  <2> QED BY <2>1, <2>2 DEF Injection, IsInjective
<1> HIDE DEF g, T
<1>4. g \in Surjection(S, T)
  BY <1>2, <1>3, FS_Injection
<1>5. n - 1 \in T
  BY <1>1 DEF T
<1>6. \E x \in S : g[x] = n - 1
  BY <1>4, <1>5 DEF Surjection
<1> QED BY <1>6 DEF g

LEMMA AscendingAt ==
    ASSUME NEW S \in SUBSET Nat, IsFiniteSet(S), NEW n \in 1..Cardinality(S)
    PROVE  Ascending(S)[n] \in S /\ Rank(S, Ascending(S)[n]) = n - 1
<1>1. \E x \in S : Cardinality({y \in S : y < x}) = n - 1
  BY NthExists DEF Rank
<1>2. Ascending(S)[n] = CHOOSE x \in S : Cardinality({y \in S : y < x}) = n - 1
  BY DEF Ascending
<1> QED BY <1>1, <1>2 DEF Rank

LEMMA AscendingType ==
    ASSUME NEW S \in SUBSET Nat, IsFiniteSet(S)
    PROVE  /\ Ascending(S) \in [1..Cardinality(S) -> S]
           /\ Ascending(S) \in Seq(S)
           /\ Len(Ascending(S)) = Cardinality(S)
           /\ Cardinality(S) \in Nat
<1>1. Cardinality(S) \in Nat
  BY FS_CardinalityType
<1>2. Ascending(S) \in [1..Cardinality(S) -> S]
  <2>1. DOMAIN Ascending(S) = 1..Cardinality(S)
    BY DEF Ascending
  <2>2. \A n \in 1..Cardinality(S) : Ascending(S)[n] \in S
    BY AscendingAt
  <2>3. Ascending(S) = [n \in DOMAIN Ascending(S) |-> Ascending(S)[n]]
    BY SMTT(20) DEF Ascending
  <2> QED BY <2>1, <2>2, <2>3
<1> QED BY <1>1, <1>2

\* Every element has its place.
LEMMA AscendingOnto ==
    ASSUME NEW S \in SUBSET Nat, IsFiniteSet(S), NEW x \in S
    PROVE  /\ Rank(S, x) + 1 \in 1..Cardinality(S)
           /\ Ascending(S)[Rank(S, x) + 1] = x
<1>1. Rank(S, x) + 1 \in 1..Cardinality(S) /\ Rank(S, x) \in Nat
  BY RankType
<1>2. PICK n : n = Rank(S, x) + 1
  OBVIOUS
<1>3. n \in 1..Cardinality(S) /\ n - 1 = Rank(S, x)
  BY <1>1, <1>2
<1>4. Ascending(S)[n] \in S /\ Rank(S, Ascending(S)[n]) = n - 1
  BY <1>3, AscendingAt
<1>5. Ascending(S)[n] = x
  BY <1>3, <1>4, RankDetermines
<1> QED BY <1>1, <1>2, <1>5

\* What has the right rank is the element at that place.
LEMMA AscendingIs ==
    ASSUME NEW S \in SUBSET Nat, IsFiniteSet(S), NEW x \in S,
           NEW n \in Nat, Rank(S, x) = n - 1
    PROVE  Ascending(S)[n] = x
<1>1. Rank(S, x) + 1 = n
  OBVIOUS
<1> QED BY <1>1, AscendingOnto

LEMMA ApartCount ==
    ASSUME NEW S, NEW T, IsFiniteSet(S), IsFiniteSet(T), S \cap T = {}
    PROVE  /\ IsFiniteSet(S \cup T)
           /\ Cardinality(S \cup T) = Cardinality(S) + Cardinality(T)
<1>1. /\ IsFiniteSet(S \cup T)
      /\ Cardinality(S \cup T) = Cardinality(S) + Cardinality(T) - Cardinality(S \cap T)
  BY FS_Union
<1>2. Cardinality(S \cap T) = 0
  BY FS_EmptySet
<1>3. Cardinality(S) \in Nat /\ Cardinality(T) \in Nat
  BY FS_CardinalityType
<1> QED BY <1>1, <1>2, <1>3

\* Two sets, one behind the other: their sequences are joined.
LEMMA AscendingJoin ==
    ASSUME NEW S \in SUBSET Nat, IsFiniteSet(S), NEW T \in SUBSET Nat, IsFiniteSet(T),
           \A x \in S, y \in T : x < y
    PROVE  Ascending(S \cup T) = Ascending(S) \o Ascending(T)
<1> DEFINE U == S \cup T
<1>1. S \cap T = {}
  OBVIOUS
<1>2. /\ IsFiniteSet(U) /\ U \in SUBSET Nat
      /\ Cardinality(U) = Cardinality(S) + Cardinality(T)
  BY <1>1, ApartCount
<1>3. ASSUME NEW x \in S PROVE Rank(U, x) = Rank(S, x)
  <2>1. \A y \in U : y < x => y \in S
    OBVIOUS
  <2>2. {y \in U : y < x} = {y \in S : y < x}
    BY <2>1
  <2> QED BY <2>2 DEF Rank
<1>4. ASSUME NEW x \in T PROVE Rank(U, x) = Cardinality(S) + Rank(T, x)
  <2> DEFINE B == {y \in T : y < x}
  <2>1. {y \in U : y < x} = S \cup B
    OBVIOUS
  <2>2. B \in SUBSET T /\ S \cap B = {}
    BY <1>1
  <2>3. IsFiniteSet(B)
    BY <2>2, FS_Subset
  <2>4. Cardinality(B) = Rank(T, x)
    BY DEF Rank
  <2> HIDE DEF B
  <2>5. Cardinality(S \cup B) = Cardinality(S) + Cardinality(B)
    BY <2>2, <2>3, ApartCount
  <2> QED BY <2>1, <2>4, <2>5 DEF Rank
<1>5. /\ Ascending(S) \in Seq(Nat) /\ Len(Ascending(S)) = Cardinality(S)
      /\ Ascending(T) \in Seq(Nat) /\ Len(Ascending(T)) = Cardinality(T)
      /\ Ascending(U) \in Seq(Nat) /\ Len(Ascending(U)) = Cardinality(U)
      /\ Cardinality(S) \in Nat /\ Cardinality(T) \in Nat
  <2>1. ASSUME NEW V \in SUBSET Nat, IsFiniteSet(V)
        PROVE  /\ Ascending(V) \in Seq(Nat) /\ Len(Ascending(V)) = Cardinality(V)
               /\ Cardinality(V) \in Nat
    BY <2>1, AscendingType, SeqMonotonic
  <2> QED BY <1>2, <2>1
<1>4a. Cardinality(S) \in Int
  BY <1>5
<1> DEFINE j == Ascending(S) \o Ascending(T)
<1>6. j \in Seq(Nat) /\ Len(j) = Cardinality(U)
  BY <1>2, <1>5
<1>7. ASSUME NEW n \in 1..Cardinality(U) PROVE Ascending(U)[n] = j[n]
  <2>1. CASE n <= Cardinality(S)
    <3>1. n \in 1..Cardinality(S) /\ n \in Nat
      BY <1>5, <2>1
    <3>2. PICK x : x = Ascending(S)[n]
      OBVIOUS
    <3>3. x \in S /\ Rank(S, x) = n - 1
      BY <3>1, <3>2, AscendingAt
    <3>4. x \in U /\ Rank(U, x) = n - 1
      BY <1>3, <3>3
    <3>5. Ascending(U)[n] = x
      BY <1>2, <3>1, <3>4, AscendingIs
    <3>6. j[n] = Ascending(S)[n]
      BY <1>5, <3>1
    <3> QED BY <3>2, <3>5, <3>6
  <2>2. CASE n > Cardinality(S)
    <3>0. PICK i : i = n - Cardinality(S)
      OBVIOUS
    <3>1. i \in 1..Cardinality(T) /\ n \in Nat
      BY <1>2, <1>5, <2>2, <3>0
    <3>2. PICK x : x = Ascending(T)[i]
      OBVIOUS
    <3>3. x \in T /\ Rank(T, x) = i - 1
      BY <3>1, <3>2, AscendingAt
    <3>4a. x \in U /\ Rank(U, x) = Cardinality(S) + Rank(T, x)
      BY <1>4, <3>3
    <3>4. x \in U /\ Rank(U, x) = n - 1
      <4>1. Rank(U, x) = Cardinality(S) + (i - 1)
        BY <3>3, <3>4a
      <4>2. Cardinality(S) + (i - 1) = n - 1
        BY <1>4a, <3>0, <3>1
      <4> HIDE DEF U
      <4> QED BY <3>4a, <4>1, <4>2
    <3>5. Ascending(U)[n] = x
      BY <1>2, <3>1, <3>4, AscendingIs
    <3>6. j[n] = Ascending(T)[i]
      BY <1>5, <1>2, <2>2, <3>0, SMTT(20)
    <3> QED BY <3>2, <3>5, <3>6
  <2>3. n \in Int /\ (n <= Cardinality(S) \/ n > Cardinality(S))
    BY <1>4a
  <2> QED BY <2>1, <2>2, <2>3
<1> QED BY <1>5, <1>6, <1>7, SeqEqual

LEMMA AscendingRange ==
    ASSUME NEW m \in Nat, NEW n \in Nat
    PROVE  /\ IsFiniteSet((m + 1)..(m + n)) /\ (m + 1)..(m + n) \in SUBSET Nat
           /\ Cardinality((m + 1)..(m + n)) = n
           /\ \A i \in 1..n : Ascending((m + 1)..(m + n))[i] = m + i
<1> DEFINE S == (m + 1)..(m + n)
<1>1. IsFiniteSet(S) /\ S \in SUBSET Nat /\ Cardinality(S) = n
  BY FS_Interval
<1>2. ASSUME NEW i \in 1..n PROVE Ascending(S)[i] = m + i
  <2>1. m + i \in S
    OBVIOUS
  <2>2. {y \in S : y < m + i} = (m + 1)..(m + i - 1)
    OBVIOUS
  <2>3. Cardinality((m + 1)..(m + i - 1)) = i - 1
    <3>1. m + 1 \in Int /\ m + i - 1 \in Int
      OBVIOUS
    <3>2. Cardinality((m + 1)..(m + i - 1))
            = IF m + 1 > m + i - 1 THEN 0 ELSE (m + i - 1) - (m + 1) + 1
      BY <3>1, FS_Interval
    <3> QED BY <3>2
  <2>3a. Rank(S, m + i) = Cardinality({y \in S : y < m + i})
    BY DEF Rank
  <2>4. Rank(S, m + i) = i - 1 /\ m + i \in S /\ i \in Nat
    <3>1. Rank(S, m + i) = Cardinality((m + 1)..(m + i - 1))
      BY <2>2, <2>3a
    <3>2. i \in Nat
      OBVIOUS
    <3> HIDE DEF S
    <3> QED BY <2>1, <2>3, <3>1, <3>2
  <2> QED BY <1>1, <2>1, <2>4, AscendingIs
<1> QED BY <1>1, <1>2

(***************************************************************************)
(* What a fold of a data file finds                                        *)
(***************************************************************************)
\* No batch of the file is cut short.
Whole(log) == \A i \in DOMAIN log : ~IsCutShort(log, i)

\* The records a fold that starts after position from reports
Found(log, from) == {i \in (from + 1)..LastValidEnd(log, from) : ~IsHead(log[i])}

\* Where the fold ends: in front of the first batch that is cut short
LEMMA EndOfFold ==
    ASSUME NEW R, NEW log \in Seq(R), NEW from \in Nat
    PROVE  /\ LastValidEnd(log, from) \in Nat
           /\ LastValidEnd(log, from) >= from
           /\ \A i \in (from + 1)..LastValidEnd(log, from) :
                 i \in DOMAIN log /\ ~IsCutShort(log, i)
           /\ from <= Len(log) => LastValidEnd(log, from) <= Len(log)
           /\ LastValidEnd(log, from) < Len(log)
                 => IsCutShort(log, LastValidEnd(log, from) + 1)
           /\ Whole(log) => LastValidEnd(log, from) = Larger(from, Len(log))
<1> DEFINE cut == {i \in (from + 1)..Len(log) : IsCutShort(log, i)}
           e == LastValidEnd(log, from)
<1>1. Len(log) \in Nat /\ DOMAIN log = 1..Len(log)
  OBVIOUS
<1>2. CASE cut = {}
  <2>1. e = Larger(from, Len(log))
    BY <1>2 DEF LastValidEnd
  <2> QED BY <1>1, <1>2, <2>1 DEF Larger
<1>3. CASE cut # {}
  <2>1. cut \in SUBSET Nat
    OBVIOUS
  <2>2. \E i \in cut : \A j \in cut : i <= j
    BY <1>3, <2>1, LeastExists
  <2> DEFINE c == CHOOSE i \in cut : \A j \in cut : i <= j
  <2>3. c \in cut /\ \A j \in cut : c <= j
    BY <2>2
  <2>4. e = c - 1
    BY <1>3 DEF LastValidEnd
  <2>5. c \in (from + 1)..Len(log) /\ IsCutShort(log, c)
    BY <2>3
  <2>6. ASSUME NEW i \in (from + 1)..(c - 1) PROVE ~IsCutShort(log, i)
    <3>1. i \in (from + 1)..Len(log) /\ ~(c <= i)
      BY <1>1, <2>5
    <3> QED BY <2>3, <3>1
  <2> HIDE DEF c, cut, e
  <2>7. ~Whole(log)
    BY <1>1, <2>5 DEF Whole
  <2> QED BY <1>1, <2>4, <2>5, <2>6, <2>7 DEF e
<1> QED BY <1>2, <1>3

LEMMA FoundType ==
    ASSUME NEW R, NEW log \in Seq(R), NEW from \in Nat
    PROVE  /\ IsFiniteSet(Found(log, from)) /\ Found(log, from) \in SUBSET Nat
           /\ Found(log, from) \subseteq DOMAIN log
<1>1. LastValidEnd(log, from) \in Nat
  BY EndOfFold
<1>2. IsFiniteSet((from + 1)..LastValidEnd(log, from))
  BY <1>1, FS_Interval
<1>3. Found(log, from) \in SUBSET ((from + 1)..LastValidEnd(log, from))
  BY DEF Found
<1>4. IsFiniteSet(Found(log, from))
  BY <1>2, <1>3, FS_Subset
<1>5. \A i \in (from + 1)..LastValidEnd(log, from) : i \in DOMAIN log
  BY EndOfFold
<1> QED BY <1>3, <1>4, <1>5

\* A row is a record's, and every record has its row.
LEMMA RowsAreRecords ==
    ASSUME NEW R, NEW log \in Seq(R), NEW from \in Nat
    PROVE  /\ RowsFrom(log, from) \in Seq({Row(log, i) : i \in Found(log, from)})
           /\ Len(RowsFrom(log, from)) = Cardinality(Found(log, from))
           /\ Cardinality(Found(log, from)) \in Nat
           /\ \A n \in DOMAIN RowsFrom(log, from) :
                 /\ Ascending(Found(log, from))[n] \in Found(log, from)
                 /\ RowsFrom(log, from)[n] = Row(log, Ascending(Found(log, from))[n])
           /\ \A i \in Found(log, from) :
                 \E n \in DOMAIN RowsFrom(log, from) : RowsFrom(log, from)[n] = Row(log, i)
<1> DEFINE S == Found(log, from)
           A == Ascending(S)
<1>1. IsFiniteSet(S) /\ S \in SUBSET Nat
  BY FoundType
<1>2. A \in [1..Cardinality(S) -> S] /\ Cardinality(S) \in Nat
  BY <1>1, AscendingType
<1>3. RowsFrom(log, from) = [n \in DOMAIN A |-> Row(log, A[n])]
  BY DEF RowsFrom, Found
<1>4. ASSUME NEW i \in S PROVE \E n \in 1..Cardinality(S) : A[n] = i
  BY <1>1, AscendingOnto
<1> DEFINE Rows == {Row(log, i) : i \in S}
<1> HIDE DEF S, A
<1>5. DOMAIN A = 1..Cardinality(S) /\ \A n \in DOMAIN A : A[n] \in S
  BY <1>2
<1>6. \A n \in 1..Cardinality(S) : Row(log, A[n]) \in Rows
  BY <1>5
<1>7. [n \in 1..Cardinality(S) |-> Row(log, A[n])] \in Seq(Rows)
  BY <1>2, <1>6, IsASeq
<1>8. RowsFrom(log, from) \in Seq(Rows) /\ Len(RowsFrom(log, from)) = Cardinality(S)
      /\ DOMAIN RowsFrom(log, from) = 1..Cardinality(S)
  BY <1>2, <1>3, <1>5, <1>7
<1>9. \A n \in DOMAIN RowsFrom(log, from) :
         A[n] \in S /\ RowsFrom(log, from)[n] = Row(log, A[n])
  BY <1>3, <1>5
<1>10. \A i \in S : \E n \in DOMAIN RowsFrom(log, from) : RowsFrom(log, from)[n] = Row(log, i)
  BY <1>4, <1>8, <1>9
<1> QED BY <1>2, <1>8, <1>9, <1>10 DEF S, A

\* more is log with n records appended, behind a header of their batch if
\* skip is 1.
Extends(more, log, skip, n) ==
    /\ Len(more) = Len(log) + skip + n
    /\ \A i \in DOMAIN log : more[i] = log[i]
    /\ \A i \in 1..n : ~IsHead(more[Len(log) + skip + i])
    /\ skip = 1 => IsHead(more[Len(log) + 1]) /\ more[Len(log) + 1].span = n

LEMMA WholeExtends ==
    ASSUME NEW R, NEW log \in Seq(R), NEW more \in Seq(R), NEW skip \in 0..1,
           NEW n \in Nat, Extends(more, log, skip, n), Whole(log),
           \A i \in DOMAIN log : IsHead(log[i]) => log[i].span \in Nat
    PROVE  Whole(more)
<1>1. /\ Len(log) \in Nat /\ DOMAIN log = 1..Len(log)
      /\ Len(more) \in Nat /\ DOMAIN more = 1..Len(more)
      /\ Len(more) = Len(log) + skip + n
  BY DEF Extends
<1>2. ASSUME NEW i \in DOMAIN more PROVE ~IsCutShort(more, i)
  <2>1. CASE i <= Len(log)
    <3>1. i \in DOMAIN log /\ more[i] = log[i]
      BY <1>1, <2>1 DEF Extends
    <3>2. ~IsCutShort(log, i)
      BY <3>1 DEF Whole
    <3>3. CASE ~IsHead(log[i])
      BY <3>1, <3>3 DEF IsCutShort
    <3>4. CASE IsHead(log[i])
      <4>1. log[i].span \in Nat /\ ~(i + log[i].span > Len(log))
        BY <3>1, <3>2, <3>4 DEF IsCutShort
      <4>2. ~(i + log[i].span > Len(more))
        <5> DEFINE s == log[i].span
        <5> HIDE DEF s
        <5>1. s \in Nat /\ ~(i + s > Len(log)) /\ i \in Int
          BY <1>1, <4>1 DEF s
        <5> QED BY <1>1, <5>1 DEF s
      <4> QED BY <3>1, <4>2 DEF IsCutShort
    <3> QED BY <3>3, <3>4
  <2>2. CASE i > Len(log) + skip
    <3>1. PICK j \in 1..n : i = Len(log) + skip + j
      <4>1. PICK j : j = i - (Len(log) + skip)
        OBVIOUS
      <4>2. j \in 1..n /\ i = Len(log) + skip + j
        BY <1>1, <2>2, <4>1
      <4> QED BY <4>2
    <3> QED BY <3>1 DEF Extends, IsCutShort
  <2>3. CASE i = Len(log) + 1 /\ skip = 1
    <3>1. more[i].span = n
      BY <2>3 DEF Extends
    <3>2. ~(i + n > Len(more))
      BY <1>1, <2>3
    <3> QED BY <3>1, <3>2 DEF IsCutShort
  <2> QED BY <1>1, <2>1, <2>2, <2>3
<1> QED BY <1>2 DEF Whole

\* The rows of an append come behind those there are.
LEMMA RowsExtend ==
    ASSUME NEW R, NEW log \in Seq(R), NEW more \in Seq(R), NEW skip \in 0..1,
           NEW n \in Nat, Extends(more, log, skip, n), Whole(log), Whole(more)
    PROVE  RowsFrom(more, 0)
             = RowsFrom(log, 0) \o [i \in 1..n |-> Row(more, Len(log) + skip + i)]
<1> DEFINE S == Found(log, 0)
           m == Len(log) + skip
           T == (m + 1)..(m + n)
           U == Found(more, 0)
<1>1. /\ Len(log) \in Nat /\ DOMAIN log = 1..Len(log)
      /\ Len(more) \in Nat /\ DOMAIN more = 1..Len(more)
      /\ Len(more) = m + n /\ m \in Nat
  BY DEF Extends
<1>2. LastValidEnd(log, 0) = Len(log) /\ LastValidEnd(more, 0) = Len(more)
  <2>1. 0 \in Nat
    OBVIOUS
  <2>2. /\ LastValidEnd(log, 0) = Larger(0, Len(log))
        /\ LastValidEnd(more, 0) = Larger(0, Len(more))
    BY <2>1, EndOfFold
  <2>3. \A x \in Nat : Larger(0, x) = x
    BY DEF Larger
  <2> QED BY <1>1, <2>2, <2>3
<1>3. S = {i \in 1..Len(log) : ~IsHead(log[i])} /\ U = {i \in 1..Len(more) : ~IsHead(more[i])}
  BY <1>2 DEF Found
<1>4. U = S \cup T
  <2>1. ASSUME NEW i \in S PROVE i \in U
    BY <1>1, <1>3 DEF Extends
  <2>2. ASSUME NEW i \in T PROVE i \in U
    <3>1. i - m \in 1..n /\ i \in 1..Len(more) /\ i = m + (i - m)
      BY <1>1
    <3>2. ~IsHead(more[Len(log) + skip + (i - m)])
      BY <3>1 DEF Extends
    <3> QED BY <1>1, <1>3, <3>1, <3>2
  <2>3. ASSUME NEW i \in U PROVE i \in S \/ i \in T
    <3>1. i \in 1..Len(more) /\ ~IsHead(more[i])
      BY <1>3
    <3>2. CASE i <= Len(log)
      <4>1. i \in 1..Len(log) /\ more[i] = log[i]
        BY <1>1, <3>1, <3>2 DEF Extends
      <4> QED BY <1>3, <3>1, <4>1
    <3>3. CASE i > m
      BY <1>1, <3>1, <3>3
    <3>4. CASE i = Len(log) + 1 /\ skip = 1
      BY <3>1, <3>4 DEF Extends
    <3> QED BY <1>1, <3>1, <3>2, <3>3, <3>4
  <2> QED BY <2>1, <2>2, <2>3
<1>5. /\ IsFiniteSet(S) /\ S \in SUBSET Nat
      /\ IsFiniteSet(U) /\ U \in SUBSET Nat
  BY FoundType
<1>6. /\ IsFiniteSet(T) /\ T \in SUBSET Nat /\ Cardinality(T) = n
      /\ \A i \in 1..n : Ascending(T)[i] = m + i
  BY <1>1, AscendingRange
<1>7. \A x \in S, y \in T : x < y
  BY <1>1, <1>3
<1>8. Ascending(U) = Ascending(S) \o Ascending(T)
  <2> HIDE DEF S, T, U
  <2> QED BY <1>4, <1>5, <1>6, <1>7, AscendingJoin
<1>9. /\ Ascending(S) \in [1..Cardinality(S) -> S] /\ Cardinality(S) \in Nat
      /\ Ascending(S) \in Seq(S) /\ Len(Ascending(S)) = Cardinality(S)
      /\ Ascending(T) \in Seq(T) /\ Len(Ascending(T)) = n
  BY <1>5, <1>6, AscendingType
<1> DEFINE c == Cardinality(S)
           rows == RowsFrom(log, 0)
           ext == [i \in 1..n |-> Row(more, m + i)]
<1>10. RowsFrom(more, 0) = [k \in 1..(c + n) |-> Row(more, Ascending(U)[k])]
  <2>1. DOMAIN Ascending(U) = 1..(c + n)
    <3>1. Ascending(S) \in Seq(Nat) /\ Ascending(T) \in Seq(Nat)
      BY <1>5, <1>6, <1>9, SeqMonotonic
    <3>2. Ascending(S) \o Ascending(T) \in Seq(Nat)
          /\ Len(Ascending(S) \o Ascending(T)) = c + n
      BY <1>9, <3>1, ConcatProperties, ZenonT(20)
    <3> QED BY <1>8, <3>2
  <2> QED BY <2>1 DEF RowsFrom, Found
<1>11. rows = [k \in 1..c |-> Row(log, Ascending(S)[k])]
  BY <1>9 DEF RowsFrom, Found
<1> HIDE DEF S, T, U, rows
<1>12. ASSUME NEW k \in 1..c
       PROVE  Ascending(U)[k] \in S /\ Row(more, Ascending(U)[k]) = rows[k]
  <2>1. Ascending(S)[k] \in S
    BY <1>9
  <2>2. Ascending(U)[k] = Ascending(S)[k]
    BY <1>8, <1>9
  <2>3. \A i \in S : more[i] = log[i]
    BY <1>1, <1>3 DEF Extends
  <2>4. Row(more, Ascending(S)[k]) = Row(log, Ascending(S)[k])
    BY <2>1, <2>3 DEF Row
  <2> QED BY <1>11, <2>1, <2>2, <2>4
<1>13. ASSUME NEW k \in 1..(c + n), k > c
       PROVE  Ascending(U)[k] = m + (k - c) /\ k - c \in 1..n
  <2>1. k - c \in 1..n
    BY <1>9, <1>13
  <2>2. Ascending(U)[k] = Ascending(T)[k - c]
    BY <1>8, <1>9, <1>13
  <2> QED BY <1>6, <2>1, <2>2
<1>14. rows \o ext = [k \in 1..(c + n) |-> IF k <= c THEN rows[k] ELSE ext[k - c]]
  <2>1. DOMAIN rows = 1..c
    BY <1>11
  <2> DEFINE V == {rows[k] : k \in 1..c} \cup {ext[k] : k \in 1..n}
  <2>2. rows \in Seq(V) /\ Len(rows) = c
    <3>1. rows = [k \in 1..c |-> rows[k]]
      BY <1>11
    <3>2. \A k \in 1..c : rows[k] \in V
      OBVIOUS
    <3> HIDE DEF V
    <3>3. rows \in [1..c -> V]
      BY <3>1, <3>2
    <3> QED BY <1>9, <3>3
  <2>3. ext \in Seq(V) /\ Len(ext) = n
    <3>1. \A k \in 1..n : ext[k] \in V
      OBVIOUS
    <3>2. ext = [k \in 1..n |-> ext[k]]
      OBVIOUS
    <3> HIDE DEF V, ext
    <3>3. ext \in [1..n -> V]
      BY <3>1, <3>2
    <3> QED BY <3>3
  <2> HIDE DEF V, ext
  <2>4. rows \o ext \in Seq(V) /\ Len(rows \o ext) = c + n
    BY <1>9, <2>2, <2>3
  <2>5. \A k \in 1..(c + n) : (rows \o ext)[k] = IF k <= c THEN rows[k] ELSE ext[k - c]
    BY <1>9, <2>2, <2>3, ConcatProperties
  <2>6. rows \o ext = [k \in 1..(c + n) |-> (rows \o ext)[k]]
    <3>1. PICK x : x = rows \o ext
      OBVIOUS
    <3>2. x \in Seq(V) /\ Len(x) = c + n
      BY <2>4, <3>1
    <3>3. x \in [1..(c + n) -> V]
      BY <3>2, LenProperties
    <3>4. x = [k \in 1..(c + n) |-> x[k]]
      BY <3>3
    <3> QED BY <3>1, <3>4
  <2> QED BY <2>5, <2>6
<1>15. ASSUME NEW k \in 1..(c + n)
       PROVE  Row(more, Ascending(U)[k]) = IF k <= c THEN rows[k] ELSE ext[k - c]
  <2>1. CASE k <= c
    <3>1. k \in 1..c
      BY <1>9, <2>1
    <3> QED BY <1>12, <2>1, <3>1
  <2>2. CASE k > c
    <3>1. Ascending(U)[k] = m + (k - c) /\ k - c \in 1..n
      BY <1>13, <2>2
    <3>2. ~(k <= c)
      BY <1>9, <2>2
    <3> QED BY <3>1, <3>2
  <2> QED BY <1>9, <2>1, <2>2
<1>16. RowsFrom(more, 0) = rows \o ext
  BY <1>10, <1>14, <1>15
<1> QED BY <1>16 DEF rows
=============================================================================
