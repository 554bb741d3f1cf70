-------------------------- MODULE IndexPoolProofs --------------------------
(***************************************************************************)
(* Proofs about IndexPool: for any number of libraries, writers, workers   *)
(* and flushers, any capacities and any ring sizes, tasks take effect in   *)
(* the order of their ords, in_flight is the number of tasks under way,    *)
(* and a flush that returns covers what was submitted before it.           *)
(***************************************************************************)
EXTENDS IndexPool, FiniteSetTheorems, TLAPS

-----------------------------------------------------------------------------
(* The inductive invariant.                                                *)

Tasks == [lane : Lanes, ord : Nat]
Rings == UNION {[0 .. n - 1 -> Nat \cup {None}] : n \in Nat}

LaneRec    == [ring : Rings, base : Nat, next : Nat, hwm : Nat, applied : Nat, count : Int]
WriterRec  == [pc : {"idle", "raise", "count", "push", "notify", "dead"}, ord : Nat \cup {None}]
MapperRec  == [pc : {"gate", "asleep", "pop", "park", "notify", "done"},
               task : Tasks \cup {NoTask}]
ReducerRec == [pc : {"scan", "asleep", "apply", "dec", "notify", "release", "done"},
               task : Tasks \cup {NoTask}]
FlusherRec == [pc : {"idle", "wait", "asleep", "back"}, need : SUBSET Nat]
ClosePcs   == {"new", "open", "wait", "asleep", "erase", "giveup", "closed"}
HistRec    == [ord : Nat, returned : SUBSET Nat, log : Seq(Nat)]

Types ==
    /\ lane \in [Lanes -> LaneRec]
    /\ queue \in Seq(Tasks \cup {Sentinel})
    /\ writer \in [Writers -> WriterRec]
    /\ mapper \in [Mappers -> MapperRec]
    /\ reducer \in ReducerRec
    /\ flusher \in [Flushers -> FlusherRec]
    /\ closer \in [Lanes -> ClosePcs]
    /\ hist \in [Lanes -> HistRec]

\* The places where a task can be before it is applied.
Holds(w)    == writer[w].pc \in {"raise", "count", "push", "dead"}
TaskOf(w)   == [lane |-> LaneOf[w], ord |-> writer[w].ord]
Parking(m)  == mapper[m].pc = "park"
IsParked(t) == t.ord \in Parked(t.lane)

\* Such a task has an ord that was drawn and is not yet behind the window ...
Due(t) ==
    /\ t \in Tasks
    /\ lane[t.lane].base <= t.ord
    /\ FirstOrd[t.lane] <= t.ord /\ t.ord < hist[t.lane].ord
AllDue ==
    /\ \A w \in Writers : Holds(w) => Due(TaskOf(w))
    /\ \A i \in DOMAIN queue : queue[i] = Sentinel \/ Due(queue[i])
    /\ \A m \in Mappers : Parking(m) => Due(mapper[m].task)
    /\ \A l \in Lanes : \A o \in Parked(l) : Due([lane |-> l, ord |-> o])

\* ... and is in one place only.
Distinct ==
    /\ \A v, w \in Writers : v # w /\ Holds(v) /\ Holds(w) => TaskOf(v) # TaskOf(w)
    /\ \A i, j \in DOMAIN queue : i # j /\ queue[i] # Sentinel => queue[i] # queue[j]
    /\ \A m, n \in Mappers : m # n /\ Parking(m) /\ Parking(n)
                                => mapper[m].task # mapper[n].task
    /\ \A w \in Writers : Holds(w) =>
          /\ \A i \in DOMAIN queue : queue[i] # TaskOf(w)
          /\ \A m \in Mappers : Parking(m) => mapper[m].task # TaskOf(w)
          /\ ~IsParked(TaskOf(w))
    /\ \A i \in DOMAIN queue : queue[i] # Sentinel =>
          /\ \A m \in Mappers : Parking(m) => mapper[m].task # queue[i]
          /\ ~IsParked(queue[i])
    /\ \A m \in Mappers : Parking(m) => ~IsParked(mapper[m].task)

\* A parked ord is in its slot, within one turn of the ring.
Window ==
    \A l \in Lanes : LET r == lane[l].ring IN
        \A s \in DOMAIN r : r[s] # None => /\ s = Slot(r, r[s])
                                           /\ r[s] < lane[l].base + Size(r)

\* How a lane's counters, its log and the reducer's hands go together.
Applying(l) == reducer.pc = "apply" /\ reducer.task.lane = l
LaneInLine(l) ==
    LET h == hist[l] IN
        /\ h.ord = FirstOrd[l] \/ h.ord <= LastOrd[l] + 1
        /\ FirstOrd[l] <= h.ord /\ lane[l].base <= h.ord
        /\ closer[l] = "new" => h.ord = FirstOrd[l] /\ h.log = <<>>
        /\ closer[l] # "new" => lane[l].next = FirstOrd[l] + Len(h.log)
        /\ lane[l].base = IF Applying(l) THEN lane[l].next + 1 ELSE lane[l].next
        /\ \A i \in DOMAIN h.log : h.log[i] = FirstOrd[l] + i - 1
        /\ h.log # <<>> => lane[l].applied = FirstOrd[l] + Len(h.log) - 1
Lined == \A l \in Lanes : LaneInLine(l)
InHand ==
    reducer.pc \in {"apply", "dec"} =>
        /\ reducer.task \in Tasks
        /\ reducer.task.ord + 1 = lane[reducer.task.lane].base
        /\ FirstOrd[reducer.task.lane] <= reducer.task.ord
        /\ reducer.task.ord < hist[reducer.task.lane].ord

\* A task whose submit has returned is somewhere.
Found(l, o) ==
    LET t == [lane |-> l, ord |-> o] IN
    \/ \E i \in DOMAIN queue : queue[i] = t
    \/ \E m \in Mappers : Parking(m) /\ mapper[m].task = t
    \/ IsParked(t)
    \/ reducer.pc = "apply" /\ reducer.task = t
    \/ o \in Range(hist[l].log)
NoneMissing == \A l \in Lanes : \A o \in hist[l].returned : Found(l, o)
Needs ==
    \A f \in Flushers : LET h == hist[FlushLane[f]] IN
        /\ flusher[f].need \subseteq h.returned
        /\ flusher[f].pc = "back" => flusher[f].need \subseteq Range(h.log)

IInv == /\ Types /\ AllDue /\ Distinct /\ Window /\ Lined /\ InHand
        /\ InFlightExact /\ NoneMissing /\ Needs

\* ring_put never refuses: push_reorder's answer to a refusal (count the task
\* out and wake the flushers) is code no behaviour reaches.
NeverRefused ==
    \A m \in Mappers : mapper[m].pc = "park" =>
        RingPutOk(mapper[m].task.lane, mapper[m].task.ord)

-----------------------------------------------------------------------------
(* The ring.                                                               *)

\* Two ords of one turn of a ring have different slots: & (size - 1) is a
\* remainder.
LEMMA ModUnique ==
    ASSUME NEW o \in Nat, NEW p \in Nat, NEW n \in Nat \ {0}, NEW b \in Nat,
           b <= o, o < b + n, b <= p, p < b + n, o % n = p % n
    PROVE  o = p
<1>1. o = n * (o \div n) + (o % n)
  BY SMT
<1>2. p = n * (p \div n) + (p % n)
  BY SMT
<1> DEFINE x == o \div n
           y == p \div n
<1>3. x \in Int /\ y \in Int
  BY SMT
<1>4. o - p = n * (x - y)
  BY <1>1, <1>2, <1>3, SMT
<1> HIDE DEF x, y
<1>5. CASE x - y >= 1
  <2>1. n * (x - y) >= n
    BY <1>5, <1>3, SMT
  <2> QED
    BY <2>1, <1>4
<1>6. CASE x - y <= -1
  <2>1. n * (x - y) <= -n
    BY <1>6, <1>3, SMT
  <2> QED
    BY <2>1, <1>4
<1>7. CASE x - y = 0
  BY <1>7, <1>4, <1>3
<1> QED
  BY <1>5, <1>6, <1>7, <1>3

LEMMA ModRange ==
    ASSUME NEW o \in Nat, NEW n \in Nat \ {0}
    PROVE  o % n \in 0 .. n - 1
  BY SMT

LEMMA RingShape ==
    ASSUME NEW r \in Rings
    PROVE  /\ Size(r) \in Nat /\ DOMAIN r = 0 .. Size(r) - 1
           /\ r \in [0 .. Size(r) - 1 -> Nat \cup {None}]
           /\ \A o \in Nat : Size(r) > 0 => Slot(r, o) \in DOMAIN r
<1>1. PICK n \in Nat : r \in [0 .. n - 1 -> Nat \cup {None}]
  BY DEF Rings
<1>2. DOMAIN r = 0 .. n - 1
  BY <1>1
<1>3. Cardinality(0 .. n - 1) = n
  BY FS_Interval
<1>4. Size(r) = n
  BY <1>2, <1>3 DEF Size
<1> QED
  BY <1>1, <1>2, <1>4, ModRange DEF Slot

LEMMA SizeOfFunction ==
    ASSUME NEW n \in Nat, NEW r, DOMAIN r = 0 .. n - 1
    PROVE  Size(r) = n
  BY FS_Interval DEF Size

\* What Window and AllDue say of a ring and the window it stands for.
Holding(r, base) ==
    \A s \in DOMAIN r : r[s] # None => /\ s = Slot(r, r[s])
                                       /\ base <= r[s] /\ r[s] < base + Size(r)
Content(r) == Range(r) \ {None}

\* An ord of the window is in the ring exactly when its slot is taken.
LEMMA SlotOfOrd ==
    ASSUME NEW r \in Rings, NEW base \in Nat, Holding(r, base),
           NEW o \in Nat, base <= o, o < base + Size(r)
    PROVE  /\ Slot(r, o) \in DOMAIN r
           /\ r[Slot(r, o)] # None => r[Slot(r, o)] = o
           /\ o \in Content(r) <=> r[Slot(r, o)] # None
<1>1. Size(r) \in Nat \ {0} /\ Slot(r, o) \in DOMAIN r
  BY RingShape
<1>2. ASSUME r[Slot(r, o)] # None PROVE r[Slot(r, o)] = o
  <2> DEFINE p == r[Slot(r, o)]
  <2>1. p \in Nat /\ base <= p /\ p < base + Size(r) /\ Slot(r, o) = Slot(r, p)
    BY <1>1, <1>2, RingShape DEF Holding
  <2> HIDE DEF p
  <2>2. p = o
    BY <2>1, <1>1, ModUnique DEF Slot
  <2> QED
    BY <2>2 DEF p
<1>3. ASSUME o \in Content(r) PROVE r[Slot(r, o)] # None
  <2>1. PICK s \in DOMAIN r : r[s] = o
    BY <1>3 DEF Content, Range
  <2>2. o # None
    BY DEF None
  <2> QED
    BY <2>1, <2>2 DEF Holding
<1>4. ASSUME r[Slot(r, o)] # None PROVE o \in Content(r)
  BY <1>1, <1>2, <1>4 DEF Content, Range
<1> QED
  BY <1>1, <1>2, <1>3, <1>4

\* Growing keeps every entry, in its new slot.
LEMMA RingGrows ==
    ASSUME NEW r \in Rings, NEW base \in Nat, Holding(r, base),
           NEW need \in Nat, need > Size(r),
           \E cap \in RingSizes : RoomFor(need, cap)
    PROVE  LET g == RingGrow(r, base, need) IN
           /\ g \in Rings /\ Size(g) >= need
           /\ Holding(g, base) /\ Content(g) = Content(r)
<1> DEFINE g     == RingGrow(r, base, need)
           cap   == Grown(need)
           moved == {o \in base .. base + Size(r) - 1 : r[Slot(r, o)] # None}
<1>1. cap \in Nat \ {0} /\ cap >= need
  BY RingAssumption DEF Grown, RoomFor
<1>2. Size(r) \in Nat
  BY RingShape
<1>3. g = [s \in 0 .. cap - 1 |->
              IF \E o \in moved : o % cap = s
              THEN r[Slot(r, CHOOSE o \in moved : o % cap = s)] ELSE None]
  BY DEF RingGrow
<1> HIDE DEF g, cap
<1>4. ASSUME NEW o \in moved PROVE o \in Nat /\ r[Slot(r, o)] = o /\ o \in Content(r)
  BY <1>2, SlotOfOrd
<1> HIDE DEF moved
<1>5. ASSUME NEW s \in 0 .. cap - 1
      PROVE  \/ g[s] = None /\ \A o \in moved : o % cap # s
             \/ g[s] \in moved /\ g[s] % cap = s
  <2>1. CASE \E o \in moved : o % cap = s
    <3> DEFINE o == CHOOSE o \in moved : o % cap = s
    <3>1. o \in moved /\ o % cap = s
      BY <2>1
    <3>2. g[s] = r[Slot(r, o)]
      BY <1>3, <2>1
    <3> QED
      BY <3>1, <3>2, <1>4
  <2>2. CASE ~ \E o \in moved : o % cap = s
    BY <1>3, <2>2
  <2> QED
    BY <2>1, <2>2
<1>6. DOMAIN g = 0 .. cap - 1 /\ Size(g) = cap
  BY <1>1, <1>3, SizeOfFunction
<1>7. g \in [0 .. cap - 1 -> Nat \cup {None}]
  BY <1>3, <1>4, <1>5, <1>6
<1>8. g \in Rings
  BY <1>1, <1>7 DEF Rings
<1>9. \A o \in moved : base <= o /\ o < base + Size(r)
  BY <1>2 DEF moved
<1>10. Holding(g, base)
  <2> SUFFICES ASSUME NEW s \in DOMAIN g, g[s] # None
               PROVE  s = Slot(g, g[s]) /\ base <= g[s] /\ g[s] < base + Size(g)
    BY DEF Holding
  <2>1. g[s] \in moved /\ g[s] % cap = s
    BY <1>5, <1>6
  <2> QED
    BY <2>1, <1>1, <1>2, <1>4, <1>6, <1>9 DEF Slot
<1>11. ASSUME NEW p \in Content(g) PROVE p \in Content(r)
  <2>1. PICK s \in DOMAIN g : g[s] = p /\ p # None
    BY DEF Content, Range
  <2> QED
    BY <2>1, <1>4, <1>5, <1>6
<1>12. ASSUME NEW p \in Content(r) PROVE p \in Content(g)
  <2>1. PICK s \in DOMAIN r : r[s] = p /\ p # None
    BY DEF Content, Range
  <2>2. p \in Nat /\ base <= p /\ p < base + Size(r) /\ Slot(r, p) = s
    BY <2>1, RingShape DEF Holding
  <2>3. p \in moved
    BY <2>1, <2>2, <1>2 DEF moved
  <2>4. p % cap \in 0 .. cap - 1
    BY <2>2, <1>1, ModRange
  <2> DEFINE o == g[p % cap]
  <2>5. o \in moved /\ o % cap = p % cap
    BY <1>5, <2>3, <2>4
  <2>6. o \in Nat /\ base <= o /\ o < base + cap /\ p < base + cap
    BY <2>5, <1>1, <1>2, <1>4, <1>9, <2>2
  <2> HIDE DEF o
  <2>7. o = p
    BY <2>2, <2>5, <2>6, <1>1, ModUnique
  <2>8. p # None
    BY <2>1
  <2> QED
    BY <2>4, <2>7, <2>8, <1>6 DEF o, Content, Range
<1>13. Content(g) = Content(r)
  BY <1>11, <1>12
<1> QED
  BY <1>1, <1>6, <1>8, <1>10, <1>13 DEF g

\* RingRoom makes room for the ord and changes nothing else.
LEMMA RoomMade ==
    ASSUME NEW r \in Rings, NEW base \in Nat, Holding(r, base),
           NEW ord \in Nat, base <= ord,
           \E cap \in RingSizes : RoomFor(ord - base + 1, cap)
    PROVE  LET g == RingRoom(r, base, ord) IN
           /\ g \in Rings /\ ord < base + Size(g)
           /\ Holding(g, base) /\ Content(g) = Content(r)
<1>1. Size(r) \in Nat
  BY RingShape
<1>2. CASE ord - base >= Size(r)
  <2> DEFINE need == ord - base + 1
             g    == RingGrow(r, base, need)
  <2>1. need \in Nat /\ need > Size(r)
    BY <1>1, <1>2
  <2>2. RingRoom(r, base, ord) = g
    BY <1>2 DEF RingRoom
  <2> HIDE DEF need
  <2>3. g \in Rings /\ Size(g) >= need /\ Holding(g, base) /\ Content(g) = Content(r)
    BY <2>1, RingGrows DEF need
  <2>4. Size(g) \in Nat
    BY <2>3, RingShape
  <2> HIDE DEF g
  <2>5. ord < base + Size(g)
    BY <2>3, <2>4 DEF need
  <2> QED
    BY <2>2, <2>3, <2>5
<1>3. CASE ~ (ord - base >= Size(r))
  BY <1>1, <1>3 DEF RingRoom
<1> QED
  BY <1>2, <1>3

-----------------------------------------------------------------------------
(* What the invariant says of one lane's ring.                             *)

LEMMA RingHolds ==
    ASSUME Types, AllDue, Window, NEW l \in Lanes
    PROVE  /\ lane[l].ring \in Rings /\ lane[l].base \in Nat
           /\ Holding(lane[l].ring, lane[l].base)
           /\ Parked(l) = Content(lane[l].ring)
<1>1. lane[l].ring \in Rings /\ lane[l].base \in Nat
  BY DEF Types, LaneRec
<1>2. Parked(l) = Content(lane[l].ring)
  BY DEF Parked, Content
<1>3. ASSUME NEW s \in DOMAIN lane[l].ring, lane[l].ring[s] # None
      PROVE  lane[l].base <= lane[l].ring[s]
  <2>1. lane[l].ring[s] \in Parked(l)
    BY <1>3 DEF Parked, Range
  <2> QED
    BY <2>1 DEF AllDue, Due
<1> QED
  BY <1>1, <1>2, <1>3 DEF Window, Holding

\* RingAssumption speaks of every ord that may be parked.
LEMMA Roomy ==
    ASSUME Types, Lined, NEW t \in Tasks, Due(t)
    PROVE  /\ closer[t.lane] # "new"
           /\ \E cap \in RingSizes : RoomFor(t.ord - lane[t.lane].base + 1, cap)
<1> DEFINE l == t.lane
           need == t.ord - lane[l].base + 1
<1>1. l \in Lanes /\ t.ord \in Nat /\ hist[l].ord \in Nat /\ lane[l].base \in Nat
      /\ lane[l].next \in Nat /\ Len(hist[l].log) \in Nat
  BY DEF Types, Tasks, LaneRec, HistRec
<1>2. FirstOrd[l] \in Nat /\ LastOrd[l] \in Nat
  BY <1>1, PoolAssumption
<1>3. lane[l].base <= t.ord /\ FirstOrd[l] <= t.ord /\ t.ord < hist[l].ord
  BY DEF Due
<1>4. closer[l] # "new" /\ t.ord <= LastOrd[l]
  BY <1>1, <1>2, <1>3 DEF Lined, LaneInLine
<1>5. lane[l].base >= FirstOrd[l]
  <2>1. lane[l].next = FirstOrd[l] + Len(hist[l].log)
    BY <1>1, <1>4 DEF Lined, LaneInLine
  <2>2. lane[l].base = IF Applying(l) THEN lane[l].next + 1 ELSE lane[l].next
    BY <1>1 DEF Lined, LaneInLine
  <2> QED
    BY <1>1, <1>2, <2>1, <2>2
<1>6. need \in 1 .. LastOrd[l] - FirstOrd[l] + 1
  BY <1>1, <1>2, <1>3, <1>4, <1>5
<1> HIDE DEF need
<1>7. \E cap \in RingSizes : RoomFor(need, cap)
  BY <1>1, <1>6, RingAssumption
<1> QED
  BY <1>4, <1>7 DEF need

\* What Park does to a ring.
LEMMA RingAfterPut ==
    ASSUME Types, AllDue, Distinct, Window, Lined,
           NEW m \in Mappers, Parking(m)
    PROVE  LET t == mapper[m].task
               r == RingRoom(lane[t.lane].ring, lane[t.lane].base, t.ord)
               p == RingPut(t.lane, t.ord)
           IN  /\ t \in Tasks /\ RingPutOk(t.lane, t.ord)
               /\ p \in Rings /\ Holding(p, lane[t.lane].base)
               /\ Content(p) = Parked(t.lane) \cup {t.ord}
<1> DEFINE t == mapper[m].task
           l == t.lane
           o == t.ord
           b == lane[l].base
           r == RingRoom(lane[l].ring, b, o)
           p == RingPut(l, o)
<1>1. t \in Tasks /\ Due(t) /\ ~IsParked(t) /\ l \in Lanes /\ o \in Nat
  BY DEF AllDue, Due, Distinct, Tasks
<1>2. lane[l].ring \in Rings /\ b \in Nat /\ Holding(lane[l].ring, b)
      /\ Parked(l) = Content(lane[l].ring)
  BY <1>1, RingHolds
<1>3. b <= o /\ \E cap \in RingSizes : RoomFor(o - b + 1, cap)
  BY <1>1, Roomy DEF Due
<1>4. r \in Rings /\ o < b + Size(r) /\ Holding(r, b) /\ Content(r) = Parked(l)
  BY <1>1, <1>2, <1>3, RoomMade
<1>5. p = [r EXCEPT ![Slot(r, o)] = o]
  BY DEF RingPut
<1>6. o \notin Content(r)
  BY <1>1, <1>4 DEF IsParked
<1> HIDE DEF t, l, o, b, r, p
<1>7. Slot(r, o) \in DOMAIN r /\ r[Slot(r, o)] = None
  BY <1>1, <1>2, <1>3, <1>4, <1>6, SlotOfOrd
<1>8. RingPutOk(l, o)
  BY <1>3, <1>7 DEF RingPutOk, r, b
<1>9. /\ Size(r) \in Nat /\ DOMAIN r = 0 .. Size(r) - 1
      /\ r \in [0 .. Size(r) - 1 -> Nat \cup {None}]
  BY <1>4, RingShape
<1>10. p \in [0 .. Size(r) - 1 -> Nat \cup {None}] /\ DOMAIN p = DOMAIN r
  BY <1>1, <1>5, <1>9
<1>11. p \in Rings /\ Size(p) = Size(r)
  BY <1>9, <1>10 DEF Rings, Size
<1>12. Holding(p, b)
  <2> SUFFICES ASSUME NEW s \in DOMAIN p, p[s] # None
               PROVE  s = Slot(p, p[s]) /\ b <= p[s] /\ p[s] < b + Size(p)
    BY DEF Holding
  <2>1. CASE s = Slot(r, o)
    BY <2>1, <1>3, <1>4, <1>5, <1>7, <1>10, <1>11 DEF Slot
  <2>2. CASE s # Slot(r, o)
    <3>1. p[s] = r[s] /\ s \in DOMAIN r
      BY <2>2, <1>5, <1>10
    <3> QED
      BY <3>1, <1>4, <1>11 DEF Holding, Slot
  <2> QED
    BY <2>1, <2>2
<1>13. Content(p) = Content(r) \cup {o}
  <2>1. o \in Content(p)
    BY <1>1, <1>5, <1>7, <1>10 DEF Content, Range, None
  <2>2. ASSUME NEW x \in Content(p), x # o PROVE x \in Content(r)
    BY <2>2, <1>5, <1>10 DEF Content, Range
  <2>3. ASSUME NEW x \in Content(r) PROVE x \in Content(p)
    <3>1. PICK s \in DOMAIN r : r[s] = x /\ x # None
      BY DEF Content, Range
    <3>2. p[s] = x
      BY <3>1, <1>5, <1>7
    <3> QED
      BY <3>1, <3>2, <1>10 DEF Content, Range
  <2> QED
    BY <2>1, <2>2, <2>3
<1> QED
  BY <1>1, <1>4, <1>8, <1>11, <1>12, <1>13 DEF t, l, o, b, r, p

\* ring_put never refuses: push_reorder's answer to a refusal (count the task
\* out and wake the flushers) is code no behaviour reaches.
LEMMA PutAccepted ==
    ASSUME Types, AllDue, Distinct, Window, Lined
    PROVE  NeverRefused
  BY RingAfterPut DEF NeverRefused, Parking

\* The front of the window, when it is taken out of the ring.
LEMMA RingAfterTake ==
    ASSUME Types, AllDue, Window, NEW l \in Lanes, FrontReady(l)
    PROVE  LET r == lane[l].ring
               s == FrontSlot(l)
               n == [r EXCEPT ![s] = None]
           IN  /\ s \in DOMAIN r /\ r[s] = lane[l].base
               /\ lane[l].base \in Parked(l)
               /\ n \in Rings /\ Holding(n, lane[l].base + 1)
               /\ Content(n) = Parked(l) \ {lane[l].base}
<1> DEFINE r == lane[l].ring
           b == lane[l].base
           s == FrontSlot(l)
           n == [r EXCEPT ![s] = None]
<1>1. r \in Rings /\ b \in Nat /\ Holding(r, b) /\ Parked(l) = Content(r)
  BY RingHolds
<1>2. s = Slot(r, b) /\ r[s] # None
  BY DEF FrontReady, FrontSlot
<1>3. /\ Size(r) \in Nat /\ DOMAIN r = 0 .. Size(r) - 1
      /\ r \in [0 .. Size(r) - 1 -> Nat \cup {None}]
  BY <1>1, RingShape
<1>4. Size(r) > 0
  <2>1. Content(r) # {}
    BY <1>1 DEF FrontReady
  <2> QED
    BY <2>1, <1>3 DEF Content, Range
<1>5. s \in DOMAIN r /\ r[s] = b /\ b \in Content(r)
  BY <1>1, <1>2, <1>3, <1>4, SlotOfOrd
<1> HIDE DEF r, b, s
<1>6. n \in [0 .. Size(r) - 1 -> Nat \cup {None}] /\ DOMAIN n = DOMAIN r
  BY <1>3
<1>7. n \in Rings /\ Size(n) = Size(r)
  BY <1>3, <1>6 DEF Rings, Size
<1>8. \A x \in DOMAIN r : r[x] = b => x = s
  BY <1>1, <1>2, <1>5 DEF Holding, None
<1>9. Holding(n, b + 1)
  <2> SUFFICES ASSUME NEW x \in DOMAIN n, n[x] # None
               PROVE  x = Slot(n, n[x]) /\ b + 1 <= n[x] /\ n[x] < b + 1 + Size(n)
    BY DEF Holding
  <2>1. x # s /\ n[x] = r[x] /\ x \in DOMAIN r
    BY <1>5, <1>6
  <2>2. r[x] \in Nat /\ r[x] # b /\ x = Slot(r, r[x]) /\ b <= r[x] /\ r[x] < b + Size(r)
    BY <2>1, <1>1, <1>3, <1>8 DEF Holding
  <2> QED
    BY <2>1, <2>2, <1>1, <1>3, <1>7 DEF Slot
<1>10. Content(n) = Content(r) \ {b}
  BY <1>5, <1>6, <1>8 DEF Content, Range
<1> QED
  BY <1>1, <1>5, <1>7, <1>9, <1>10 DEF r, b, s

-----------------------------------------------------------------------------
(* Types.                                                                  *)

LEMMA TypesInit == Init => Types
<1> SUFFICES ASSUME Init PROVE Types
  OBVIOUS
<1>1. [s \in {} |-> None] \in Rings
  <2>1. [s \in {} |-> None] \in [0 .. 0 - 1 -> Nat \cup {None}]
    OBVIOUS
  <2> QED
    BY <2>1 DEF Rings
<1>2. lane \in [Lanes -> LaneRec]
  BY <1>1 DEF Init, NewLane, LaneRec
<1>3. hist \in [Lanes -> HistRec]
  BY PoolAssumption DEF Init, HistRec
<1>4. writer \in [Writers -> WriterRec] /\ flusher \in [Flushers -> FlusherRec]
  BY DEF Init, WriterRec, FlusherRec, Idle
<1>5. mapper \in [Mappers -> MapperRec] /\ reducer \in ReducerRec
  BY DEF Init, MapperRec, ReducerRec
<1>6. queue \in Seq(Tasks \cup {Sentinel}) /\ closer \in [Lanes -> ClosePcs]
  BY DEF Init, ClosePcs
<1> QED
  BY <1>2, <1>3, <1>4, <1>5, <1>6 DEF Types

\* The steps below change one lane, one writer or one worker.
LEMMA LaneTyped ==
    ASSUME Types, NEW l \in Lanes, NEW r \in LaneRec, lane' = [lane EXCEPT ![l] = r]
    PROVE  lane' \in [Lanes -> LaneRec]
  BY DEF Types

LEMMA WriterTyped ==
    ASSUME Types, NEW w \in Writers, NEW r \in WriterRec, writer' = [writer EXCEPT ![w] = r]
    PROVE  writer' \in [Writers -> WriterRec]
  BY DEF Types

LEMMA MapperTyped ==
    ASSUME Types, NEW m \in Mappers, NEW r \in MapperRec, mapper' = [mapper EXCEPT ![m] = r]
    PROVE  mapper' \in [Mappers -> MapperRec]
  BY DEF Types

LEMMA HistTyped ==
    ASSUME Types, NEW l \in Lanes, NEW r \in HistRec, hist' = [hist EXCEPT ![l] = r]
    PROVE  hist' \in [Lanes -> HistRec]
  BY DEF Types

LEMMA WakingTyped ==
    ASSUME Types
    PROVE  /\ WakeFlushers => /\ flusher' \in [Flushers -> FlusherRec]
                              /\ closer' \in [Lanes -> ClosePcs]
           /\ WakeMappers => mapper' \in [Mappers -> MapperRec]
           /\ WakeOneMapper => mapper' \in [Mappers -> MapperRec]
           /\ WakeReducer => reducer' \in ReducerRec
<1>1. ASSUME WakeFlushers PROVE flusher' \in [Flushers -> FlusherRec]
  <2>1. ASSUME NEW f \in Flushers PROVE [flusher[f] EXCEPT !.pc = "wait"] \in FlusherRec
    BY DEF Types, FlusherRec
  <2> QED
    BY <1>1, <2>1 DEF WakeFlushers, Types
<1>2. ASSUME WakeFlushers PROVE closer' \in [Lanes -> ClosePcs]
  BY <1>2 DEF WakeFlushers, Types, ClosePcs
<1>3. ASSUME NEW m \in Mappers PROVE [mapper[m] EXCEPT !.pc = "gate"] \in MapperRec
  BY DEF Types, MapperRec
<1>4. ASSUME WakeMappers PROVE mapper' \in [Mappers -> MapperRec]
  BY <1>3, <1>4 DEF WakeMappers, Types
<1>5. ASSUME WakeOneMapper PROVE mapper' \in [Mappers -> MapperRec]
  <2>1. CASE SleepingMappers = {}
    BY <1>5, <2>1 DEF WakeOneMapper, Types
  <2>2. CASE SleepingMappers # {}
    <3>1. PICK m \in SleepingMappers : mapper' = [mapper EXCEPT ![m].pc = "gate"]
      BY <1>5, <2>2 DEF WakeOneMapper
    <3>2. m \in Mappers
      BY DEF SleepingMappers
    <3>3. mapper' = [mapper EXCEPT ![m] = [mapper[m] EXCEPT !.pc = "gate"]]
      BY <3>1
    <3> QED
      BY <3>2, <3>3, <1>3, MapperTyped
  <2> QED
    BY <2>1, <2>2
<1>6. ASSUME WakeReducer PROVE reducer' \in ReducerRec
  BY <1>6 DEF WakeReducer, Types, ReducerRec
<1> QED
  BY <1>1, <1>2, <1>4, <1>5, <1>6

LEMMA TypesNext ==
    ASSUME Types, AllDue, Distinct, Window, Lined, InHand, Next
    PROVE  Types'
<1>l. \A l \in Lanes : lane[l] \in LaneRec /\ hist[l] \in HistRec
  BY DEF Types
<1>w. \A w \in Writers : writer[w] \in WriterRec /\ LaneOf[w] \in Lanes
  BY PoolAssumption DEF Types
<1>m. \A m \in Mappers : mapper[m] \in MapperRec
  BY DEF Types
<1>i. Idle \in WriterRec
  BY DEF Idle, WriterRec
<1>1. ASSUME NEW l \in Lanes, RegisterLib(l) PROVE Types'
  <2> DEFINE r == [lane[l] EXCEPT !.base = hist[l].ord, !.next = hist[l].ord]
  <2>1. r \in LaneRec
    BY <1>l DEF LaneRec, HistRec
  <2>2. lane' = [lane EXCEPT ![l] = r]
    BY <1>1 DEF RegisterLib, Types
  <2>3. lane' \in [Lanes -> LaneRec]
    BY <2>1, <2>2, LaneTyped
  <2>4. closer' \in [Lanes -> ClosePcs]
    BY <1>1 DEF RegisterLib, Types, ClosePcs
  <2> QED
    BY <1>1, <2>3, <2>4 DEF RegisterLib, Types
<1>2. ASSUME NEW l \in Lanes, Unregister(l) PROVE Types'
  BY <1>2 DEF Unregister, Types, ClosePcs
<1>3. ASSUME NEW l \in Lanes, UnregisterWait(l) PROVE Types'
  BY <1>3 DEF UnregisterWait, Types, ClosePcs
<1>4. ASSUME NEW l \in Lanes, UnregisterTimeout(l) PROVE Types'
  BY <1>4 DEF UnregisterTimeout, Types, ClosePcs
<1>5. ASSUME NEW l \in Lanes, Erase(l) PROVE Types'
  <2>1. mapper' \in [Mappers -> MapperRec]
    BY <1>5, WakingTyped DEF Erase, Types
  <2>2. closer' \in [Lanes -> ClosePcs]
    BY <1>5 DEF Erase, Types, ClosePcs
  <2>3. UNCHANGED <<lane, queue, writer, reducer, flusher, hist>>
    BY <1>5 DEF Erase
  <2> QED
    BY <2>1, <2>2, <2>3 DEF Types
<1>6. ASSUME NEW w \in Writers, AllocOrd(w) PROVE Types'
  <2> DEFINE l == LaneOf[w]
             r == [pc |-> "raise", ord |-> hist[l].ord]
             h == [hist[l] EXCEPT !.ord = @ + 1]
  <2>1. l \in Lanes /\ r \in WriterRec /\ h \in HistRec
    BY <1>l, <1>w DEF WriterRec, HistRec
  <2>2. writer' = [writer EXCEPT ![w] = r] /\ hist' = [hist EXCEPT ![l] = h]
    BY <1>6 DEF AllocOrd
  <2>3. writer' \in [Writers -> WriterRec] /\ hist' \in [Lanes -> HistRec]
    BY <2>1, <2>2, WriterTyped, HistTyped
  <2> QED
    BY <1>6, <2>3 DEF AllocOrd, Types
<1>7. ASSUME NEW w \in Writers, RaiseHwm(w) PROVE Types'
  <2> DEFINE l == LaneOf[w]
             r == [lane[l] EXCEPT !.hwm = IF writer[w].ord > @ THEN writer[w].ord ELSE @]
             x == [writer[w] EXCEPT !.pc = "count"]
  <2>1. l \in Lanes /\ r \in LaneRec /\ x \in WriterRec
    BY <1>l, <1>w DEF LaneRec, WriterRec, None
  <2>2. CASE Stopped
    <3>1. writer' \in [Writers -> WriterRec]
      BY <1>7, <2>2, <1>i, WriterTyped DEF RaiseHwm
    <3> QED
      BY <1>7, <2>2, <3>1 DEF RaiseHwm, Types
  <2>3. CASE ~Stopped
    <3>1. lane' = [lane EXCEPT ![l] = r] /\ writer' = [writer EXCEPT ![w] = x]
      BY <1>7, <2>3 DEF RaiseHwm
    <3>2. lane' \in [Lanes -> LaneRec] /\ writer' \in [Writers -> WriterRec]
      BY <2>1, <3>1, LaneTyped, WriterTyped
    <3> QED
      BY <1>7, <3>2 DEF RaiseHwm, Types
  <2> QED
    BY <2>2, <2>3
<1>8. ASSUME NEW w \in Writers, CountIn(w) PROVE Types'
  <2> DEFINE l == LaneOf[w]
             r == [lane[l] EXCEPT !.count = @ + 1]
             x == [writer[w] EXCEPT !.pc = "push"]
  <2>1. l \in Lanes /\ r \in LaneRec /\ x \in WriterRec
    BY <1>l, <1>w DEF LaneRec, WriterRec
  <2>2. lane' = [lane EXCEPT ![l] = r] /\ writer' = [writer EXCEPT ![w] = x]
    BY <1>8 DEF CountIn
  <2>3. lane' \in [Lanes -> LaneRec] /\ writer' \in [Writers -> WriterRec]
    BY <2>1, <2>2, LaneTyped, WriterTyped
  <2> QED
    BY <1>8, <2>3 DEF CountIn, Types
<1>9. ASSUME NEW w \in Writers, Push(w) PROVE Types'
  <2> DEFINE l == LaneOf[w]
             h == [hist[l] EXCEPT !.returned = @ \cup {writer[w].ord}]
  <2>1. TaskOf(w) \in Tasks
    BY <1>9 DEF Push, AllDue, Due, Holds
  <2>2. l \in Lanes /\ h \in HistRec
    BY <1>l, <1>w, <2>1 DEF HistRec, TaskOf, Tasks
  <2>3. queue' \in Seq(Tasks \cup {Sentinel})
    BY <1>9, <2>1 DEF Push, Types, TaskOf
  <2>4. hist' = [hist EXCEPT ![l] = h]
    BY <1>9 DEF Push
  <2>5. hist' \in [Lanes -> HistRec]
    BY <2>2, <2>4, HistTyped
  <2>6. writer' \in [Writers -> WriterRec]
    BY <1>9, <1>i, WriterTyped DEF Push
  <2> QED
    BY <1>9, <2>3, <2>5, <2>6 DEF Push, Types
<1>10. ASSUME NEW w \in Writers, PushThrows(w) PROVE Types'
  <2> DEFINE l == LaneOf[w]
             r == [lane[l] EXCEPT !.count = @ - 1]
             x == [Idle EXCEPT !.pc = AfterCountOut(l, "notify", "idle")]
  <2>1. l \in Lanes /\ r \in LaneRec /\ x \in WriterRec
    BY <1>l, <1>w, <1>i DEF LaneRec, WriterRec, AfterCountOut
  <2>2. lane' = [lane EXCEPT ![l] = r] /\ writer' = [writer EXCEPT ![w] = x]
    BY <1>10 DEF PushThrows, Compensated
  <2>3. lane' \in [Lanes -> LaneRec] /\ writer' \in [Writers -> WriterRec]
    BY <2>1, <2>2, LaneTyped, WriterTyped
  <2> QED
    BY <1>10, <2>3 DEF PushThrows, Types
<1>11. ASSUME NEW w \in Writers, WriterNotify(w) PROVE Types'
  <2> DEFINE x == [writer[w] EXCEPT !.pc = "idle"]
  <2>1. x \in WriterRec
    BY <1>w DEF WriterRec
  <2>2. writer' = [writer EXCEPT ![w] = x]
    BY <1>11 DEF WriterNotify
  <2>3. writer' \in [Writers -> WriterRec]
    BY <2>1, <2>2, WriterTyped
  <2> QED
    BY <1>11, <2>3, WakingTyped DEF WriterNotify, Types
<1>12. ASSUME NEW w \in Writers, Die(w) PROVE Types'
  <2> DEFINE x == [writer[w] EXCEPT !.pc = "dead"]
  <2>1. x \in WriterRec
    BY <1>w DEF WriterRec
  <2>2. writer' = [writer EXCEPT ![w] = x]
    BY <1>12 DEF Die
  <2>3. writer' \in [Writers -> WriterRec]
    BY <2>1, <2>2, WriterTyped
  <2> QED
    BY <1>12, <2>3 DEF Die, Types
<1>13. ASSUME NEW m \in Mappers, MapGate(m) PROVE Types'
  <2> DEFINE x == [mapper[m] EXCEPT !.pc = IF GateOpen THEN "pop" ELSE "asleep"]
  <2>1. x \in MapperRec
    BY <1>m DEF MapperRec
  <2>2. mapper' = [mapper EXCEPT ![m] = x]
    BY <1>13 DEF MapGate
  <2>3. mapper' \in [Mappers -> MapperRec]
    BY <2>1, <2>2, MapperTyped
  <2> QED
    BY <1>13, <2>3 DEF MapGate, Types
<1>14. ASSUME NEW m \in Mappers, Pop(m) PROVE Types'
  <2> DEFINE x == IF Head(queue) = Sentinel THEN [pc |-> "done", task |-> NoTask]
                                            ELSE [pc |-> "park", task |-> Head(queue)]
  <2>1. Head(queue) \in Tasks \cup {Sentinel} /\ Tail(queue) \in Seq(Tasks \cup {Sentinel})
    BY <1>14 DEF Pop, Types
  <2>2. x \in MapperRec
    BY <2>1 DEF MapperRec
  <2>3. mapper' = [mapper EXCEPT ![m] = x]
    BY <1>14 DEF Pop
  <2>4. mapper' \in [Mappers -> MapperRec]
    BY <2>2, <2>3, MapperTyped
  <2> QED
    BY <1>14, <2>1, <2>4 DEF Pop, Types
<1>15. ASSUME NEW m \in Mappers, Park(m) PROVE Types'
  <2> DEFINE t == mapper[m].task
             r == [lane[t.lane] EXCEPT !.ring = RingPut(t.lane, t.ord)]
             x == [mapper[m] EXCEPT !.pc = "notify"]
  <2>1. t \in Tasks /\ RingPut(t.lane, t.ord) \in Rings
    BY <1>15, RingAfterPut DEF Park, Parking
  <2>2. t.lane \in Lanes /\ r \in LaneRec /\ x \in MapperRec
    BY <1>l, <1>m, <2>1 DEF LaneRec, MapperRec, Tasks
  <2>3. lane' = [lane EXCEPT ![t.lane] = r] /\ mapper' = [mapper EXCEPT ![m] = x]
    BY <1>15 DEF Park
  <2>4. lane' \in [Lanes -> LaneRec] /\ mapper' \in [Mappers -> MapperRec]
    BY <2>2, <2>3, LaneTyped, MapperTyped
  <2> QED
    BY <1>15, <2>4 DEF Park, Types
<1>16. ASSUME NEW m \in Mappers, MapNotify(m) PROVE Types'
  <2>1. [pc |-> "gate", task |-> NoTask] \in MapperRec
    BY DEF MapperRec
  <2>2. mapper' \in [Mappers -> MapperRec]
    BY <1>16, <2>1, MapperTyped DEF MapNotify
  <2> QED
    BY <1>16, <2>2, WakingTyped DEF MapNotify, Types
<1>17. CASE ReducerExit
  BY <1>17 DEF ReducerExit, Types, ReducerRec
<1>18. CASE ReducerSleep
  BY <1>18 DEF ReducerSleep, Types, ReducerRec
<1>19. ASSUME NEW l \in Lanes, TakeFront(l) PROVE Types'
  <2> DEFINE s == FrontSlot(l)
             n == [lane[l].ring EXCEPT ![s] = None]
             r == [lane[l] EXCEPT !.ring = n, !.base = @ + 1]
  <2>1. n \in Rings /\ lane[l].ring[s] \in Nat
    BY <1>19, <1>l, RingAfterTake DEF TakeFront, LaneRec
  <2>2. r \in LaneRec
    <3> HIDE DEF n
    <3>1. lane[l] \in LaneRec /\ lane[l].base + 1 \in Nat
      BY <1>l DEF LaneRec
    <3>2. r = [[lane[l] EXCEPT !.ring = n] EXCEPT !.base = lane[l].base + 1]
      BY <3>1 DEF LaneRec
    <3> QED
      BY <3>1, <3>2, <2>1 DEF LaneRec
  <2>3. lane' = [lane EXCEPT ![l] = r]
    BY <1>19, <1>l DEF TakeFront, LaneRec
  <2>4. lane' \in [Lanes -> LaneRec]
    BY <2>2, <2>3, LaneTyped
  <2>5. reducer' \in ReducerRec
    BY <1>19, <2>1 DEF TakeFront, Tasks, ReducerRec
  <2> QED
    BY <1>19, <2>4, <2>5 DEF TakeFront, Types
<1>20. CASE Apply
  <2> DEFINE l == reducer.task.lane
             r == [lane[l] EXCEPT !.applied = lane[l].next, !.next = @ + 1]
             h == [hist[l] EXCEPT !.log = Append(@, reducer.task.ord)]
  <2>1. reducer.task \in Tasks
    BY <1>20 DEF Apply, InHand
  <2>2. l \in Lanes /\ reducer.task.ord \in Nat
    BY <2>1 DEF Tasks
  <2>a. r \in LaneRec
    <3>1. lane[l] \in LaneRec /\ lane[l].next \in Nat /\ lane[l].next + 1 \in Nat
      BY <1>l, <2>2 DEF LaneRec
    <3>2. r = [[lane[l] EXCEPT !.applied = lane[l].next] EXCEPT !.next = lane[l].next + 1]
      BY <3>1 DEF LaneRec
    <3> QED
      BY <3>1, <3>2 DEF LaneRec
  <2>b. h \in HistRec
    <3>1. hist[l] \in HistRec /\ Append(hist[l].log, reducer.task.ord) \in Seq(Nat)
      BY <1>l, <2>2 DEF HistRec
    <3> QED
      BY <3>1 DEF HistRec
  <2>3. lane' = [lane EXCEPT ![l] = r] /\ hist' = [hist EXCEPT ![l] = h]
    BY <1>20 DEF Apply
  <2>4. lane' \in [Lanes -> LaneRec] /\ hist' \in [Lanes -> HistRec]
    BY <2>2, <2>3, <2>a, <2>b, LaneTyped, HistTyped
  <2>5. reducer' \in ReducerRec
    BY <1>20 DEF Apply, Types, ReducerRec
  <2> QED
    BY <1>20, <2>4, <2>5 DEF Apply, Types
<1>21. CASE ReducerCount
  <2> DEFINE l == reducer.task.lane
             r == [lane[l] EXCEPT !.count = @ - 1]
  <2>1. reducer.task \in Tasks
    BY <1>21 DEF ReducerCount, InHand
  <2>2. l \in Lanes /\ r \in LaneRec
    BY <1>l, <2>1 DEF LaneRec, Tasks
  <2>3. lane' = [lane EXCEPT ![l] = r]
    BY <1>21 DEF ReducerCount
  <2>4. lane' \in [Lanes -> LaneRec]
    BY <2>2, <2>3, LaneTyped
  <2>5. reducer' \in ReducerRec
    BY <1>21 DEF ReducerCount, AfterCountOut, Types, ReducerRec
  <2> QED
    BY <1>21, <2>4, <2>5 DEF ReducerCount, Types
<1>22. CASE ReducerNotify
  <2>1. reducer' \in ReducerRec
    BY <1>22 DEF ReducerNotify, Types, ReducerRec
  <2> QED
    BY <1>22, <2>1, WakingTyped DEF ReducerNotify, Types
<1>23. CASE ReducerRelease
  <2>1. reducer' \in ReducerRec
    BY <1>23 DEF ReducerRelease, ReducerRec
  <2> QED
    BY <1>23, <2>1, WakingTyped DEF ReducerRelease, Types
<1>24. ASSUME NEW f \in Flushers, Flush(f) PROVE Types'
  <2>1. hist[FlushLane[f]].returned \in SUBSET Nat
    BY <1>l, PoolAssumption DEF HistRec
  <2>2. flusher' \in [Flushers -> FlusherRec]
    BY <1>24, <2>1 DEF Flush, Types, FlusherRec
  <2> QED
    BY <1>24, <2>2 DEF Flush, Types
<1>25. ASSUME NEW f \in Flushers, FlushWait(f) PROVE Types'
  <2> DEFINE x == [flusher[f] EXCEPT !.pc = IF Drained(FlushLane[f]) THEN "back" ELSE "asleep"]
  <2>1. x \in FlusherRec
    BY DEF Types, FlusherRec
  <2>2. flusher' = [flusher EXCEPT ![f] = x]
    BY <1>25 DEF FlushWait
  <2> HIDE DEF x
  <2>3. flusher' \in [Flushers -> FlusherRec]
    BY <2>1, <2>2 DEF Types
  <2> QED
    BY <1>25, <2>3 DEF FlushWait, Types
<1>26. CASE Stop
  BY <1>26 DEF Stop, Types
<1>27. CASE StopWake
  BY <1>27, WakingTyped DEF StopWake, Types
<1>28. CASE StopPush
  BY <1>28 DEF StopPush, Types
<1>29. CASE StopReducer
  BY <1>29, WakingTyped DEF StopReducer, Types
<1>30. CASE StopJoined
  BY <1>30 DEF StopJoined, Types
<1> QED
  BY <1>1, <1>2, <1>3, <1>4, <1>5, <1>6, <1>7, <1>8, <1>9, <1>10, <1>11, <1>12,
     <1>13, <1>14, <1>15, <1>16, <1>17, <1>18, <1>19, <1>20, <1>21, <1>22, <1>23,
     <1>24, <1>25, <1>26, <1>27, <1>28, <1>29, <1>30
     DEF Next, CloserStep, WriterStep, MapperStep, ReducerStep, StopperStep

-----------------------------------------------------------------------------
(* Where the tasks are.                                                    *)

Places == AllDue /\ Distinct /\ Window

\* A step that takes no task to a new place.
LEMMA PlacesKept ==
    ASSUME Types, Types', Places,
           \A l \in Lanes : lane'[l].ring = lane[l].ring,
           \A t \in Tasks : Due(t) => lane'[t.lane].base = lane[t.lane].base,
           \A l \in Lanes : hist[l].ord <= hist'[l].ord,
           queue' = queue,
           \A w \in Writers : Holds(w)' => Holds(w) /\ writer'[w].ord = writer[w].ord,
           \A m \in Mappers : Parking(m)' => Parking(m) /\ mapper'[m].task = mapper[m].task
    PROVE  Places'
<1>1. ASSUME NEW t, Due(t) PROVE Due(t)'
  <2>1. /\ t \in Tasks /\ t.lane \in Lanes /\ t.ord \in Nat /\ lane[t.lane].base <= t.ord
        /\ FirstOrd[t.lane] <= t.ord /\ t.ord < hist[t.lane].ord
    BY <1>1 DEF Due, Tasks
  <2>2. lane'[t.lane].base <= t.ord
    BY <1>1, <2>1
  <2>3. hist[t.lane].ord \in Nat /\ hist'[t.lane].ord \in Nat
    BY <2>1 DEF Types, HistRec
  <2>4. t.ord < hist'[t.lane].ord
    BY <2>1, <2>3
  <2> QED
    BY <2>1, <2>2, <2>4 DEF Due
<1>2. \A l \in Lanes : Parked(l)' = Parked(l)
  BY DEF Parked
<1>3. \A t \in Tasks : IsParked(t)' <=> IsParked(t)
  BY <1>2 DEF IsParked, Tasks
<1>4. \A w \in Writers : Holds(w)' => Holds(w) /\ TaskOf(w)' = TaskOf(w)
  BY DEF TaskOf
<1>5. AllDue'
  BY <1>1, <1>2, <1>4 DEF Places, AllDue
<1>6. /\ \A w \in Writers : Holds(w) => TaskOf(w) \in Tasks
      /\ \A i \in DOMAIN queue : queue[i] # Sentinel => queue[i] \in Tasks
      /\ \A m \in Mappers : Parking(m) => mapper[m].task \in Tasks
  BY DEF Places, AllDue, Due
<1>7. Distinct'
  BY <1>3, <1>4, <1>6 DEF Places, Distinct
<1>8. Window'
  <2> SUFFICES ASSUME NEW l \in Lanes, NEW s \in DOMAIN lane[l].ring, lane[l].ring[s] # None
               PROVE  /\ s = Slot(lane[l].ring, lane[l].ring[s])
                      /\ lane[l].ring[s] < lane'[l].base + Size(lane[l].ring)
    BY DEF Window, Slot, Size
  <2> DEFINE t == [lane |-> l, ord |-> lane[l].ring[s]]
  <2>1. lane[l].ring[s] \in Parked(l)
    BY DEF Parked, Range
  <2>2. Due(t) /\ t \in Tasks
    BY <2>1 DEF Places, AllDue, Due
  <2>3. lane'[l].base = lane[l].base
    BY <2>2
  <2> QED
    BY <2>3 DEF Places, Window
<1> QED
  BY <1>5, <1>7, <1>8 DEF Places

LEMMA PlacesAlloc ==
    ASSUME Types, Types', Places, Lined, NEW w \in Writers, AllocOrd(w)
    PROVE  Places'
<1> DEFINE k == LaneOf[w]
<1>0. PICK t : t = [lane |-> k, ord |-> hist[k].ord]
  OBVIOUS
<1>1. /\ k \in Lanes /\ hist[k].ord \in Nat /\ hist'[k].ord = hist[k].ord + 1
      /\ \A l \in Lanes : hist[l].ord \in Nat /\ hist[l].ord <= hist'[l].ord
  <2>1. k \in Lanes /\ \A l \in Lanes : hist[l] \in HistRec
    BY PoolAssumption DEF Types
  <2>2. \A l \in Lanes : hist[l].ord \in Nat
    BY <2>1 DEF HistRec
  <2>3. \A l \in Lanes : hist'[l].ord = IF l = k THEN hist[k].ord + 1 ELSE hist[l].ord
    BY <2>1 DEF AllocOrd, Types, HistRec
  <2> QED
    BY <2>1, <2>2, <2>3
<1>2. lane' = lane /\ queue' = queue /\ mapper' = mapper
  BY DEF AllocOrd
<1>3. TaskOf(w)' = t
  BY <1>0 DEF AllocOrd, TaskOf, Types
<1>4. \A v \in Writers : v # w => (Holds(v)' <=> Holds(v)) /\ TaskOf(v)' = TaskOf(v)
  BY DEF AllocOrd, Types, Holds, TaskOf
<1> HIDE DEF k
\* The ord is fresh: every task there is has a lower one.
<1>5. t \in Tasks /\ ~Due(t) /\ Due(t)'
  <2>1. lane[k].base <= hist[k].ord /\ FirstOrd[k] <= hist[k].ord
    BY <1>1 DEF Lined, LaneInLine
  <2> QED
    BY <1>0, <1>1, <1>2, <2>1 DEF Due, Tasks
<1>6. ASSUME NEW x, Due(x) PROVE Due(x)' /\ x # t
  <2>1. /\ x \in Tasks /\ x.lane \in Lanes /\ x.ord \in Nat /\ lane[x.lane].base <= x.ord
        /\ FirstOrd[x.lane] <= x.ord /\ x.ord < hist[x.lane].ord
    BY <1>6 DEF Due, Tasks
  <2>2. hist[x.lane].ord \in Nat /\ hist'[x.lane].ord \in Nat /\ hist[x.lane].ord <= hist'[x.lane].ord
    BY <1>1, <2>1 DEF Types, HistRec
  <2>3. x.ord < hist'[x.lane].ord
    BY <2>1, <2>2
  <2> QED
    BY <1>2, <1>5, <1>6, <2>1, <2>3 DEF Due
<1>7. \A l \in Lanes : Parked(l)' = Parked(l)
  BY <1>2 DEF Parked
<1>8. AllDue'
  <2>1. ASSUME NEW v \in Writers, Holds(v)' PROVE Due(TaskOf(v))'
    <3>1. CASE v = w
      BY <3>1, <1>3, <1>5
    <3>2. CASE v # w
      BY <2>1, <3>2, <1>4, <1>6 DEF Places, AllDue
    <3> QED
      BY <3>1, <3>2
  <2>2. ASSUME NEW i \in DOMAIN queue PROVE queue[i] = Sentinel \/ Due(queue[i])'
    BY <1>2, <1>6 DEF Places, AllDue
  <2>3. ASSUME NEW m \in Mappers, Parking(m) PROVE Due(mapper[m].task)'
    BY <2>3, <1>2, <1>6 DEF Places, AllDue
  <2>4. ASSUME NEW l \in Lanes, NEW o \in Parked(l) PROVE Due([lane |-> l, ord |-> o])'
    BY <1>6 DEF Places, AllDue
  <2> QED
    BY <2>1, <2>2, <2>3, <2>4, <1>2, <1>7 DEF AllDue, Parking
<1>9. \A x \in Tasks : IsParked(x)' <=> IsParked(x)
  BY <1>7 DEF IsParked, Tasks
<1>10. ~IsParked(t)
  <2>1. IsParked(t) => Due([lane |-> k, ord |-> hist[k].ord])
    BY <1>0, <1>1 DEF IsParked, Places, AllDue
  <2> QED
    BY <2>1, <1>0, <1>5
<1>11. /\ \A v \in Writers : Holds(v) => TaskOf(v) \in Tasks /\ TaskOf(v) # t
       /\ \A i \in DOMAIN queue : queue[i] # Sentinel => queue[i] \in Tasks /\ queue[i] # t
       /\ \A m \in Mappers : Parking(m) => mapper[m].task \in Tasks /\ mapper[m].task # t
  BY <1>6 DEF Places, AllDue, Due
<1>12. t # Sentinel /\ \A m \in Mappers : Parking(m)' <=> Parking(m)
  BY <1>0, <1>1, <1>2, PoolAssumption DEF Sentinel, Parking
<1>13. Distinct'
  <2>1. \A u, v \in Writers : u # v /\ Holds(u)' /\ Holds(v)' => TaskOf(u)' # TaskOf(v)'
    BY <1>3, <1>4, <1>11 DEF Places, Distinct
  <2>2. ASSUME NEW v \in Writers, Holds(v)'
        PROVE  /\ \A i \in DOMAIN queue : queue[i] # TaskOf(v)'
               /\ \A m \in Mappers : Parking(m) => mapper[m].task # TaskOf(v)'
               /\ ~IsParked(TaskOf(v)')
    <3>1. CASE v = w
      <4>1. \A i \in DOMAIN queue : queue[i] # t
        BY <1>11, <1>12
      <4> QED
        BY <3>1, <4>1, <1>3, <1>10, <1>11
    <3>2. CASE v # w
      BY <2>2, <3>2, <1>4 DEF Places, Distinct
    <3> QED
      BY <3>1, <3>2
  <2>3. \A v \in Writers : Holds(v)' => TaskOf(v)' \in Tasks
    BY <1>3, <1>4, <1>5, <1>11
  <2> QED
    BY <2>1, <2>2, <2>3, <1>2, <1>9, <1>11, <1>12 DEF Places, Distinct
<1>14. Window'
  BY <1>2 DEF Places, Window, Slot, Size
<1> QED
  BY <1>8, <1>13, <1>14 DEF Places

LEMMA PlacesPush ==
    ASSUME Types, Types', Places, NEW w \in Writers, Push(w)
    PROVE  Places'
<1> DEFINE t == TaskOf(w)
           n == Len(queue) + 1
<1>1. Holds(w) /\ ~Holds(w)'
  BY DEF Push, Holds, Types, Idle
<1>2. t \in Tasks /\ Due(t) /\ t # Sentinel
  <2>1. t \in Tasks /\ Due(t)
    BY <1>1 DEF Places, AllDue, Due
  <2> QED
    BY <2>1, PoolAssumption DEF Tasks, Sentinel
<1>3. /\ n \in Nat /\ DOMAIN queue = 1 .. n - 1 /\ DOMAIN queue' = 1 .. n
      /\ queue'[n] = t /\ \A i \in 1 .. n - 1 : queue'[i] = queue[i]
  BY DEF Push, Types, TaskOf
<1>4. lane' = lane /\ mapper' = mapper /\ \A l \in Lanes : hist'[l].ord = hist[l].ord
  BY DEF Push, Types, HistRec
<1>5. \A v \in Writers : v # w => (Holds(v)' <=> Holds(v)) /\ TaskOf(v)' = TaskOf(v)
  BY DEF Push, Types, Holds, TaskOf
<1> HIDE DEF t, n
<1>6. ASSUME NEW x PROVE Due(x)' <=> Due(x)
  BY <1>4 DEF Due, Tasks
<1>7. \A l \in Lanes : Parked(l)' = Parked(l)
  BY <1>4 DEF Parked
<1>8. \A x \in Tasks : IsParked(x)' <=> IsParked(x)
  BY <1>7 DEF IsParked, Tasks
<1>9. \A m \in Mappers : Parking(m)' <=> Parking(m)
  BY <1>4 DEF Parking
<1>10. AllDue'
  <2>1. \A i \in DOMAIN queue' : queue'[i] = Sentinel \/ Due(queue'[i])
    BY <1>2, <1>3 DEF Places, AllDue
  <2> QED
    BY <2>1, <1>1, <1>4, <1>5, <1>6, <1>7, <1>9 DEF Places, AllDue
<1>11. /\ \A v \in Writers : Holds(v) => TaskOf(v) \in Tasks
       /\ \A i \in DOMAIN queue : queue[i] # Sentinel => queue[i] \in Tasks
       /\ \A m \in Mappers : Parking(m) => mapper[m].task \in Tasks
  BY DEF Places, AllDue, Due
<1>12. Distinct'
  <2>1. \A i \in DOMAIN queue : queue[i] # t
    BY <1>1 DEF t, Places, Distinct
  <2>2. \A m \in Mappers : Parking(m) => mapper[m].task # t
    BY <1>1 DEF t, Places, Distinct
  <2>3. ~IsParked(t)
    BY <1>1 DEF t, Places, Distinct
  <2>4. \A v \in Writers : v # w /\ Holds(v) => TaskOf(v) # t
    BY <1>1 DEF t, Places, Distinct
  <2>5. \A i, j \in DOMAIN queue' : i # j /\ queue'[i] # Sentinel => queue'[i] # queue'[j]
    BY <1>3, <2>1 DEF Places, Distinct
  <2>6. \A v \in Writers : Holds(v)' => \A i \in DOMAIN queue' : queue'[i] # TaskOf(v)'
    BY <1>1, <1>3, <1>5, <2>4 DEF Places, Distinct
  <2>7. \A i \in DOMAIN queue' : queue'[i] # Sentinel =>
           /\ \A m \in Mappers : Parking(m) => mapper[m].task # queue'[i]
           /\ ~IsParked(queue'[i])
    BY <1>3, <2>2, <2>3 DEF Places, Distinct
  <2>8. \A i \in DOMAIN queue' : queue'[i] # Sentinel => queue'[i] \in Tasks
    BY <1>2, <1>3, <1>11
  <2> QED
    BY <2>5, <2>6, <2>7, <2>8, <1>1, <1>4, <1>5, <1>8, <1>9, <1>11 DEF Places, Distinct
<1>13. Window'
  BY <1>4 DEF Places, Window, Slot, Size
<1> QED
  BY <1>10, <1>12, <1>13 DEF Places

LEMMA PlacesStopPush ==
    ASSUME Types, Types', Places, StopPush
    PROVE  Places'
<1> DEFINE n == Len(queue) + 1
<1>1. /\ n \in Nat /\ DOMAIN queue = 1 .. n - 1 /\ DOMAIN queue' = 1 .. n
      /\ queue'[n] = Sentinel /\ \A i \in 1 .. n - 1 : queue'[i] = queue[i]
  BY DEF StopPush, Types
<1>2. lane' = lane /\ mapper' = mapper /\ writer' = writer /\ hist' = hist
  BY DEF StopPush
<1> HIDE DEF n
<1>3. ASSUME NEW x PROVE (Due(x)' <=> Due(x)) /\ (IsParked(x)' <=> IsParked(x))
  BY <1>2 DEF Due, IsParked, Parked
<1>4. /\ \A w \in Writers : (Holds(w)' <=> Holds(w)) /\ TaskOf(w)' = TaskOf(w)
      /\ \A m \in Mappers : Parking(m)' <=> Parking(m)
      /\ \A l \in Lanes : Parked(l)' = Parked(l)
  BY <1>2 DEF Holds, TaskOf, Parking, Parked
<1>5. AllDue'
  <2>1. \A i \in DOMAIN queue' : queue'[i] = Sentinel \/ Due(queue'[i])
    BY <1>1 DEF Places, AllDue
  <2> QED
    BY <2>1, <1>2, <1>3, <1>4 DEF Places, AllDue
<1>6. \A w \in Writers : Holds(w) => TaskOf(w) # Sentinel
  <2>1. \A w \in Writers : Holds(w) => TaskOf(w) \in Tasks
    BY DEF Places, AllDue, Due
  <2> QED
    BY <2>1, PoolAssumption DEF Tasks, Sentinel
<1>7. Distinct'
  <2>1. \A i, j \in DOMAIN queue' : i # j /\ queue'[i] # Sentinel => queue'[i] # queue'[j]
    BY <1>1 DEF Places, Distinct
  <2>2. \A w \in Writers : Holds(w) => \A i \in DOMAIN queue' : queue'[i] # TaskOf(w)
    BY <1>1, <1>6 DEF Places, Distinct
  <2>3. \A i \in DOMAIN queue' : queue'[i] # Sentinel =>
           /\ \A m \in Mappers : Parking(m) => mapper[m].task # queue'[i]
           /\ ~IsParked(queue'[i])
    BY <1>1 DEF Places, Distinct
  <2> QED
    BY <2>1, <2>2, <2>3, <1>2, <1>3, <1>4 DEF Places, Distinct
<1>8. Window'
  BY <1>2 DEF Places, Window, Slot, Size
<1> QED
  BY <1>5, <1>7, <1>8 DEF Places

LEMMA PlacesPop ==
    ASSUME Types, Types', Places, NEW m \in Mappers, Pop(m)
    PROVE  Places'
<1> DEFINE n == Len(queue)
<1>1. /\ n \in Nat \ {0} /\ DOMAIN queue = 1 .. n /\ DOMAIN queue' = 1 .. n - 1
      /\ \A i \in 1 .. n - 1 : queue'[i] = queue[i + 1]
  BY DEF Pop, Types
<1>2. lane' = lane /\ writer' = writer /\ hist' = hist
  BY DEF Pop
<1>3. /\ \A k \in Mappers : k # m => mapper'[k] = mapper[k]
      /\ Parking(m)' => queue[1] # Sentinel /\ mapper'[m].task = queue[1]
  BY DEF Pop, Types, Parking
<1> HIDE DEF n
<1>4. ASSUME NEW x PROVE (Due(x)' <=> Due(x)) /\ (IsParked(x)' <=> IsParked(x))
  BY <1>2 DEF Due, IsParked, Parked
<1>5. /\ \A w \in Writers : (Holds(w)' <=> Holds(w)) /\ TaskOf(w)' = TaskOf(w)
      /\ \A k \in Mappers : k # m => (Parking(k)' <=> Parking(k))
      /\ \A l \in Lanes : Parked(l)' = Parked(l)
  BY <1>2, <1>3 DEF Holds, TaskOf, Parking, Parked
<1>6. \A i \in DOMAIN queue' : i + 1 \in DOMAIN queue /\ i + 1 # 1 /\ queue'[i] = queue[i + 1]
  BY <1>1
<1>7. 1 \in DOMAIN queue
  BY <1>1
<1>8. AllDue'
  <2>1. \A i \in DOMAIN queue' : queue'[i] = Sentinel \/ Due(queue'[i])
    BY <1>6 DEF Places, AllDue
  <2>2. \A k \in Mappers : Parking(k)' => Due(mapper'[k].task)
    BY <1>3, <1>5, <1>7 DEF Places, AllDue
  <2> QED
    BY <2>1, <2>2, <1>2, <1>4, <1>5 DEF Places, AllDue
<1>9. Distinct'
  <2>1. \A i, j \in DOMAIN queue' : i # j /\ queue'[i] # Sentinel => queue'[i] # queue'[j]
    <3>1. \A i, j \in DOMAIN queue' : i # j => i + 1 # j + 1
      BY <1>1
    <3> QED
      BY <3>1, <1>6 DEF Places, Distinct
  <2>2. \A w \in Writers : Holds(w) =>
           /\ \A i \in DOMAIN queue' : queue'[i] # TaskOf(w)
           /\ \A k \in Mappers : Parking(k)' => mapper'[k].task # TaskOf(w)
    BY <1>3, <1>5, <1>6, <1>7 DEF Places, Distinct
  <2>3. \A i \in DOMAIN queue' : queue'[i] # Sentinel =>
           /\ \A k \in Mappers : Parking(k)' => mapper'[k].task # queue'[i]
           /\ ~IsParked(queue'[i])
    BY <1>3, <1>5, <1>6, <1>7 DEF Places, Distinct
  <2>4. \A j, k \in Mappers : j # k /\ Parking(j)' /\ Parking(k)'
                                 => mapper'[j].task # mapper'[k].task
    BY <1>3, <1>5, <1>7 DEF Places, Distinct
  <2>5. \A k \in Mappers : Parking(k)' => ~IsParked(mapper'[k].task)
    BY <1>3, <1>5, <1>7 DEF Places, Distinct
  <2> QED
    BY <2>1, <2>2, <2>3, <2>4, <2>5, <1>2, <1>4, <1>5 DEF Places, Distinct
<1>10. Window'
  BY <1>2 DEF Places, Window, Slot, Size
<1> QED
  BY <1>8, <1>9, <1>10 DEF Places

LEMMA PlacesPark ==
    ASSUME Types, Types', Places, Lined, NEW m \in Mappers, Park(m)
    PROVE  Places'
<1>0. PICK t : t = mapper[m].task
  OBVIOUS
<1>1. /\ Parking(m) /\ ~Parking(m)' /\ t \in Tasks /\ t.lane \in Lanes /\ t.ord \in Nat
      /\ \A k \in Mappers : k # m => (Parking(k)' <=> Parking(k)) /\ mapper'[k] = mapper[k]
  BY <1>0 DEF Park, Parking, Types, Places, AllDue, Due, Tasks
<1>2. /\ lane'[t.lane].ring = RingPut(t.lane, t.ord)
      /\ lane'[t.lane].base = lane[t.lane].base
      /\ \A l \in Lanes : l # t.lane => lane'[l] = lane[l]
  BY <1>0, <1>1 DEF Park, Types, LaneRec
<1>3. queue' = queue /\ writer' = writer /\ hist' = hist
  BY DEF Park
<1>4. /\ Holding(RingPut(t.lane, t.ord), lane[t.lane].base)
      /\ Content(RingPut(t.lane, t.ord)) = Parked(t.lane) \cup {t.ord}
  BY <1>0, <1>1, RingAfterPut DEF Places
<1>5. /\ \A l \in Lanes : Parked(l)' = IF l = t.lane THEN Parked(l) \cup {t.ord} ELSE Parked(l)
      /\ \A l \in Lanes : lane'[l].base = lane[l].base
  BY <1>1, <1>2, <1>4 DEF Parked, Content
<1>6. ASSUME NEW x PROVE Due(x)' <=> Due(x)
  BY <1>3, <1>5 DEF Due, Tasks
<1>7. ASSUME NEW x \in Tasks PROVE IsParked(x)' <=> IsParked(x) \/ x = t
  BY <1>1, <1>5 DEF IsParked, Tasks
<1>8. /\ \A w \in Writers : (Holds(w)' <=> Holds(w)) /\ TaskOf(w)' = TaskOf(w)
      /\ \A w \in Writers : Holds(w) => TaskOf(w) \in Tasks /\ TaskOf(w) # t
      /\ \A i \in DOMAIN queue : queue[i] # Sentinel => queue[i] \in Tasks /\ queue[i] # t
      /\ \A k \in Mappers : k # m /\ Parking(k) => mapper[k].task \in Tasks /\ mapper[k].task # t
  <2>1. \A w \in Writers : (Holds(w)' <=> Holds(w)) /\ TaskOf(w)' = TaskOf(w)
    BY <1>3 DEF Holds, TaskOf
  <2> QED
    BY <2>1, <1>0, <1>1 DEF Places, AllDue, Due, Distinct
<1>9. AllDue'
  <2>1. Due(t)
    BY <1>0, <1>1 DEF Places, AllDue
  <2>2. t = [lane |-> t.lane, ord |-> t.ord]
    BY <1>1 DEF Tasks
  <2>3. ASSUME NEW l \in Lanes, NEW o \in Parked(l)' PROVE Due([lane |-> l, ord |-> o])'
    BY <2>1, <2>2, <1>5, <1>6 DEF Places, AllDue
  <2>4. \A k \in Mappers : Parking(k)' => Due(mapper'[k].task)
    BY <1>1 DEF Places, AllDue
  <2> QED
    BY <2>3, <2>4, <1>3, <1>6, <1>8 DEF Places, AllDue
<1>10. Distinct'
  <2>1. \A j, k \in Mappers : j # k /\ Parking(j)' /\ Parking(k)'
                                 => mapper'[j].task # mapper'[k].task
    BY <1>1 DEF Places, Distinct
  <2>2. \A w \in Writers : Holds(w) =>
           /\ \A i \in DOMAIN queue : queue[i] # TaskOf(w)
           /\ \A k \in Mappers : Parking(k)' => mapper'[k].task # TaskOf(w)
           /\ ~IsParked(TaskOf(w))'
    BY <1>1, <1>7, <1>8 DEF Places, Distinct
  <2>3. \A i \in DOMAIN queue : queue[i] # Sentinel =>
           /\ \A k \in Mappers : Parking(k)' => mapper'[k].task # queue[i]
           /\ ~IsParked(queue[i])'
    BY <1>1, <1>3, <1>7, <1>8 DEF Places, Distinct
  <2>4. \A k \in Mappers : Parking(k)' => ~IsParked(mapper[k].task)'
    BY <1>1, <1>7, <1>8 DEF Places, Distinct
  <2> QED
    BY <2>1, <2>2, <2>3, <2>4, <1>3, <1>8 DEF Places, Distinct
<1>11. Window'
  <2>1. ASSUME NEW l \in Lanes, l # t.lane, NEW s \in DOMAIN lane[l].ring, lane[l].ring[s] # None
        PROVE  /\ s = Slot(lane[l].ring, lane[l].ring[s])
               /\ lane[l].ring[s] < lane[l].base + Size(lane[l].ring)
    BY <2>1 DEF Places, Window
  <2> QED
    BY <2>1, <1>1, <1>2, <1>4 DEF Window, Holding, Slot, Size
<1> QED
  BY <1>9, <1>10, <1>11 DEF Places

LEMMA PlacesTake ==
    ASSUME Types, Types', Places, NEW l \in Lanes, TakeFront(l)
    PROVE  Places'
<1>0. PICK b : b = lane[l].base
  OBVIOUS
<1> DEFINE t == [lane |-> l, ord |-> b]
           n == [lane[l].ring EXCEPT ![FrontSlot(l)] = None]
<1>1. /\ b \in Nat /\ b \in Parked(l) /\ Holding(n, b + 1) /\ Content(n) = Parked(l) \ {b}
  BY <1>0, RingAfterTake DEF TakeFront, Places, Types, LaneRec
<1>2. /\ lane'[l].ring = n /\ lane'[l].base = b + 1
      /\ \A k \in Lanes : k # l => lane'[k] = lane[k]
  BY <1>0 DEF TakeFront, Types, LaneRec
<1>3. queue' = queue /\ writer' = writer /\ mapper' = mapper /\ hist' = hist
  BY DEF TakeFront
<1> HIDE DEF n
<1>4. \A k \in Lanes : Parked(k)' = IF k = l THEN Parked(k) \ {b} ELSE Parked(k)
  BY <1>1, <1>2 DEF Parked, Content
<1>5. t \in Tasks /\ IsParked(t)
  BY <1>1 DEF IsParked, Tasks
<1>6. ASSUME NEW x \in Tasks, Due(x), x # t PROVE Due(x)'
  <2>1. x.lane \in Lanes /\ x.ord \in Nat /\ x = [lane |-> x.lane, ord |-> x.ord]
    BY DEF Tasks
  <2>2. CASE x.lane = l
    <3>1. x.ord # b /\ b <= x.ord
      BY <1>0, <1>6, <2>1, <2>2 DEF Due
    <3> QED
      BY <3>1, <1>1, <1>2, <1>3, <1>6, <2>1, <2>2 DEF Due
  <2>3. CASE x.lane # l
    BY <1>2, <1>3, <1>6, <2>1, <2>3 DEF Due
  <2> QED
    BY <2>2, <2>3
<1>7. ASSUME NEW x \in Tasks PROVE IsParked(x)' => IsParked(x)
  BY <1>4 DEF IsParked, Tasks
<1>8. /\ \A w \in Writers : (Holds(w)' <=> Holds(w)) /\ TaskOf(w)' = TaskOf(w)
      /\ \A m \in Mappers : Parking(m)' <=> Parking(m)
  BY <1>3 DEF Holds, TaskOf, Parking
<1>9. /\ \A w \in Writers : Holds(w) => TaskOf(w) \in Tasks /\ TaskOf(w) # t
      /\ \A i \in DOMAIN queue : queue[i] # Sentinel => queue[i] \in Tasks /\ queue[i] # t
      /\ \A m \in Mappers : Parking(m) => mapper[m].task \in Tasks /\ mapper[m].task # t
  <2> HIDE DEF t
  <2> QED
    BY <1>5 DEF Places, AllDue, Due, Distinct
<1>10. AllDue'
  <2>1. ASSUME NEW k \in Lanes, NEW o \in Parked(k)' PROVE Due([lane |-> k, ord |-> o])'
    <3>1. PICK x : x = [lane |-> k, ord |-> o]
      OBVIOUS
    <3>2. o \in Parked(k) /\ x # t
      BY <3>1, <1>4
    <3>3. Due(x)
      BY <3>1, <3>2 DEF Places, AllDue
    <3>4. x \in Tasks
      BY <3>3 DEF Due
    <3> QED
      BY <3>1, <3>2, <3>3, <3>4, <1>6
  <2> HIDE DEF t
  <2> QED
    BY <2>1, <1>3, <1>6, <1>8, <1>9 DEF Places, AllDue
<1>11. Distinct'
  BY <1>3, <1>7, <1>8, <1>9 DEF Places, Distinct
<1>12. Window'
  <2>1. ASSUME NEW k \in Lanes, k # l, NEW s \in DOMAIN lane[k].ring, lane[k].ring[s] # None
        PROVE  /\ s = Slot(lane[k].ring, lane[k].ring[s])
               /\ lane[k].ring[s] < lane[k].base + Size(lane[k].ring)
    BY <2>1 DEF Places, Window
  <2> QED
    BY <2>1, <1>1, <1>2 DEF Window, Holding, Slot, Size
<1> QED
  BY <1>10, <1>11, <1>12 DEF Places

LEMMA PlacesInit == Init => Places
<1> SUFFICES ASSUME Init PROVE Places
  OBVIOUS
<1>1. /\ \A w \in Writers : ~Holds(w)
      /\ \A m \in Mappers : ~Parking(m)
      /\ queue = <<>> /\ \A l \in Lanes : lane[l].ring = [s \in {} |-> None]
  BY DEF Init, Holds, Parking, Idle, NewLane
<1>2. \A l \in Lanes : DOMAIN lane[l].ring = {} /\ Parked(l) = {}
  BY <1>1 DEF Parked, Range
<1> QED
  BY <1>1, <1>2 DEF Places, AllDue, Distinct, Window

-----------------------------------------------------------------------------
(* Most steps leave every task where it is.                                *)

Counted(w)  == writer[w].pc \in {"push", "dead"}
InHands     == reducer.pc \in {"apply", "dec"}

Still ==
    /\ \A l \in Lanes : /\ lane'[l].ring = lane[l].ring /\ lane'[l].base = lane[l].base
                        /\ lane'[l].next = lane[l].next /\ lane'[l].count = lane[l].count
                        /\ lane'[l].applied = lane[l].applied
                        /\ closer'[l] = "new" <=> closer[l] = "new"
    /\ hist' = hist /\ queue' = queue
    /\ \A w \in Writers : /\ Holds(w)' => Holds(w)
                          /\ Counted(w)' <=> Counted(w)
                          /\ Holds(w)' => writer'[w].ord = writer[w].ord
    /\ \A m \in Mappers : /\ Parking(m)' <=> Parking(m)
                          /\ Parking(m) => mapper'[m].task = mapper[m].task
    /\ reducer'.pc = "apply" <=> reducer.pc = "apply"
    /\ reducer'.pc = "dec" <=> reducer.pc = "dec"
    /\ InHands => reducer'.task = reducer.task

LEMMA WakingMoves ==
    ASSUME Types
    PROVE  /\ WakeFlushers => \A l \in Lanes : closer'[l] = "new" <=> closer[l] = "new"
           /\ WakeMappers \/ WakeOneMapper =>
                 \A m \in Mappers : /\ Parking(m)' <=> Parking(m)
                                    /\ Parking(m) => mapper'[m].task = mapper[m].task
           /\ WakeReducer => /\ reducer'.pc = "apply" <=> reducer.pc = "apply"
                             /\ reducer'.pc = "dec" <=> reducer.pc = "dec"
                             /\ reducer'.task = reducer.task
<1>1. ASSUME WakeFlushers, NEW l \in Lanes PROVE closer'[l] = "new" <=> closer[l] = "new"
  BY <1>1 DEF WakeFlushers
<1>2. ASSUME WakeMappers, NEW m \in Mappers
      PROVE  (Parking(m)' <=> Parking(m)) /\ (Parking(m) => mapper'[m].task = mapper[m].task)
  BY <1>2 DEF WakeMappers, SleepingMappers, Parking, Types, MapperRec
<1>3. ASSUME WakeOneMapper, NEW m \in Mappers
      PROVE  (Parking(m)' <=> Parking(m)) /\ (Parking(m) => mapper'[m].task = mapper[m].task)
  <2>1. CASE SleepingMappers = {}
    BY <1>3, <2>1 DEF WakeOneMapper, Parking
  <2>2. CASE SleepingMappers # {}
    <3>1. PICK n \in SleepingMappers : mapper' = [mapper EXCEPT ![n].pc = "gate"]
      BY <1>3, <2>2 DEF WakeOneMapper
    <3>2. mapper[n].pc = "asleep"
      BY DEF SleepingMappers
    <3> QED
      BY <3>1, <3>2 DEF Parking, Types, MapperRec
  <2> QED
    BY <2>1, <2>2
<1>4. ASSUME WakeReducer
      PROVE  /\ reducer'.pc = "apply" <=> reducer.pc = "apply"
             /\ reducer'.pc = "dec" <=> reducer.pc = "dec"
             /\ reducer'.task = reducer.task
  BY <1>4 DEF WakeReducer, Types, ReducerRec
<1> QED
  BY <1>1, <1>2, <1>3, <1>4

LEMMA Stays ==
    ASSUME UNCHANGED vars
    PROVE  Still
  BY DEF vars, Still, Holds, Counted, Parking

LEMMA CloserIsStill ==
    ASSUME Types, NEW l \in Lanes,
           Unregister(l) \/ UnregisterWait(l) \/ UnregisterTimeout(l) \/ Erase(l)
    PROVE  Still
<1>1. UNCHANGED <<lane, queue, writer, reducer, hist>>
  BY DEF Unregister, UnregisterWait, UnregisterTimeout, Erase
<1>2. \A k \in Lanes : closer'[k] = "new" <=> closer[k] = "new"
  BY DEF Unregister, UnregisterWait, UnregisterTimeout, Erase, Types
<1>3. UNCHANGED mapper \/ WakeMappers
  BY DEF Unregister, UnregisterWait, UnregisterTimeout, Erase
<1>4. \A m \in Mappers : /\ Parking(m)' <=> Parking(m)
                         /\ Parking(m) => mapper'[m].task = mapper[m].task
  BY <1>3, WakingMoves DEF Parking
<1> QED
  BY <1>1, <1>2, <1>4 DEF Still, Holds, Counted

LEMMA WriterIsStill ==
    ASSUME Types, NEW w \in Writers, RaiseHwm(w) \/ WriterNotify(w) \/ Die(w)
    PROVE  Still
<1>1. UNCHANGED <<queue, mapper, reducer, hist>>
  BY DEF RaiseHwm, WriterNotify, Die
<1>2. \A l \in Lanes : closer'[l] = "new" <=> closer[l] = "new"
  BY WakingMoves DEF RaiseHwm, WriterNotify, Die
<1>l. \A l \in Lanes : lane[l] \in LaneRec
  BY DEF Types
<1>3. ASSUME NEW l \in Lanes
      PROVE  /\ lane'[l].ring = lane[l].ring /\ lane'[l].base = lane[l].base
             /\ lane'[l].next = lane[l].next /\ lane'[l].count = lane[l].count
             /\ lane'[l].applied = lane[l].applied
  <2>1. CASE RaiseHwm(w) /\ ~Stopped
    <3>1. PICK h : lane' = [lane EXCEPT ![LaneOf[w]].hwm = h]
      BY <2>1 DEF RaiseHwm
    <3>2. lane'[l] = IF l = LaneOf[w] THEN [lane[l] EXCEPT !.hwm = h] ELSE lane[l]
      BY <3>1 DEF Types
    <3> QED
      BY <3>2, <1>l DEF LaneRec
  <2>2. CASE lane' = lane
    BY <2>2
  <2> QED
    BY <2>1, <2>2 DEF RaiseHwm, WriterNotify, Die
<1>w. PICK r \in WriterRec : /\ writer' = [writer EXCEPT ![w] = r]
                             /\ r.pc \in {"push", "dead"} <=> Counted(w)
                             /\ r.pc \in {"raise", "count", "push", "dead"} =>
                                   Holds(w) /\ r.ord = writer[w].ord
  <2>1. writer[w] \in WriterRec
    BY DEF Types
  <2>2. CASE RaiseHwm(w) /\ Stopped
    <3>1. /\ Idle \in WriterRec /\ Idle.pc = "idle" /\ writer[w].pc = "raise"
          /\ writer' = [writer EXCEPT ![w] = Idle]
      BY <2>2 DEF RaiseHwm, Idle, WriterRec
    <3> QED
      BY <3>1 DEF Counted
  <2>3. CASE RaiseHwm(w) /\ ~Stopped
    <3> DEFINE r == [writer[w] EXCEPT !.pc = "count"]
    <3>1. r \in WriterRec /\ writer' = [writer EXCEPT ![w] = r] /\ writer[w].pc = "raise"
      BY <2>1, <2>3 DEF RaiseHwm, WriterRec
    <3>2. r.pc = "count" /\ r.ord = writer[w].ord
      BY <2>1 DEF WriterRec
    <3> HIDE DEF r
    <3> QED
      BY <3>1, <3>2 DEF Holds, Counted
  <2>4. CASE WriterNotify(w)
    <3> DEFINE r == [writer[w] EXCEPT !.pc = "idle"]
    <3>1. r \in WriterRec /\ writer' = [writer EXCEPT ![w] = r] /\ writer[w].pc = "notify"
          /\ r.pc = "idle"
      BY <2>1, <2>4 DEF WriterNotify, WriterRec
    <3> HIDE DEF r
    <3> QED
      BY <3>1 DEF Holds, Counted
  <2>5. CASE Die(w)
    <3> DEFINE r == [writer[w] EXCEPT !.pc = "dead"]
    <3>1. r \in WriterRec /\ writer' = [writer EXCEPT ![w] = r] /\ writer[w].pc = "push"
          /\ r.pc = "dead" /\ r.ord = writer[w].ord
      BY <2>1, <2>5 DEF Die, WriterRec
    <3> HIDE DEF r
    <3> QED
      BY <3>1 DEF Holds, Counted
  <2> QED
    BY <2>2, <2>3, <2>4, <2>5
<1>4. \A v \in Writers : /\ Holds(v)' => Holds(v)
                         /\ Counted(v)' <=> Counted(v)
                         /\ Holds(v)' => writer'[v].ord = writer[v].ord
  BY <1>w DEF Types, Holds, Counted
<1> QED
  BY <1>1, <1>2, <1>3, <1>4 DEF Still, Parking, InHands

LEMMA MapperIsStill ==
    ASSUME Types, NEW m \in Mappers, MapGate(m) \/ MapNotify(m)
    PROVE  Still
<1>1. UNCHANGED <<lane, queue, writer, hist, closer>>
  BY DEF MapGate, MapNotify
<1>2. \A k \in Mappers : /\ Parking(k)' <=> Parking(k)
                         /\ Parking(k) => mapper'[k].task = mapper[k].task
  BY SMTT(20) DEF MapGate, MapNotify, Parking, Types, MapperRec
<1>3. /\ reducer'.pc = "apply" <=> reducer.pc = "apply"
      /\ reducer'.pc = "dec" <=> reducer.pc = "dec"
      /\ reducer'.task = reducer.task
  BY WakingMoves DEF MapGate, MapNotify
<1> QED
  BY <1>1, <1>2, <1>3 DEF Still, Holds, Counted

LEMMA ReducerIsStill ==
    ASSUME Types, ReducerExit \/ ReducerSleep \/ ReducerNotify \/ ReducerRelease
    PROVE  Still
<1>1. UNCHANGED <<lane, queue, writer, hist>>
  BY DEF ReducerExit, ReducerSleep, ReducerNotify, ReducerRelease
<1>2. ~InHands /\ ~InHands'
  BY DEF ReducerExit, ReducerSleep, ReducerNotify, ReducerRelease, InHands, Types, ReducerRec
<1>3. \A l \in Lanes : closer'[l] = "new" <=> closer[l] = "new"
  BY WakingMoves DEF ReducerExit, ReducerSleep, ReducerNotify, ReducerRelease
<1>4. \A k \in Mappers : /\ Parking(k)' <=> Parking(k)
                         /\ Parking(k) => mapper'[k].task = mapper[k].task
  BY WakingMoves DEF ReducerExit, ReducerSleep, ReducerNotify, ReducerRelease, Parking
<1> QED
  BY <1>1, <1>2, <1>3, <1>4 DEF Still, Holds, Counted, InHands

LEMMA OthersAreStill ==
    ASSUME Types
    PROVE  /\ \A f \in Flushers : Flush(f) \/ FlushWait(f) => Still
           /\ Stop \/ StopWake \/ StopReducer \/ StopJoined => Still
<1>1. ASSUME NEW f \in Flushers, Flush(f) \/ FlushWait(f) PROVE Still
  BY <1>1 DEF Flush, FlushWait, Still, Holds, Counted, Parking
<1>2. ASSUME Stop \/ StopJoined PROVE Still
  BY <1>2 DEF Stop, StopJoined, Still, Holds, Counted, Parking
<1>3. ASSUME StopWake PROVE Still
  BY <1>3, WakingMoves DEF StopWake, Still, Holds, Counted
<1>4. ASSUME StopReducer PROVE Still
  BY <1>4, WakingMoves DEF StopReducer, Still, Holds, Counted, Parking
<1> QED
  BY <1>1, <1>2, <1>3, <1>4

\* A step moves a task, or it is still.
Moves ==
    \/ \E l \in Lanes : RegisterLib(l) \/ TakeFront(l)
    \/ \E w \in Writers : AllocOrd(w) \/ CountIn(w) \/ Push(w) \/ PushThrows(w)
    \/ \E m \in Mappers : Pop(m) \/ Park(m)
    \/ Apply \/ ReducerCount \/ StopPush

LEMMA StillOrMoves ==
    ASSUME Types, [Next]_vars
    PROVE  Still \/ Moves
<1>1. ASSUME NEW l \in Lanes, RegisterLib(l) \/ Unregister(l) \/ CloserStep(l)
      PROVE  Still \/ Moves
  BY <1>1, CloserIsStill DEF Moves, CloserStep
<1>2. ASSUME NEW w \in Writers, AllocOrd(w) \/ WriterStep(w) \/ Die(w)
      PROVE  Still \/ Moves
  BY <1>2, WriterIsStill DEF Moves, WriterStep
<1>3. ASSUME NEW m \in Mappers, MapperStep(m)
      PROVE  Still \/ Moves
  BY <1>3, MapperIsStill DEF Moves, MapperStep
<1>4. CASE ReducerStep
  BY <1>4, ReducerIsStill DEF Moves, ReducerStep
<1>5. CASE Stop \/ StopperStep
  BY <1>5, OthersAreStill DEF Moves, StopperStep
<1> QED
  BY <1>1, <1>2, <1>3, <1>4, <1>5, OthersAreStill, Stays DEF Next

LEMMA PlacesStill ==
    ASSUME Types, Types', Places, Still
    PROVE  Places'
<1>1. \A l \in Lanes : hist[l].ord <= hist'[l].ord
  BY DEF Still, Types, HistRec
<1>2. \A t \in Tasks : lane'[t.lane].base = lane[t.lane].base
  BY DEF Still, Tasks
<1>3. \A l \in Lanes : lane'[l].ring = lane[l].ring
  BY DEF Still
<1>4. /\ queue' = queue
      /\ \A w \in Writers : Holds(w)' => Holds(w) /\ writer'[w].ord = writer[w].ord
      /\ \A m \in Mappers : Parking(m)' => Parking(m) /\ mapper'[m].task = mapper[m].task
  BY DEF Still
<1> QED
  BY <1>1, <1>2, <1>3, <1>4, PlacesKept

\* The steps that count a task in or out, and the one that applies it.
LEMMA CountChanges ==
    ASSUME Types, NEW l \in Lanes, NEW c, lane' = [lane EXCEPT ![l].count = c]
    PROVE  \A k \in Lanes :
              /\ lane'[k].ring = lane[k].ring /\ lane'[k].base = lane[k].base
              /\ lane'[k].next = lane[k].next /\ lane'[k].applied = lane[k].applied
              /\ lane'[k].count = IF k = l THEN c ELSE lane[k].count
<1> SUFFICES ASSUME NEW k \in Lanes
             PROVE  /\ lane'[k].ring = lane[k].ring /\ lane'[k].base = lane[k].base
                    /\ lane'[k].next = lane[k].next /\ lane'[k].applied = lane[k].applied
                    /\ lane'[k].count = IF k = l THEN c ELSE lane[k].count
  OBVIOUS
<1>1. lane[k] \in LaneRec
  BY DEF Types
<1>2. lane'[k] = IF k = l THEN [lane[k] EXCEPT !.count = c] ELSE lane[k]
  BY DEF Types
<1> QED
  BY <1>1, <1>2 DEF LaneRec

LEMMA ApplyChanges ==
    ASSUME Types, InHand, Apply
    PROVE  LET l == reducer.task.lane IN
           /\ reducer.task \in Tasks /\ l \in Lanes
           /\ \A k \in Lanes :
                 /\ lane'[k].ring = lane[k].ring /\ lane'[k].base = lane[k].base
                 /\ lane'[k].count = lane[k].count
                 /\ lane'[k].next = IF k = l THEN lane[k].next + 1 ELSE lane[k].next
                 /\ lane'[k].applied = IF k = l THEN lane[k].next ELSE lane[k].applied
                 /\ hist'[k].ord = hist[k].ord /\ hist'[k].returned = hist[k].returned
                 /\ hist'[k].log = IF k = l THEN Append(hist[k].log, reducer.task.ord)
                                   ELSE hist[k].log
           /\ reducer'.pc = "dec" /\ reducer'.task = reducer.task
           /\ UNCHANGED <<queue, writer, mapper, closer, flusher>>
<1>0. PICK l : l = reducer.task.lane
  OBVIOUS
<1>1. reducer.task \in Tasks /\ l \in Lanes
  BY <1>0 DEF Apply, InHand, Tasks
<1>2. ASSUME NEW k \in Lanes
      PROVE  /\ lane'[k].ring = lane[k].ring /\ lane'[k].base = lane[k].base
             /\ lane'[k].count = lane[k].count
             /\ lane'[k].next = IF k = l THEN lane[k].next + 1 ELSE lane[k].next
             /\ lane'[k].applied = IF k = l THEN lane[k].next ELSE lane[k].applied
  <2>1. lane[k] \in LaneRec
    BY DEF Types
  <2>2. lane'[k] = IF k = l THEN [lane[k] EXCEPT !.applied = lane[k].next, !.next = @ + 1]
                   ELSE lane[k]
    BY <1>0, <1>1 DEF Apply, Types
  <2> QED
    BY <2>1, <2>2 DEF LaneRec
<1>3. ASSUME NEW k \in Lanes
      PROVE  /\ hist'[k].ord = hist[k].ord /\ hist'[k].returned = hist[k].returned
             /\ hist'[k].log = IF k = l THEN Append(hist[k].log, reducer.task.ord)
                               ELSE hist[k].log
  <2>1. hist[k] \in HistRec
    BY DEF Types
  <2>2. hist'[k] = IF k = l THEN [hist[k] EXCEPT !.log = Append(@, reducer.task.ord)]
                   ELSE hist[k]
    BY <1>0, <1>1 DEF Apply, Types
  <2> QED
    BY <2>1, <2>2 DEF HistRec
<1>4. reducer'.pc = "dec" /\ reducer'.task = reducer.task
  BY DEF Apply, Types, ReducerRec
<1>5. UNCHANGED <<queue, writer, mapper, closer, flusher>>
  BY DEF Apply
<1> QED
  BY <1>0, <1>1, <1>2, <1>3, <1>4, <1>5

LEMMA PlacesNext ==
    ASSUME Types, Types', Places, Lined, InHand, [Next]_vars
    PROVE  Places'
<1>t. \A t \in Tasks : t.lane \in Lanes
  BY DEF Tasks
<1>h. \A l \in Lanes : hist[l].ord \in Nat
  BY DEF Types, HistRec
<1>1. ASSUME NEW l \in Lanes, RegisterLib(l) PROVE Places'
  <2>1. \A k \in Lanes : /\ lane'[k].ring = lane[k].ring
                         /\ closer[k] # "new" => lane'[k].base = lane[k].base
    BY <1>1 DEF RegisterLib, Types, LaneRec
  <2>2. \A t \in Tasks : Due(t) => lane'[t.lane].base = lane[t.lane].base
    BY <2>1, <1>t, Roomy
  <2>3. UNCHANGED <<queue, writer, mapper, hist>>
    BY <1>1 DEF RegisterLib
  <2> QED
    BY <2>1, <2>2, <2>3, <1>h, PlacesKept DEF Holds, Parking
<1>2. ASSUME NEW w \in Writers, CountIn(w) \/ PushThrows(w) PROVE Places'
  <2>0. LaneOf[w] \in Lanes
    BY PoolAssumption
  <2>1. \A k \in Lanes : lane'[k].ring = lane[k].ring /\ lane'[k].base = lane[k].base
    BY <1>2, <2>0, CountChanges DEF CountIn, PushThrows
  <2>2. \A v \in Writers : Holds(v)' => Holds(v) /\ writer'[v].ord = writer[v].ord
    <3>1. \A v \in Writers : v # w => writer'[v] = writer[v]
      BY <1>2 DEF CountIn, PushThrows, Types
    <3>2. CASE CountIn(w)
      BY <3>1, <3>2 DEF CountIn, Holds, Types, WriterRec
    <3>3. CASE PushThrows(w)
      <4>1. writer'[w].pc \in {"notify", "idle"}
        BY <3>3 DEF PushThrows, Types, Idle, AfterCountOut
      <4> QED
        BY <3>1, <4>1 DEF Holds
    <3> QED
      BY <1>2, <3>2, <3>3
  <2>3. UNCHANGED <<queue, mapper, hist>>
    BY <1>2 DEF CountIn, PushThrows
  <2> QED
    BY <2>1, <2>2, <2>3, <1>t, <1>h, PlacesKept DEF Parking
<1>3. CASE Apply \/ ReducerCount
  <2>1. CASE Apply
    <3>1. \A k \in Lanes : /\ lane'[k].ring = lane[k].ring /\ lane'[k].base = lane[k].base
                           /\ hist'[k].ord = hist[k].ord
      BY <2>1, ApplyChanges
    <3>2. UNCHANGED <<queue, writer, mapper>>
      BY <2>1 DEF Apply
    <3> QED
      BY <3>1, <3>2, <1>t, <1>h, PlacesKept DEF Holds, Parking
  <2>2. CASE ReducerCount
    <3>1. reducer.task.lane \in Lanes
      BY <2>2, <1>t DEF ReducerCount, InHand
    <3>2. \A k \in Lanes : lane'[k].ring = lane[k].ring /\ lane'[k].base = lane[k].base
      BY <2>2, <3>1, CountChanges DEF ReducerCount
    <3>3. UNCHANGED <<queue, writer, mapper, hist>>
      BY <2>2 DEF ReducerCount
    <3> QED
      BY <3>2, <3>3, <1>t, <1>h, PlacesKept DEF Holds, Parking
  <2> QED
    BY <1>3, <2>1, <2>2
<1>4. CASE Still
  BY <1>4, PlacesStill
<1> QED
  BY <1>1, <1>2, <1>3, <1>4, StillOrMoves, PlacesAlloc, PlacesPush, PlacesStopPush,
     PlacesPop, PlacesPark, PlacesTake DEF Moves

-----------------------------------------------------------------------------
(* Counters, log and the reducer's hands.                                  *)

LEMMA LinedInit == Init => Lined /\ InHand
<1> SUFFICES ASSUME Init PROVE Lined /\ InHand
  OBVIOUS
<1>1. InHand
  BY DEF Init, InHand
<1>2. \A l \in Lanes : /\ hist[l].ord = FirstOrd[l] /\ hist[l].log = <<>>
                       /\ lane[l].base = 0 /\ lane[l].next = 0 /\ closer[l] = "new"
                       /\ FirstOrd[l] \in Nat /\ ~Applying(l)
  BY PoolAssumption DEF Init, NewLane, Applying
<1>3. Lined
  BY <1>2 DEF Lined, LaneInLine
<1> QED
  BY <1>1, <1>3

LEMMA LinedKept ==
    ASSUME Types, Types', Lined, InHand,
           \A l \in Lanes : /\ lane'[l].base = lane[l].base /\ lane'[l].next = lane[l].next
                            /\ lane'[l].applied = lane[l].applied
                            /\ hist'[l].ord = hist[l].ord /\ hist'[l].log = hist[l].log
                            /\ closer'[l] = "new" <=> closer[l] = "new",
           reducer'.pc = "apply" <=> reducer.pc = "apply",
           InHands' => InHands /\ reducer'.task = reducer.task
    PROVE  Lined' /\ InHand'
<1>1. \A l \in Lanes : Applying(l)' <=> Applying(l)
  BY DEF Applying, InHands
<1>2. Lined'
  BY <1>1 DEF Lined, LaneInLine
<1>3. InHand'
  <2> SUFFICES ASSUME InHands'
               PROVE  /\ reducer'.task \in Tasks
                      /\ reducer'.task.ord + 1 = lane'[reducer'.task.lane].base
                      /\ FirstOrd[reducer'.task.lane] <= reducer'.task.ord
                      /\ reducer'.task.ord < hist'[reducer'.task.lane].ord
    BY DEF InHand, InHands
  <2> QED
    BY DEF InHand, InHands, Tasks
<1> QED
  BY <1>2, <1>3

LEMMA LinedNext ==
    ASSUME Types, Types', Places, Lined, InHand, [Next]_vars
    PROVE  Lined' /\ InHand'
<1>l. \A l \in Lanes : /\ lane[l].base \in Nat /\ lane[l].next \in Nat /\ hist[l].ord \in Nat
                       /\ hist[l].log \in Seq(Nat) /\ FirstOrd[l] \in Nat /\ LastOrd[l] \in Nat
  BY PoolAssumption DEF Types, LaneRec, HistRec
<1>w. \A w \in Writers : LaneOf[w] \in Lanes
  BY PoolAssumption
<1>1. CASE Still
  <2>1. InHands' => InHands /\ reducer'.task = reducer.task
    BY <1>1 DEF Still, InHands
  <2> QED
    BY <1>1, <2>1, LinedKept DEF Still
<1>2. ASSUME NEW l \in Lanes, RegisterLib(l) PROVE Lined' /\ InHand'
  <2>1. /\ closer[l] = "new" /\ hist' = hist /\ reducer' = reducer
        /\ \A k \in Lanes : k # l => lane'[k] = lane[k] /\ closer'[k] = closer[k]
        /\ closer'[l] = "open"
    BY <1>2 DEF RegisterLib, Types
  <2>2. lane'[l].base = hist[l].ord /\ lane'[l].next = hist[l].ord
    <3>1. lane[l] \in LaneRec
      BY DEF Types
    <3>2. lane'[l] = [lane[l] EXCEPT !.base = hist[l].ord, !.next = hist[l].ord]
      BY <1>2 DEF RegisterLib, Types
    <3> QED
      BY <3>1, <3>2 DEF LaneRec
  <2>3. hist[l].ord = FirstOrd[l] /\ hist[l].log = <<>>
    BY <2>1 DEF Lined, LaneInLine
  <2>4. InHands => reducer.task.lane # l
    <3> SUFFICES ASSUME InHands, reducer.task.lane = l PROVE FALSE
      OBVIOUS
    <3>1. FirstOrd[l] <= reducer.task.ord /\ reducer.task.ord < hist[l].ord
          /\ reducer.task.ord \in Nat
      BY DEF InHand, InHands, Tasks
    <3> QED
      BY <3>1, <2>3, <1>l
  <2>5. ~Applying(l) /\ ~Applying(l)' /\ \A k \in Lanes : Applying(k)' <=> Applying(k)
    BY <2>1, <2>4 DEF Applying, InHands
  <2>a. LaneInLine(l)'
    BY <2>1, <2>2, <2>3, <2>5, <1>l DEF Lined, LaneInLine
  <2>b. \A k \in Lanes : k # l => LaneInLine(k)'
    BY <2>1, <2>5 DEF Lined, LaneInLine
  <2>6. Lined'
    BY <2>a, <2>b DEF Lined
  <2>7. InHand'
    <3>1. reducer.task \in Tasks => reducer.task.lane \in Lanes
      BY DEF Tasks
    <3> QED
      BY <3>1, <2>1, <2>4 DEF InHand, InHands
  <2> QED
    BY <2>6, <2>7
<1>3. ASSUME NEW w \in Writers, AllocOrd(w) PROVE Lined' /\ InHand'
  <2>0. PICK l : l = LaneOf[w]
    OBVIOUS
  <2>1. \A k \in Lanes : /\ hist'[k].ord = IF k = l THEN hist[k].ord + 1 ELSE hist[k].ord
                         /\ hist'[k].log = hist[k].log
    <3> SUFFICES ASSUME NEW k \in Lanes
                 PROVE  /\ hist'[k].ord = IF k = l THEN hist[k].ord + 1 ELSE hist[k].ord
                        /\ hist'[k].log = hist[k].log
      OBVIOUS
    <3>1. hist[k] \in HistRec /\ hist[l] \in HistRec
      BY <2>0, <1>w DEF Types
    <3>2. hist' = [hist EXCEPT ![l].ord = @ + 1]
      BY <1>3, <2>0 DEF AllocOrd
    <3>3. hist'[k] = IF k = l THEN [hist[k] EXCEPT !.ord = @ + 1] ELSE hist[k]
      BY <3>2 DEF Types
    <3> QED
      BY <3>1, <3>3 DEF HistRec
  <2>2. /\ lane' = lane /\ closer' = closer /\ reducer' = reducer /\ l \in Lanes
        /\ closer[l] # "new" /\ hist[l].ord <= LastOrd[l]
    <3>1. closer[l] = "open" /\ hist[l].ord <= LastOrd[l] /\ UNCHANGED <<lane, closer, reducer>>
      BY <1>3, <2>0 DEF AllocOrd
    <3> QED
      BY <3>1, <2>0, <1>w
  <2>3. Lined'
    <3>0. \A k \in Lanes : Applying(k)' <=> Applying(k)
      BY <2>2 DEF Applying
    <3>a. /\ hist'[l].ord = hist[l].ord + 1 /\ hist'[l].log = hist[l].log
          /\ LaneInLine(l) /\ hist[l].ord \in Nat /\ LastOrd[l] \in Nat /\ FirstOrd[l] \in Nat
          /\ lane[l].base \in Nat
      BY <2>1, <2>2, <1>l DEF Lined
    <3>1. LaneInLine(l)'
      BY <2>2, <3>0, <3>a, SMTT(20) DEF LaneInLine
    <3>2. \A k \in Lanes : k # l => LaneInLine(k)'
      BY <2>1, <2>2, <3>0 DEF Lined, LaneInLine
    <3> QED
      BY <3>1, <3>2 DEF Lined
  <2>4. InHand'
    BY <2>1, <2>2, <1>l DEF InHand, Tasks
  <2> QED
    BY <2>3, <2>4
<1>4. ASSUME NEW w \in Writers, CountIn(w) \/ PushThrows(w) PROVE Lined' /\ InHand'
  <2>1. UNCHANGED <<hist, closer, reducer>>
    BY <1>4 DEF CountIn, PushThrows
  <2>2. \A k \in Lanes : /\ lane'[k].base = lane[k].base /\ lane'[k].next = lane[k].next
                         /\ lane'[k].applied = lane[k].applied
    BY <1>4, <1>w, CountChanges DEF CountIn, PushThrows
  <2> QED
    BY <2>1, <2>2, LinedKept DEF InHands
<1>5. ASSUME NEW w \in Writers, Push(w) PROVE Lined' /\ InHand'
  <2>1. UNCHANGED <<lane, closer, reducer>>
    BY <1>5 DEF Push
  <2>2. \A k \in Lanes : hist'[k].ord = hist[k].ord /\ hist'[k].log = hist[k].log
    BY <1>5, <1>w DEF Push, Types, HistRec
  <2> QED
    BY <2>1, <2>2, LinedKept DEF InHands
<1>6. ASSUME StopPush \/ \E m \in Mappers : Pop(m) PROVE Lined' /\ InHand'
  <2>1. UNCHANGED <<lane, hist, closer, reducer>>
    BY <1>6 DEF StopPush, Pop
  <2> QED
    BY <2>1, LinedKept DEF InHands
<1>7. ASSUME NEW m \in Mappers, Park(m) PROVE Lined' /\ InHand'
  <2>1. UNCHANGED <<hist, closer, reducer>>
    BY <1>7 DEF Park
  <2>2. ASSUME NEW k \in Lanes
        PROVE  /\ lane'[k].base = lane[k].base /\ lane'[k].next = lane[k].next
               /\ lane'[k].applied = lane[k].applied
    <3>1. PICK p : lane' = [lane EXCEPT ![mapper[m].task.lane].ring = p]
      BY <1>7 DEF Park
    <3>2. lane[k] \in LaneRec
      BY DEF Types
    <3>3. lane'[k] = lane[k] \/ lane'[k] = [lane[k] EXCEPT !.ring = p]
      BY <3>1 DEF Types
    <3> QED
      BY <3>2, <3>3 DEF LaneRec
  <2> QED
    BY <2>1, <2>2, LinedKept DEF InHands
<1>8. ASSUME NEW l \in Lanes, TakeFront(l) PROVE Lined' /\ InHand'
  <2>0. PICK b : b = lane[l].base
    OBVIOUS
  <2>1. b \in Nat /\ FirstOrd[l] <= b /\ b < hist[l].ord
    <3>1. lane[l].base \in Parked(l)
      BY <1>8, RingAfterTake DEF TakeFront, Places
    <3> QED
      BY <3>1, <2>0, <1>l DEF Places, AllDue, Due
  <2>2. \A k \in Lanes : /\ lane'[k].base = IF k = l THEN b + 1 ELSE lane[k].base
                         /\ lane'[k].next = lane[k].next
                         /\ lane'[k].applied = lane[k].applied
    <3> SUFFICES ASSUME NEW k \in Lanes
                 PROVE  /\ lane'[k].base = IF k = l THEN b + 1 ELSE lane[k].base
                        /\ lane'[k].next = lane[k].next
                        /\ lane'[k].applied = lane[k].applied
      OBVIOUS
    <3>1. lane[k] \in LaneRec
      BY DEF Types
    <3>2. PICK n : lane'[k] = IF k = l THEN [lane[k] EXCEPT !.ring = n, !.base = @ + 1]
                              ELSE lane[k]
      BY <1>8 DEF TakeFront, Types, LaneRec
    <3> QED
      BY <3>1, <3>2, <2>0 DEF LaneRec
  <2>3. /\ reducer.pc = "scan" /\ reducer'.pc = "apply"
        /\ reducer'.task = [lane |-> l, ord |-> b] /\ UNCHANGED <<closer, hist>>
    BY <1>8, <2>0, RingAfterTake DEF TakeFront, Places
  <2>4. \A k \in Lanes : ~Applying(k) /\ (Applying(k)' <=> k = l)
    BY <2>3 DEF Applying
  <2>5. \A k \in Lanes : lane[k].base = lane[k].next
    BY <2>4 DEF Lined, LaneInLine
  <2>6. Lined'
    BY <2>0, <2>1, <2>2, <2>3, <2>4, <2>5, <1>l DEF Lined, LaneInLine
  <2>7. InHand'
    BY <2>1, <2>2, <2>3 DEF InHand, Tasks
  <2> QED
    BY <2>6, <2>7
<1>9. ASSUME Apply PROVE Lined' /\ InHand'
  <2>0. PICK l : l = reducer.task.lane
    OBVIOUS
  <2>1. PICK o : o = reducer.task.ord
    OBVIOUS
  <2>2. /\ l \in Lanes /\ o \in Nat /\ o + 1 = lane[l].base
        /\ FirstOrd[l] <= o /\ o < hist[l].ord
    BY <1>9, <2>0, <2>1 DEF Apply, InHand, Tasks
  <2>3. \A k \in Lanes : Applying(k) <=> k = l
    BY <1>9, <2>0 DEF Apply, Applying
  <2>4. closer[l] # "new" /\ o = lane[l].next /\ o = FirstOrd[l] + Len(hist[l].log)
    BY <2>2, <2>3, <1>l DEF Lined, LaneInLine
  <2>5. \A k \in Lanes : ~Applying(k)'
    BY <1>9, ApplyChanges DEF Applying
  <2>6. \A k \in Lanes : k # l => LaneInLine(k)'
    BY <1>9, <2>0, <2>3, <2>5, ApplyChanges DEF Lined, LaneInLine
  <2>7. PICK g : g = Append(hist[l].log, o)
    OBVIOUS
  <2>8. /\ hist'[l].log = g /\ hist'[l].ord = hist[l].ord /\ closer' = closer
        /\ lane'[l].base = lane[l].base /\ lane'[l].next = lane[l].next + 1
        /\ lane'[l].applied = lane[l].next
    BY <1>9, <2>0, <2>1, <2>2, <2>7, ApplyChanges
  <2>9. /\ Len(g) = Len(hist[l].log) + 1 /\ g # <<>> /\ Len(hist[l].log) \in Nat
        /\ \A i \in DOMAIN g : \/ i \in DOMAIN hist[l].log /\ g[i] = hist[l].log[i]
                               \/ i = Len(hist[l].log) + 1 /\ g[i] = o
    <3>1. PICK q \in Seq(Nat) : q = hist[l].log
      BY <1>l, <2>2
    <3>2. g = Append(q, o) /\ g \in Seq(Nat)
      BY <3>1, <2>2, <2>7
    <3>3. Len(g) = Len(q) + 1 /\ Len(q) \in Nat /\ DOMAIN g = 1 .. Len(q) + 1
          /\ DOMAIN q = 1 .. Len(q)
      BY <3>2, <2>2
    <3>4. \A i \in 1 .. Len(q) + 1 : g[i] = IF i = Len(q) + 1 THEN o ELSE q[i]
      BY <3>2, <2>2
    <3>5. g # <<>>
      BY <3>3
    <3>6. ASSUME NEW i \in DOMAIN g
          PROVE  (i \in DOMAIN q /\ g[i] = q[i]) \/ (i = Len(q) + 1 /\ g[i] = o)
      <4>1. i \in 1 .. Len(q) + 1
        BY <3>3
      <4>2. CASE i = Len(q) + 1
        BY <4>1, <4>2, <3>4
      <4>3. CASE i # Len(q) + 1
        <5>1. i \in 1 .. Len(q)
          BY <4>1, <4>3, <3>3
        <5> QED
          BY <4>1, <4>3, <5>1, <3>3, <3>4
      <4> QED
        BY <4>2, <4>3
    <3> QED
      BY <3>1, <3>3, <3>5, <3>6
  <2>10. ASSUME NEW i \in DOMAIN g PROVE g[i] = FirstOrd[l] + i - 1
    <3>1. \A j \in DOMAIN hist[l].log : hist[l].log[j] = FirstOrd[l] + j - 1
      BY <2>2 DEF Lined, LaneInLine
    <3>2. FirstOrd[l] \in Nat /\ Len(hist[l].log) \in Nat
      BY <1>l, <2>2, <2>9
    <3> QED
      BY <2>4, <2>9, <3>1, <3>2
  <2>11. /\ hist[l].ord = FirstOrd[l] \/ hist[l].ord <= LastOrd[l] + 1
         /\ FirstOrd[l] <= hist[l].ord /\ lane[l].base <= hist[l].ord
         /\ lane[l].base = lane[l].next + 1
    BY <2>2, <2>3 DEF Lined, LaneInLine
  <2>a. /\ FirstOrd[l] \in Nat /\ lane[l].next \in Nat /\ lane[l].base \in Nat
        /\ ~Applying(l)'
    BY <1>l, <2>2, <2>5
  <2>b. LaneInLine(l)'
    <3>a. Len(g) = Len(hist[l].log) + 1 /\ Len(hist[l].log) \in Nat
      BY <2>9
    <3>b. PICK n \in Nat : n = lane[l].next
      BY <2>a
    <3>c. PICK q \in Nat : q = Len(hist[l].log)
      BY <3>a
    <3>d. PICK z \in Nat : z = FirstOrd[l]
      BY <2>a
    <3>e. n = z + q /\ Len(g) = q + 1
      BY <2>4, <3>a, <3>b, <3>c, <3>d
    <3>f. lane'[l].next = n + 1 /\ lane'[l].base = n + 1 /\ lane'[l].applied = n
      BY <2>8, <2>11, <3>b
    <3>1. lane'[l].next = FirstOrd[l] + Len(g) /\ lane'[l].base = lane'[l].next
          /\ lane'[l].applied = FirstOrd[l] + Len(g) - 1
      BY <3>d, <3>e, <3>f
    <3> QED
      BY <3>1, <2>a, <2>4, <2>8, <2>9, <2>10, <2>11 DEF LaneInLine
  <2>12. Lined'
    BY <2>6, <2>b DEF Lined
  <2>13. InHand'
    BY <1>9, <2>0, <2>1, <2>2, ApplyChanges DEF InHand, Tasks
  <2> QED
    BY <2>12, <2>13
<1>10. ASSUME ReducerCount PROVE Lined' /\ InHand'
  <2>1. reducer.task.lane \in Lanes
    BY <1>10 DEF ReducerCount, InHand, Tasks
  <2>2. \A k \in Lanes : /\ lane'[k].base = lane[k].base /\ lane'[k].next = lane[k].next
                         /\ lane'[k].applied = lane[k].applied
    BY <1>10, <2>1, CountChanges DEF ReducerCount
  <2>3. UNCHANGED <<hist, closer>> /\ reducer.pc = "dec" /\ ~InHands'
    BY <1>10 DEF ReducerCount, InHands, Types, ReducerRec, AfterCountOut
  <2> QED
    BY <2>2, <2>3, LinedKept DEF InHands
<1> QED
  BY <1>1, <1>2, <1>3, <1>4, <1>5, <1>6, <1>7, <1>8, <1>9, <1>10, StillOrMoves DEF Moves

-----------------------------------------------------------------------------
(* Where a submitted task waits to be applied.                             *)

Queued(t)  == \E i \in DOMAIN queue : queue[i] = t
Mapped(t)  == \E m \in Mappers : Parking(m) /\ mapper[m].task = t
Waiting(t) == \/ Queued(t) \/ Mapped(t) \/ IsParked(t)
              \/ reducer.pc = "apply" /\ reducer.task = t

LEMMA WaitingPush ==
    ASSUME Types, NEW w \in Writers, Push(w), NEW t \in Tasks
    PROVE  Waiting(t)' <=> Waiting(t) \/ t = TaskOf(w)
<1> DEFINE n == Len(queue) + 1
<1>1. /\ n \in Nat \ {0} /\ DOMAIN queue = 1 .. n - 1 /\ DOMAIN queue' = 1 .. n
      /\ queue'[n] = TaskOf(w) /\ \A i \in 1 .. n - 1 : queue'[i] = queue[i]
  BY DEF Push, Types, TaskOf
<1> HIDE DEF n
<1>2. Queued(t)' <=> Queued(t) \/ t = TaskOf(w)
  <2>1. ASSUME NEW i \in 1 .. n PROVE i \in 1 .. n - 1 \/ i = n
    BY <1>1, <2>1
  <2>2. n \in 1 .. n /\ \A i \in 1 .. n - 1 : i \in 1 .. n
    BY <1>1
  <2> QED
    BY <1>1, <2>1, <2>2 DEF Queued
<1>3. UNCHANGED <<lane, mapper, reducer>>
  BY DEF Push
<1>4. Mapped(t)' <=> Mapped(t)
  BY <1>3 DEF Mapped, Parking
<1>5. IsParked(t)' <=> IsParked(t)
  BY <1>3 DEF IsParked, Parked
<1> QED
  BY <1>2, <1>3, <1>4, <1>5 DEF Waiting

LEMMA WaitingPop ==
    ASSUME Types, NEW m \in Mappers, Pop(m), NEW t \in Tasks
    PROVE  Waiting(t)' <=> Waiting(t)
<1> DEFINE n == Len(queue)
<1>1. /\ n \in Nat \ {0} /\ DOMAIN queue = 1 .. n /\ DOMAIN queue' = 1 .. n - 1
      /\ \A i \in 1 .. n - 1 : queue'[i] = queue[i + 1]
  BY DEF Pop, Types
<1> HIDE DEF n
<1>2. UNCHANGED <<lane, reducer>>
  BY DEF Pop
<1>3. t # Sentinel
  BY PoolAssumption DEF Tasks, Sentinel
<1>4. /\ \A k \in Mappers : k # m => mapper'[k] = mapper[k]
      /\ ~Parking(m)
      /\ Parking(m)' <=> queue[1] # Sentinel
      /\ Parking(m)' => mapper'[m].task = queue[1]
  BY DEF Pop, Types, Parking
<1>5. Queued(t) <=> Queued(t)' \/ queue[1] = t
  <2>1. ASSUME NEW i \in 1 .. n PROVE i = 1 \/ (i - 1 \in 1 .. n - 1 /\ (i - 1) + 1 = i)
    BY <1>1, <2>1
  <2>2. 1 \in 1 .. n /\ \A i \in 1 .. n - 1 : i + 1 \in 1 .. n
    BY <1>1
  <2>3. ASSUME Queued(t) PROVE Queued(t)' \/ queue[1] = t
    <3>1. PICK i \in 1 .. n : queue[i] = t
      BY <1>1, <2>3 DEF Queued
    <3>2. CASE i # 1
      <4>1. i - 1 \in 1 .. n - 1 /\ queue'[i - 1] = queue[i]
        BY <1>1, <2>1, <3>2
      <4> QED
        BY <1>1, <3>1, <4>1 DEF Queued
    <3> QED
      BY <3>1, <3>2
  <2>4. Queued(t)' => Queued(t)
    BY <1>1, <2>2 DEF Queued
  <2>5. queue[1] = t => Queued(t)
    BY <1>1, <2>2 DEF Queued
  <2> QED
    BY <2>3, <2>4, <2>5
<1>6. Mapped(t)' <=> Mapped(t) \/ queue[1] = t
  BY <1>3, <1>4 DEF Mapped, Parking
<1>7. IsParked(t)' <=> IsParked(t)
  BY <1>2 DEF IsParked, Parked
<1> QED
  BY <1>2, <1>5, <1>6, <1>7 DEF Waiting

LEMMA WaitingPark ==
    ASSUME Types, Places, Lined, NEW m \in Mappers, Park(m), NEW t \in Tasks
    PROVE  Waiting(t)' <=> Waiting(t)
<1>0. PICK s : s = mapper[m].task
  OBVIOUS
<1>1. /\ Parking(m) /\ ~Parking(m)' /\ s \in Tasks /\ s.lane \in Lanes
      /\ \A k \in Mappers : k # m => (Parking(k)' <=> Parking(k)) /\ mapper'[k] = mapper[k]
  BY <1>0 DEF Park, Parking, Types, Places, AllDue, Due, Tasks
<1>2. UNCHANGED <<queue, reducer>>
  BY DEF Park
<1>3. /\ lane'[s.lane].ring = RingPut(s.lane, s.ord)
      /\ \A l \in Lanes : l # s.lane => lane'[l] = lane[l]
  BY <1>0, <1>1 DEF Park, Types, LaneRec
<1>4. Content(RingPut(s.lane, s.ord)) = Parked(s.lane) \cup {s.ord}
  BY <1>0, <1>1, RingAfterPut DEF Places
<1>5. \A l \in Lanes : Parked(l)' = IF l = s.lane THEN Parked(l) \cup {s.ord} ELSE Parked(l)
  BY <1>1, <1>3, <1>4 DEF Parked, Content
<1>6. IsParked(t)' <=> IsParked(t) \/ t = s
  BY <1>1, <1>5 DEF IsParked, Tasks
<1>7. Mapped(t) <=> Mapped(t)' \/ t = s
  <2>1. Mapped(t)' => Mapped(t)
    BY <1>1 DEF Mapped
  <2>2. Mapped(t) => Mapped(t)' \/ t = s
    BY <1>0, <1>1 DEF Mapped
  <2>3. Mapped(s)
    BY <1>0, <1>1 DEF Mapped
  <2> QED
    BY <2>1, <2>2, <2>3
<1>8. Mapped(t)' \/ IsParked(t)' <=> Mapped(t) \/ IsParked(t)
  BY <1>6, <1>7
<1> QED
  BY <1>2, <1>8 DEF Waiting, Queued

LEMMA WaitingTake ==
    ASSUME Types, Places, NEW l \in Lanes, TakeFront(l), NEW t \in Tasks
    PROVE  Waiting(t)' <=> Waiting(t)
<1>0. PICK b : b = lane[l].base
  OBVIOUS
<1> DEFINE n == [lane[l].ring EXCEPT ![FrontSlot(l)] = None]
<1>1. b \in Parked(l) /\ Content(n) = Parked(l) \ {b}
  BY <1>0, RingAfterTake DEF TakeFront, Places
<1>2. /\ lane'[l].ring = n
      /\ \A k \in Lanes : k # l => lane'[k].ring = lane[k].ring
  BY DEF TakeFront, Types, LaneRec
<1> HIDE DEF n
<1>3. \A k \in Lanes : Parked(k)' = IF k = l THEN Parked(k) \ {b} ELSE Parked(k)
  BY <1>1, <1>2 DEF Parked, Content
<1>4. /\ reducer.pc = "scan" /\ reducer'.pc = "apply"
      /\ reducer'.task = [lane |-> l, ord |-> b] /\ UNCHANGED <<mapper, queue>>
  BY <1>0, RingAfterTake DEF TakeFront, Places
<1>5. t.lane \in Lanes /\ (t = [lane |-> l, ord |-> b] <=> t.lane = l /\ t.ord = b)
  BY DEF Tasks
<1>6. IsParked(t) <=> IsParked(t)' \/ t = [lane |-> l, ord |-> b]
  BY <1>1, <1>3, <1>5 DEF IsParked
<1>7. (Mapped(t)' <=> Mapped(t)) /\ (Queued(t)' <=> Queued(t))
  BY <1>4 DEF Mapped, Parking, Queued
<1> QED
  BY <1>4, <1>6, <1>7 DEF Waiting

LEMMA WaitingStopPush ==
    ASSUME Types, StopPush, NEW t \in Tasks
    PROVE  Waiting(t)' <=> Waiting(t)
<1> DEFINE n == Len(queue) + 1
<1>1. /\ n \in Nat \ {0} /\ DOMAIN queue = 1 .. n - 1 /\ DOMAIN queue' = 1 .. n
      /\ queue'[n] = Sentinel /\ \A i \in 1 .. n - 1 : queue'[i] = queue[i]
  BY DEF StopPush, Types
<1> HIDE DEF n
<1>2. t # Sentinel
  BY PoolAssumption DEF Tasks, Sentinel
<1>3. Queued(t)' <=> Queued(t)
  <2>1. ASSUME NEW i \in 1 .. n PROVE i \in 1 .. n - 1 \/ i = n
    BY <1>1, <2>1
  <2>2. \A i \in 1 .. n - 1 : i \in 1 .. n
    BY <1>1
  <2> QED
    BY <1>1, <1>2, <2>1, <2>2 DEF Queued
<1>4. UNCHANGED <<lane, mapper, reducer>>
  BY DEF StopPush
<1> QED
  BY <1>3, <1>4 DEF Waiting, Mapped, Parking, IsParked, Parked

LEMMA WaitingKept ==
    ASSUME Types, Places, Lined, NEW t \in Tasks,
           \/ Still \/ StopPush \/ ReducerCount
           \/ \E l \in Lanes : RegisterLib(l) \/ TakeFront(l)
           \/ \E w \in Writers : AllocOrd(w) \/ CountIn(w) \/ PushThrows(w)
           \/ \E m \in Mappers : Pop(m) \/ Park(m)
    PROVE  Waiting(t)' <=> Waiting(t)
<1>1. ASSUME \A l \in Lanes : lane'[l].ring = lane[l].ring, queue' = queue,
             \A m \in Mappers : /\ Parking(m)' <=> Parking(m)
                                /\ Parking(m) => mapper'[m].task = mapper[m].task,
             reducer'.pc = "apply" <=> reducer.pc = "apply",
             reducer.pc = "apply" => reducer'.task = reducer.task
      PROVE  Waiting(t)' <=> Waiting(t)
  <2>1. IsParked(t)' <=> IsParked(t)
    BY <1>1 DEF IsParked, Parked, Tasks
  <2>2. (Mapped(t)' <=> Mapped(t)) /\ (Queued(t)' <=> Queued(t))
    BY <1>1 DEF Mapped, Queued
  <2> QED
    BY <1>1, <2>1, <2>2 DEF Waiting
<1>2. CASE Still
  BY <1>1, <1>2 DEF Still, InHands
<1>3. ASSUME NEW l \in Lanes, RegisterLib(l) PROVE Waiting(t)' <=> Waiting(t)
  <2>1. \A k \in Lanes : lane'[k].ring = lane[k].ring
    BY <1>3 DEF RegisterLib, Types, LaneRec
  <2> QED
    BY <1>1, <1>3, <2>1 DEF RegisterLib, Parking
<1>4. ASSUME NEW w \in Writers, AllocOrd(w) \/ CountIn(w) \/ PushThrows(w)
      PROVE  Waiting(t)' <=> Waiting(t)
  <2>1. LaneOf[w] \in Lanes
    BY PoolAssumption
  <2>2. \A k \in Lanes : lane'[k].ring = lane[k].ring
    BY <1>4, <2>1, CountChanges DEF AllocOrd, CountIn, PushThrows
  <2>3. UNCHANGED <<queue, mapper, reducer>>
    BY <1>4 DEF AllocOrd, CountIn, PushThrows
  <2> QED
    BY <1>1, <2>2, <2>3 DEF Parking
<1>5. CASE ReducerCount
  <2>1. UNCHANGED <<queue, mapper>>
    BY <1>5 DEF ReducerCount
  <2>2. reducer.pc = "dec" /\ reducer'.pc # "apply"
    BY <1>5 DEF ReducerCount, Types, ReducerRec, AfterCountOut
  <2>3. \A k \in Lanes : lane'[k].ring = lane[k].ring
    BY <1>5 DEF ReducerCount, Types, LaneRec
  <2> QED
    BY <1>1, <2>1, <2>2, <2>3 DEF Parking
<1> QED
  BY <1>2, <1>3, <1>4, <1>5, WaitingStopPush, WaitingPop, WaitingPark, WaitingTake

-----------------------------------------------------------------------------
(* in_flight.                                                              *)

Submitted(t) == \E w \in Writers : Counted(w) /\ TaskOf(w) = t
Afoot(t) == Submitted(t) \/ Waiting(t) \/ (reducer.pc = "dec" /\ reducer.task = t)

LEMMA UnderWayIs ==
    ASSUME NEW l \in Lanes, NEW o
    PROVE  UnderWay(l, o) <=> Afoot([lane |-> l, ord |-> o])
  BY DEF UnderWay, Afoot, Submitted, Waiting, Counted, TaskOf, Queued, Mapped, Parking, IsParked

LEMMA AfootIsDue ==
    ASSUME Types, Places, InHand, NEW t \in Tasks, Afoot(t)
    PROVE  FirstOrd[t.lane] <= t.ord /\ t.ord < hist[t.lane].ord
<1>1. CASE InHands /\ reducer.task = t
  BY <1>1 DEF InHand, InHands
<1>2. CASE Submitted(t)
  BY <1>2 DEF Submitted, Counted, Holds, Places, AllDue, Due
<1>3. CASE Queued(t)
  <2>1. t # Sentinel
    BY PoolAssumption DEF Tasks, Sentinel
  <2> QED
    BY <1>3, <2>1 DEF Queued, Places, AllDue, Due
<1>4. CASE Mapped(t)
  BY <1>4 DEF Mapped, Places, AllDue, Due
<1>5. CASE IsParked(t)
  BY <1>5 DEF IsParked, Places, AllDue, Due, Tasks
<1> QED
  BY <1>1, <1>2, <1>3, <1>4, <1>5 DEF Afoot, Waiting, InHands

LEMMA TasksAre ==
    ASSUME Types, Places, InHand, NEW l \in Lanes
    PROVE  /\ TasksOf(l) = {o \in Nat : Afoot([lane |-> l, ord |-> o])}
           /\ IsFiniteSet(TasksOf(l))
<1>1. FirstOrd[l] \in Nat /\ hist[l].ord \in Nat
  BY PoolAssumption DEF Types, HistRec
<1>2. ASSUME NEW o \in Nat, Afoot([lane |-> l, ord |-> o])
      PROVE  o \in FirstOrd[l] .. hist[l].ord - 1
  <2>1. PICK t : t = [lane |-> l, ord |-> o]
    OBVIOUS
  <2>2. t \in Tasks /\ t.lane = l /\ t.ord = o
    BY <2>1 DEF Tasks
  <2>3. FirstOrd[l] <= o /\ o < hist[l].ord
    BY <1>2, <2>1, <2>2, AfootIsDue
  <2> QED
    BY <1>1, <2>3
<1>3. TasksOf(l) = {o \in FirstOrd[l] .. hist[l].ord - 1 : Afoot([lane |-> l, ord |-> o])}
  BY UnderWayIs DEF TasksOf
<1>4. TasksOf(l) = {o \in Nat : Afoot([lane |-> l, ord |-> o])}
  BY <1>1, <1>2, <1>3
<1>5. IsFiniteSet(TasksOf(l))
  <2>1. FirstOrd[l] \in Int /\ hist[l].ord - 1 \in Int
    BY <1>1
  <2>2. IsFiniteSet(FirstOrd[l] .. hist[l].ord - 1)
    BY <2>1, FS_Interval
  <2> QED
    BY <2>2, FS_Subset DEF TasksOf
<1> QED
  BY <1>4, <1>5

LEMMA TasksNext ==
    ASSUME Types, Types', NEW l \in Lanes, hist[l].ord <= hist'[l].ord,
           \A t \in Tasks : t.lane = l /\ Afoot(t)' =>
                 FirstOrd[l] <= t.ord /\ t.ord < hist[l].ord
    PROVE  TasksOf(l)' = {o \in Nat : Afoot([lane |-> l, ord |-> o])'}
<1>1. FirstOrd[l] \in Nat /\ hist[l].ord \in Nat /\ hist'[l].ord \in Nat
  BY PoolAssumption DEF Types, HistRec
<1>2. ASSUME NEW o \in Nat, Afoot([lane |-> l, ord |-> o])'
      PROVE  o \in FirstOrd[l] .. hist'[l].ord - 1
  <2>1. PICK t : t = [lane |-> l, ord |-> o]
    OBVIOUS
  <2>2. t \in Tasks /\ t.lane = l /\ t.ord = o
    BY <2>1 DEF Tasks
  <2>3. Afoot(t)'
    BY <1>2, <2>1
  <2>4. FirstOrd[l] <= o /\ o < hist[l].ord
    BY <2>2, <2>3
  <2> QED
    BY <1>1, <2>4
<1>3. ASSUME NEW o PROVE UnderWay(l, o)' <=> Afoot([lane |-> l, ord |-> o])'
  BY DEF UnderWay, Afoot, Submitted, Waiting, Counted, TaskOf, Queued, Mapped, Parking, IsParked
<1>4. TasksOf(l)' = {o \in FirstOrd[l] .. hist'[l].ord - 1 : Afoot([lane |-> l, ord |-> o])'}
  BY <1>3 DEF TasksOf
<1> QED
  BY <1>1, <1>2, <1>4

LEMMA InFlightKept ==
    ASSUME Types, Types', Places, InHand, InFlightExact,
           \A l \in Lanes : /\ lane'[l].count = lane[l].count
                            /\ hist[l].ord <= hist'[l].ord,
           \A t \in Tasks : Afoot(t)' <=> Afoot(t)
    PROVE  InFlightExact'
<1>1. ASSUME NEW l \in Lanes PROVE TasksOf(l)' = TasksOf(l)
  <2>1. TasksOf(l) = {o \in Nat : Afoot([lane |-> l, ord |-> o])}
    BY TasksAre
  <2>2. TasksOf(l)' = {o \in Nat : Afoot([lane |-> l, ord |-> o])'}
    BY TasksNext, AfootIsDue
  <2>3. \A o \in Nat : [lane |-> l, ord |-> o] \in Tasks
    BY DEF Tasks
  <2> QED
    BY <2>1, <2>2, <2>3
<1> QED
  BY <1>1 DEF InFlightExact

\* One more task is afoot, and counted in.
LEMMA InFlightMore ==
    ASSUME Types, Types', Places, InHand, InFlightExact,
           NEW s \in Tasks, ~Afoot(s),
           FirstOrd[s.lane] <= s.ord, s.ord < hist[s.lane].ord,
           \A t \in Tasks : Afoot(t)' <=> Afoot(t) \/ t = s,
           \A l \in Lanes : /\ lane'[l].count = IF l = s.lane THEN lane[l].count + 1
                                                              ELSE lane[l].count
                            /\ hist[l].ord <= hist'[l].ord
    PROVE  InFlightExact'
<1>0. /\ \A l \in Lanes, o \in Nat : [lane |-> l, ord |-> o] \in Tasks
      /\ s.lane \in Lanes /\ s.ord \in Nat
      /\ \A l \in Lanes, o \in Nat : [lane |-> l, ord |-> o] = s <=> l = s.lane /\ o = s.ord
  BY DEF Tasks
<1>1. ASSUME NEW l \in Lanes
      PROVE  TasksOf(l)' = IF l = s.lane THEN TasksOf(l) \cup {s.ord} ELSE TasksOf(l)
  <2>1. TasksOf(l) = {o \in Nat : Afoot([lane |-> l, ord |-> o])}
    BY TasksAre
  <2>2. TasksOf(l)' = {o \in Nat : Afoot([lane |-> l, ord |-> o])'}
    BY TasksNext, AfootIsDue
  <2> QED
    BY <1>0, <2>1, <2>2
<1>2. s.ord \notin TasksOf(s.lane)
  BY <1>0, TasksAre
<1>3. ASSUME NEW l \in Lanes PROVE lane'[l].count = Cardinality(TasksOf(l)')
  <2>1. CASE l = s.lane
    <3>1. Cardinality(TasksOf(l) \cup {s.ord}) = Cardinality(TasksOf(l)) + 1
      BY <1>2, <2>1, TasksAre, FS_AddElement
    <3> QED
      BY <1>1, <2>1, <3>1 DEF InFlightExact
  <2>2. CASE l # s.lane
    BY <1>1, <2>2 DEF InFlightExact
  <2> QED
    BY <2>1, <2>2
<1> QED
  BY <1>3 DEF InFlightExact

\* One task less is afoot, and counted out.
LEMMA InFlightLess ==
    ASSUME Types, Types', Places, InHand, InFlightExact,
           NEW s \in Tasks, Afoot(s),
           \A t \in Tasks : Afoot(t)' <=> Afoot(t) /\ t # s,
           \A l \in Lanes : /\ lane'[l].count = IF l = s.lane THEN lane[l].count - 1
                                                              ELSE lane[l].count
                            /\ hist[l].ord <= hist'[l].ord
    PROVE  InFlightExact'
<1>0. /\ \A l \in Lanes, o \in Nat : [lane |-> l, ord |-> o] \in Tasks
      /\ s.lane \in Lanes /\ s.ord \in Nat
      /\ \A l \in Lanes, o \in Nat : [lane |-> l, ord |-> o] = s <=> l = s.lane /\ o = s.ord
  BY DEF Tasks
<1>1. ASSUME NEW l \in Lanes
      PROVE  TasksOf(l)' = IF l = s.lane THEN TasksOf(l) \ {s.ord} ELSE TasksOf(l)
  <2>1. TasksOf(l) = {o \in Nat : Afoot([lane |-> l, ord |-> o])}
    BY TasksAre
  <2>2. TasksOf(l)' = {o \in Nat : Afoot([lane |-> l, ord |-> o])'}
    BY TasksNext, AfootIsDue
  <2> QED
    BY <1>0, <2>1, <2>2
<1>2. s.ord \in TasksOf(s.lane)
  BY <1>0, TasksAre
<1>3. ASSUME NEW l \in Lanes PROVE lane'[l].count = Cardinality(TasksOf(l)')
  <2>1. CASE l = s.lane
    <3>1. Cardinality(TasksOf(l) \ {s.ord}) = Cardinality(TasksOf(l)) - 1
      BY <1>2, <2>1, TasksAre, FS_RemoveElement
    <3> QED
      BY <1>1, <2>1, <3>1 DEF InFlightExact
  <2>2. CASE l # s.lane
    BY <1>1, <2>2 DEF InFlightExact
  <2> QED
    BY <2>1, <2>2
<1> QED
  BY <1>3 DEF InFlightExact

LEMMA OrdsGrow ==
    ASSUME Types, InHand, [Next]_vars
    PROVE  \A l \in Lanes : hist[l].ord <= hist'[l].ord
<1>0. \A l \in Lanes : hist[l] \in HistRec /\ hist[l].ord \in Nat
  BY DEF Types, HistRec
<1>1. ASSUME NEW w \in Writers, AllocOrd(w)
      PROVE  \A l \in Lanes : hist[l].ord <= hist'[l].ord
  <2>1. PICK k : k = LaneOf[w] /\ hist' = [hist EXCEPT ![k].ord = @ + 1]
    BY <1>1 DEF AllocOrd
  <2>2. ASSUME NEW l \in Lanes PROVE hist[l].ord <= hist'[l].ord
    <3>1. hist'[l] = IF l = k THEN [hist[l] EXCEPT !.ord = @ + 1] ELSE hist[l]
      BY <2>1 DEF Types
    <3> QED
      BY <1>0, <3>1 DEF HistRec
  <2> QED
    BY <2>2
<1>2. ASSUME NEW w \in Writers, Push(w) PROVE \A l \in Lanes : hist'[l].ord = hist[l].ord
  BY <1>2 DEF Push, Types, HistRec
<1>3. ASSUME Apply PROVE \A l \in Lanes : hist'[l].ord = hist[l].ord
  BY <1>3, ApplyChanges
<1>4. \/ hist' = hist \/ Apply
      \/ \E w \in Writers : AllocOrd(w) \/ Push(w)
  BY StillOrMoves DEF Still, Moves, RegisterLib, TakeFront, CountIn, PushThrows, Pop, Park,
     ReducerCount, StopPush
<1> QED
  BY <1>0, <1>1, <1>2, <1>3, <1>4

LEMMA InFlightNext ==
    ASSUME Types, Types', Places, Lined, InHand, InFlightExact, [Next]_vars
    PROVE  InFlightExact'
<1>g. \A l \in Lanes : hist[l].ord <= hist'[l].ord
  BY OrdsGrow
<1>w. \A w \in Writers : LaneOf[w] \in Lanes
  BY PoolAssumption
<1>1. ASSUME \A l \in Lanes : lane'[l].count = lane[l].count,
             \A w \in Writers : (Counted(w)' <=> Counted(w)) /\ (Counted(w)' => writer'[w].ord = writer[w].ord),
             reducer'.pc = "dec" <=> reducer.pc = "dec",
             reducer.pc = "dec" => reducer'.task = reducer.task,
             \A t \in Tasks : Waiting(t)' <=> Waiting(t)
      PROVE  InFlightExact'
  <2>1. \A t \in Tasks : Submitted(t)' <=> Submitted(t)
    BY <1>1 DEF Submitted, TaskOf
  <2>2. \A t \in Tasks : Afoot(t)' <=> Afoot(t)
    BY <1>1, <2>1 DEF Afoot
  <2> QED
    BY <1>1, <1>g, <2>2, InFlightKept
<1>2. CASE Still
  <2>1. \A w \in Writers : (Counted(w)' <=> Counted(w)) /\ (Counted(w)' => writer'[w].ord = writer[w].ord)
    BY <1>2 DEF Still, Holds, Counted
  <2> QED
    BY <1>1, <1>2, <2>1, WaitingKept DEF Still, InHands
<1>3. ASSUME \/ StopPush \/ \E l \in Lanes : RegisterLib(l) \/ TakeFront(l)
             \/ \E m \in Mappers : Pop(m) \/ Park(m)
      PROVE  InFlightExact'
  <2>1. writer' = writer
    BY <1>3 DEF StopPush, RegisterLib, TakeFront, Pop, Park
  <2>2. ASSUME NEW l \in Lanes PROVE lane'[l].count = lane[l].count
    <3>1. lane[l] \in LaneRec
      BY DEF Types
    <3>2. CASE lane' = lane
      BY <3>2
    <3>3. CASE \E k \in Lanes : RegisterLib(k)
      <4>1. PICK k \in Lanes : RegisterLib(k)
        BY <3>3
      <4>2. lane'[l] = IF l = k THEN [lane[l] EXCEPT !.base = hist[k].ord, !.next = hist[k].ord]
                       ELSE lane[l]
        BY <4>1 DEF RegisterLib, Types
      <4> QED
        BY <3>1, <4>2 DEF LaneRec
    <3>4. CASE \E k \in Lanes : TakeFront(k)
      <4>1. PICK k \in Lanes : TakeFront(k)
        BY <3>4
      <4>2. PICK n : lane'[l] = IF l = k THEN [lane[l] EXCEPT !.ring = n, !.base = @ + 1]
                                ELSE lane[l]
        BY <4>1 DEF TakeFront, Types, LaneRec
      <4> QED
        BY <3>1, <4>2 DEF LaneRec
    <3>5. CASE \E m \in Mappers : Park(m)
      <4>1. PICK m, p : m \in Mappers /\ lane' = [lane EXCEPT ![mapper[m].task.lane].ring = p]
        BY <3>5 DEF Park
      <4>2. lane'[l] = lane[l] \/ lane'[l] = [lane[l] EXCEPT !.ring = p]
        BY <4>1 DEF Types
      <4> QED
        BY <3>1, <4>2 DEF LaneRec
    <3> QED
      BY <1>3, <3>2, <3>3, <3>4, <3>5 DEF StopPush, Pop
  <2>3. /\ reducer'.pc = "dec" <=> reducer.pc = "dec"
        /\ reducer.pc = "dec" => reducer'.task = reducer.task
    <3>1. StopPush \/ (\E l \in Lanes : RegisterLib(l)) \/ (\E m \in Mappers : Pop(m) \/ Park(m))
             => reducer' = reducer
      BY DEF StopPush, RegisterLib, Pop, Park
    <3>2. (\E l \in Lanes : TakeFront(l)) => reducer.pc = "scan" /\ reducer'.pc = "apply"
      BY DEF TakeFront
    <3> QED
      BY <1>3, <3>1, <3>2
  <2>4. \A t \in Tasks : Waiting(t)' <=> Waiting(t)
    BY <1>3, WaitingKept
  <2> QED
    BY <1>1, <2>1, <2>2, <2>3, <2>4 DEF Counted
<1>4. ASSUME NEW w \in Writers, AllocOrd(w) PROVE InFlightExact'
  <2>1. UNCHANGED <<lane, reducer>>
    BY <1>4 DEF AllocOrd
  <2>2. \A v \in Writers : (Counted(v)' <=> Counted(v)) /\ (Counted(v)' => writer'[v].ord = writer[v].ord)
    BY <1>4 DEF AllocOrd, Counted, Types
  <2> QED
    BY <1>1, <1>4, <2>1, <2>2, WaitingKept
<1>5. ASSUME NEW w \in Writers, Push(w) PROVE InFlightExact'
  <2>1. UNCHANGED <<lane, reducer>> /\ TaskOf(w) \in Tasks
    <3>1. Holds(w)
      BY <1>5 DEF Push, Holds
    <3> QED
      BY <1>5, <3>1 DEF Push, Places, AllDue, Due
  <2>2. /\ Counted(w) /\ ~Counted(w)'
        /\ \A v \in Writers : v # w => (Counted(v)' <=> Counted(v)) /\ TaskOf(v)' = TaskOf(v)
    BY <1>5 DEF Push, Counted, Types, Idle, TaskOf
  <2>3. ASSUME NEW t \in Tasks PROVE Afoot(t)' <=> Afoot(t)
    <3>1. Waiting(t)' <=> Waiting(t) \/ t = TaskOf(w)
      BY <1>5, WaitingPush
    <3>2. Submitted(t) <=> Submitted(t)' \/ (t = TaskOf(w) /\ Submitted(t))
      BY <2>2 DEF Submitted
    <3>3. Submitted(TaskOf(w))
      BY <2>2 DEF Submitted
    <3> QED
      BY <2>1, <3>1, <3>2, <3>3 DEF Afoot
  <2> QED
    BY <1>g, <2>1, <2>3, InFlightKept
<1>6. CASE Apply
  <2>1. /\ \A l \in Lanes : lane'[l].count = lane[l].count /\ lane'[l].ring = lane[l].ring
        /\ UNCHANGED <<queue, writer, mapper>>
        /\ reducer.pc = "apply" /\ reducer'.pc = "dec" /\ reducer'.task = reducer.task
    BY <1>6, ApplyChanges DEF Apply
  <2>2. ASSUME NEW t \in Tasks PROVE Afoot(t)' <=> Afoot(t)
    <3>1. /\ Submitted(t)' <=> Submitted(t)
          /\ Queued(t)' <=> Queued(t)
          /\ Mapped(t)' <=> Mapped(t)
      BY <2>1 DEF Submitted, Counted, TaskOf, Queued, Mapped, Parking
    <3>2. IsParked(t)' <=> IsParked(t)
      BY <2>1 DEF IsParked, Parked, Tasks
    <3> QED
      BY <2>1, <3>1, <3>2 DEF Afoot, Waiting
  <2> QED
    BY <1>g, <2>1, <2>2, InFlightKept
<1>7. ASSUME NEW w \in Writers, CountIn(w) \/ PushThrows(w) PROVE InFlightExact'
  <2>0. PICK s : s = TaskOf(w)
    OBVIOUS
  <2>1. /\ Holds(w) /\ s \in Tasks /\ s.lane = LaneOf[w] /\ s.lane \in Lanes
        /\ FirstOrd[s.lane] <= s.ord /\ s.ord < hist[s.lane].ord
        /\ lane[s.lane].base <= s.ord /\ s.ord \in Nat
    <3>1. Holds(w)
      BY <1>7 DEF CountIn, PushThrows, Holds
    <3> QED
      BY <2>0, <3>1 DEF Places, AllDue, Due, Tasks, TaskOf
  <2>2. UNCHANGED <<queue, mapper, reducer, hist>>
    BY <1>7 DEF CountIn, PushThrows
  <2>3. ~Waiting(s) /\ ~(reducer.pc = "dec" /\ reducer.task = s)
    <3>1. InHands => reducer.task # s
      <4> SUFFICES ASSUME InHands, reducer.task = s PROVE FALSE
        OBVIOUS
      <4>1. s.ord + 1 = lane[s.lane].base
        BY DEF InHand, InHands
      <4> QED
        BY <4>1, <2>1
    <3>2. ~Queued(s) /\ ~Mapped(s) /\ ~IsParked(s)
      BY <2>0, <2>1 DEF Places, Distinct, Queued, Mapped
    <3> QED
      BY <3>1, <3>2 DEF Waiting, InHands
  <2>4. /\ \A v \in Writers : v # w => (Counted(v)' <=> Counted(v)) /\ TaskOf(v)' = TaskOf(v)
        /\ \A v \in Writers : v # w /\ Counted(v) => TaskOf(v) # s
    <3>1. \A v \in Writers : v # w => writer'[v] = writer[v]
      BY <1>7 DEF CountIn, PushThrows, Types
    <3>2. \A v \in Writers : Counted(v) => Holds(v)
      BY DEF Counted, Holds
    <3> QED
      BY <2>0, <2>1, <3>1, <3>2 DEF Counted, TaskOf, Places, Distinct
  <2>5. \A t \in Tasks : Waiting(t)' <=> Waiting(t)
    BY <1>7, WaitingKept
  <2>6. CASE CountIn(w)
    <3>1. ~Counted(w) /\ Counted(w)' /\ TaskOf(w)' = s
      BY <2>0, <2>6 DEF CountIn, Counted, Types, TaskOf, WriterRec
    <3>2. ~Afoot(s)
      BY <2>3, <2>4, <3>1 DEF Afoot, Submitted
    <3>3. \A t \in Tasks : Submitted(t)' <=> Submitted(t) \/ t = s
      BY <2>4, <3>1 DEF Submitted
    <3>4. \A t \in Tasks : Afoot(t)' <=> Afoot(t) \/ t = s
      BY <2>2, <2>5, <3>3 DEF Afoot
    <3>5. \A l \in Lanes : lane'[l].count = IF l = s.lane THEN lane[l].count + 1 ELSE lane[l].count
      <4>1. PICK k, c : k \in Lanes /\ k = s.lane /\ c = lane[k].count + 1
        BY <2>1
      <4>2. lane' = [lane EXCEPT ![k].count = c]
        BY <2>1, <2>6, <4>1 DEF CountIn
      <4>3. \A l \in Lanes : lane'[l].count = IF l = k THEN c ELSE lane[l].count
        <5> SUFFICES ASSUME NEW l \in Lanes
                     PROVE  lane'[l].count = IF l = k THEN c ELSE lane[l].count
          OBVIOUS
        <5>1. lane[l] \in LaneRec
          BY DEF Types
        <5>2. lane'[l] = IF l = k THEN [lane[l] EXCEPT !.count = c] ELSE lane[l]
          BY <4>2 DEF Types
        <5> QED
          BY <5>1, <5>2 DEF LaneRec
      <4> QED
        BY <4>1, <4>3
    <3> QED
      BY <1>g, <2>1, <3>2, <3>4, <3>5, InFlightMore
  <2>7. CASE PushThrows(w)
    <3>1. Counted(w) /\ ~Counted(w)' /\ TaskOf(w) = s
      BY <2>0, <2>7 DEF PushThrows, Counted, Types, Idle, AfterCountOut
    <3>2. Afoot(s)
      BY <3>1 DEF Afoot, Submitted
    <3>3. \A t \in Tasks : Submitted(t)' <=> Submitted(t) /\ t # s
      BY <2>4, <3>1 DEF Submitted
    <3>4. \A t \in Tasks : Afoot(t)' <=> Afoot(t) /\ t # s
      BY <2>2, <2>3, <2>5, <3>3 DEF Afoot
    <3>5. \A l \in Lanes : lane'[l].count = IF l = s.lane THEN lane[l].count - 1 ELSE lane[l].count
      <4>1. PICK k, c : k \in Lanes /\ k = s.lane /\ c = lane[k].count - 1
        BY <2>1
      <4>2. lane' = [lane EXCEPT ![k].count = c]
        BY <2>1, <2>7, <4>1 DEF PushThrows, Compensated
      <4>3. \A l \in Lanes : lane'[l].count = IF l = k THEN c ELSE lane[l].count
        <5> SUFFICES ASSUME NEW l \in Lanes
                     PROVE  lane'[l].count = IF l = k THEN c ELSE lane[l].count
          OBVIOUS
        <5>1. lane[l] \in LaneRec
          BY DEF Types
        <5>2. lane'[l] = IF l = k THEN [lane[l] EXCEPT !.count = c] ELSE lane[l]
          BY <4>2 DEF Types
        <5> QED
          BY <5>1, <5>2 DEF LaneRec
      <4> QED
        BY <4>1, <4>3
    <3> QED
      BY <1>g, <2>1, <3>2, <3>4, <3>5, InFlightLess
  <2> QED
    BY <1>7, <2>6, <2>7
<1>8. CASE ReducerCount
  <2>0. PICK s : s = reducer.task
    OBVIOUS
  <2>1. /\ reducer.pc = "dec" /\ reducer'.pc \notin {"apply", "dec"} /\ s \in Tasks
        /\ s.lane \in Lanes /\ s.ord \in Nat /\ s.ord + 1 = lane[s.lane].base
    BY <1>8, <2>0 DEF ReducerCount, InHand, Tasks, Types, ReducerRec, AfterCountOut
  <2>2. UNCHANGED <<queue, mapper, writer, hist>>
    BY <1>8 DEF ReducerCount
  <2>3. ~Waiting(s) /\ ~Submitted(s)
    <3>1. ~Due(s)
      BY <2>1, SMTT(20) DEF Due, Types, LaneRec
    <3>2. s # Sentinel
      BY <2>1, PoolAssumption DEF Tasks, Sentinel
    <3>3. \A w \in Writers : Counted(w) => Holds(w)
      BY DEF Counted, Holds
    <3>4. IsParked(s) => Due(s)
      BY <2>1 DEF IsParked, Places, AllDue, Tasks
    <3> QED
      BY <2>1, <3>1, <3>2, <3>3, <3>4
         DEF Waiting, Submitted, Queued, Mapped, Places, AllDue
  <2>4. \A t \in Tasks : Afoot(t)' <=> Afoot(t) /\ t # s
    <3>1. \A t \in Tasks : Waiting(t)' <=> Waiting(t)
      BY <1>8, WaitingKept
    <3>2. \A t \in Tasks : Submitted(t)' <=> Submitted(t)
      BY <2>2 DEF Submitted, Counted, TaskOf
    <3> QED
      BY <2>0, <2>1, <2>3, <3>1, <3>2 DEF Afoot
  <2>5. Afoot(s)
    BY <2>0, <2>1 DEF Afoot
  <2>6. \A l \in Lanes : lane'[l].count = IF l = s.lane THEN lane[l].count - 1 ELSE lane[l].count
    <3>1. PICK k, c : k \in Lanes /\ k = s.lane /\ c = lane[k].count - 1
      BY <2>1
    <3>2. lane' = [lane EXCEPT ![k].count = c]
      BY <1>8, <2>0, <3>1 DEF ReducerCount
    <3>3. \A l \in Lanes : lane'[l].count = IF l = k THEN c ELSE lane[l].count
      <4> SUFFICES ASSUME NEW l \in Lanes
                   PROVE  lane'[l].count = IF l = k THEN c ELSE lane[l].count
        OBVIOUS
      <4>1. lane[l] \in LaneRec
        BY DEF Types
      <4>2. lane'[l] = IF l = k THEN [lane[l] EXCEPT !.count = c] ELSE lane[l]
        BY <3>2 DEF Types
      <4> QED
        BY <4>1, <4>2 DEF LaneRec
    <3> QED
      BY <3>1, <3>3
  <2> QED
    BY <1>g, <2>1, <2>4, <2>5, <2>6, InFlightLess
<1> QED
  BY <1>2, <1>3, <1>4, <1>5, <1>6, <1>7, <1>8, StillOrMoves DEF Moves

-----------------------------------------------------------------------------
(* Every task is somewhere.                                                *)

LEMMA FoundIs ==
    ASSUME NEW l \in Lanes, NEW o
    PROVE  /\ Found(l, o) <=> (Waiting([lane |-> l, ord |-> o]) \/ o \in Range(hist[l].log))
           /\ Found(l, o)' <=> (Waiting([lane |-> l, ord |-> o])' \/ o \in Range(hist'[l].log))
  BY DEF Found, Waiting, Queued, Mapped

LEMMA RangeAppend ==
    ASSUME NEW S, NEW s \in Seq(S), NEW e
    PROVE  Range(Append(s, e)) = Range(s) \cup {e}
<1> DEFINE n == Len(s) + 1
           a == Append(s, e)
<1>1. /\ n \in Nat \ {0} /\ DOMAIN s = 1 .. n - 1 /\ DOMAIN a = 1 .. n
      /\ a[n] = e /\ \A i \in 1 .. n - 1 : a[i] = s[i]
  OBVIOUS
<1> HIDE DEF n, a
<1>2. ASSUME NEW i \in 1 .. n PROVE i \in 1 .. n - 1 \/ i = n
  BY <1>1, <1>2
<1>3. n \in 1 .. n /\ \A i \in 1 .. n - 1 : i \in 1 .. n
  BY <1>1
<1>4. Range(a) = Range(s) \cup {e}
  BY <1>1, <1>2, <1>3 DEF Range
<1> QED
  BY <1>4 DEF a

\* What Apply takes from the reducer's hands it puts into the log.
LEMMA WaitingApply ==
    ASSUME Types, InHand, Apply
    PROVE  /\ \A t \in Tasks : Waiting(t) => Waiting(t)' \/ t = reducer.task
           /\ reducer.task.lane \in Lanes
           /\ reducer.task.ord \in Range(hist'[reducer.task.lane].log)
           /\ \A l \in Lanes : /\ hist'[l].returned = hist[l].returned
                               /\ Range(hist[l].log) \subseteq Range(hist'[l].log)
<1>1. /\ reducer.task.lane \in Lanes /\ UNCHANGED <<queue, mapper>>
      /\ \A l \in Lanes : /\ lane'[l].ring = lane[l].ring
                          /\ hist'[l].returned = hist[l].returned
                          /\ hist'[l].log = IF l = reducer.task.lane
                                            THEN Append(hist[l].log, reducer.task.ord)
                                            ELSE hist[l].log
  BY ApplyChanges
<1>2. ASSUME NEW t \in Tasks, Waiting(t) PROVE Waiting(t)' \/ t = reducer.task
  <2>1. IsParked(t)' <=> IsParked(t)
    BY <1>1 DEF IsParked, Parked, Tasks
  <2>2. (Queued(t)' <=> Queued(t)) /\ (Mapped(t)' <=> Mapped(t))
    BY <1>1 DEF Queued, Mapped, Parking
  <2> QED
    BY <1>2, <2>1, <2>2 DEF Waiting
<1>3. \A l \in Lanes : hist[l].log \in Seq(Nat)
  BY DEF Types, HistRec
<1>4. \A l \in Lanes : Range(hist'[l].log) = IF l = reducer.task.lane
                                             THEN Range(hist[l].log) \cup {reducer.task.ord}
                                             ELSE Range(hist[l].log)
  <2> SUFFICES ASSUME NEW l \in Lanes
               PROVE  Range(hist'[l].log) = IF l = reducer.task.lane
                                            THEN Range(hist[l].log) \cup {reducer.task.ord}
                                            ELSE Range(hist[l].log)
    OBVIOUS
  <2>1. PICK a, e : a = hist[l].log /\ e = reducer.task.ord
    OBVIOUS
  <2>2. Range(Append(a, e)) = Range(a) \cup {e}
    BY <1>3, <2>1, RangeAppend
  <2> QED
    BY <1>1, <2>1, <2>2
<1> QED
  BY <1>1, <1>2, <1>4

\* Only Push and Apply touch what NoneMissing reads of hist.
LEMMA HistKept ==
    ASSUME Types, [Next]_vars, ~Apply, \A w \in Writers : ~Push(w)
    PROVE  \A l \in Lanes : /\ hist'[l].returned = hist[l].returned
                            /\ hist'[l].log = hist[l].log
<1>1. CASE Still
  BY <1>1 DEF Still
<1>2. CASE hist' = hist
  BY <1>2
<1>3. ASSUME NEW w \in Writers, AllocOrd(w)
      PROVE  \A l \in Lanes : hist'[l].returned = hist[l].returned /\ hist'[l].log = hist[l].log
  <2> SUFFICES ASSUME NEW l \in Lanes
               PROVE  hist'[l].returned = hist[l].returned /\ hist'[l].log = hist[l].log
    OBVIOUS
  <2>1. hist[l] \in HistRec
    BY DEF Types
  <2>2. hist'[l] = IF l = LaneOf[w] THEN [hist[l] EXCEPT !.ord = @ + 1] ELSE hist[l]
    BY <1>3 DEF AllocOrd, Types
  <2> QED
    BY <2>1, <2>2 DEF HistRec
<1>4. Moves => \/ Apply \/ \E w \in Writers : Push(w) \/ AllocOrd(w)
               \/ hist' = hist
  BY DEF Moves, RegisterLib, TakeFront, CountIn, PushThrows, Pop, Park, ReducerCount, StopPush
<1> QED
  BY <1>1, <1>2, <1>3, <1>4, StillOrMoves

LEMMA HistPush ==
    ASSUME Types, NEW w \in Writers, Push(w)
    PROVE  \A l \in Lanes :
              /\ hist'[l].returned = IF l = LaneOf[w] THEN hist[l].returned \cup {writer[w].ord}
                                     ELSE hist[l].returned
              /\ hist'[l].log = hist[l].log
<1> SUFFICES ASSUME NEW l \in Lanes
             PROVE  /\ hist'[l].returned = IF l = LaneOf[w]
                                           THEN hist[l].returned \cup {writer[w].ord}
                                           ELSE hist[l].returned
                    /\ hist'[l].log = hist[l].log
  OBVIOUS
<1>1. hist[l] \in HistRec
  BY DEF Types
<1>2. hist'[l] = IF l = LaneOf[w] THEN [hist[l] EXCEPT !.returned = @ \cup {writer[w].ord}]
                 ELSE hist[l]
  BY DEF Push, Types
<1> QED
  BY <1>1, <1>2 DEF HistRec

LEMMA NoneMissingNext ==
    ASSUME Types, Places, Lined, InHand, NoneMissing, [Next]_vars
    PROVE  NoneMissing'
<1> SUFFICES ASSUME NEW l \in Lanes, NEW o \in hist'[l].returned
             PROVE  Found(l, o)'
  BY DEF NoneMissing
<1> DEFINE t == [lane |-> l, ord |-> o]
<1>0. \A p \in hist[l].returned : p \in Nat
  BY DEF Types, HistRec
<1>1. ASSUME NEW w \in Writers, Push(w) PROVE Found(l, o)'
  <2>1. TaskOf(w) \in Tasks /\ TaskOf(w) = [lane |-> LaneOf[w], ord |-> writer[w].ord]
    <3>1. Holds(w)
      BY <1>1 DEF Push, Holds
    <3> QED
      BY <3>1 DEF TaskOf, Places, AllDue, Due
  <2>2. o \in hist[l].returned \/ t = TaskOf(w)
    <3>1. hist'[l].returned = IF l = LaneOf[w] THEN hist[l].returned \cup {writer[w].ord}
                              ELSE hist[l].returned
      BY <1>1, HistPush
    <3> QED
      BY <2>1, <3>1
  <2>3. t \in Tasks
    BY <1>0, <2>1, <2>2 DEF Tasks
  <2>4. Waiting(t)' <=> Waiting(t) \/ t = TaskOf(w)
    BY <1>1, <2>3, WaitingPush
  <2>5. hist'[l].log = hist[l].log
    BY <1>1, HistPush
  <2>6. o \in hist[l].returned => Found(l, o)
    BY DEF NoneMissing
  <2> QED
    BY <2>2, <2>4, <2>5, <2>6, FoundIs
<1>2. CASE Apply
  <2>1. o \in hist[l].returned /\ t \in Tasks
    BY <1>0, <1>2, WaitingApply DEF Tasks
  <2>2. Found(l, o)
    BY <2>1 DEF NoneMissing
  <2>3. CASE t = reducer.task
    <3>1. reducer.task.lane = l /\ reducer.task.ord = o
      BY <2>3
    <3>2. o \in Range(hist'[l].log)
      BY <1>2, <3>1, WaitingApply
    <3> QED
      BY <3>2, FoundIs
  <2>4. CASE t # reducer.task
    <3>1. Waiting(t) => Waiting(t)'
      BY <1>2, <2>1, <2>4, WaitingApply
    <3>2. o \in Range(hist[l].log) => o \in Range(hist'[l].log)
      BY <1>2, WaitingApply
    <3> QED
      BY <2>2, <3>1, <3>2, FoundIs
  <2> QED
    BY <2>3, <2>4
<1>3. CASE ~Apply /\ \A w \in Writers : ~Push(w)
  <2>1. hist'[l].returned = hist[l].returned /\ hist'[l].log = hist[l].log
    BY <1>3, HistKept
  <2>2. t \in Tasks /\ Found(l, o)
    BY <1>0, <2>1 DEF Tasks, NoneMissing
  <2>3. Waiting(t)' <=> Waiting(t)
    BY <1>3, <2>2, WaitingKept, StillOrMoves DEF Moves
  <2> QED
    BY <2>1, <2>2, <2>3, FoundIs
<1> QED
  BY <1>1, <1>2, <1>3

-----------------------------------------------------------------------------
(* flush.                                                                  *)

\* A lane that has drained has applied all that was submitted.
LEMMA DrainedIsApplied ==
    ASSUME Types, Places, InHand, InFlightExact, NoneMissing, NEW l \in Lanes, Drained(l)
    PROVE  hist[l].returned \subseteq Range(hist[l].log)
<1>1. Cardinality(TasksOf(l)) = 0
  BY DEF Drained, InFlightExact
<1>2. TasksOf(l) = {}
  BY <1>1, TasksAre, FS_EmptySet
<1> SUFFICES ASSUME NEW o \in hist[l].returned PROVE o \in Range(hist[l].log)
  OBVIOUS
<1>3. o \in Nat
  BY DEF Types, HistRec
<1>4. ~Waiting([lane |-> l, ord |-> o])
  BY <1>2, <1>3, TasksAre DEF Afoot
<1> QED
  BY <1>4, FoundIs DEF NoneMissing

LEMMA FlushersMove ==
    ASSUME Types, [Next]_vars, NEW f \in Flushers
    PROVE  \/ /\ flusher'[f].need = flusher[f].need
              /\ flusher'[f].pc = "back" => flusher[f].pc = "back"
           \/ \E g \in Flushers : Flush(g) \/ FlushWait(g)
<1>1. ASSUME WakeFlushers
      PROVE  /\ flusher'[f].need = flusher[f].need
             /\ flusher'[f].pc = "back" => flusher[f].pc = "back"
  BY <1>1 DEF WakeFlushers, Types, FlusherRec
<1>2. ASSUME NEW l \in Lanes, RegisterLib(l) \/ Unregister(l) \/ CloserStep(l)
      PROVE  flusher' = flusher
  BY <1>2 DEF RegisterLib, Unregister, CloserStep, UnregisterWait, UnregisterTimeout, Erase
<1>3. ASSUME NEW w \in Writers, AllocOrd(w) \/ WriterStep(w) \/ Die(w)
      PROVE  flusher' = flusher \/ WakeFlushers
  BY <1>3 DEF AllocOrd, WriterStep, RaiseHwm, CountIn, Push, PushThrows, WriterNotify, Die
<1>4. ASSUME NEW m \in Mappers, MapperStep(m) PROVE flusher' = flusher
  BY <1>4 DEF MapperStep, MapGate, Pop, Park, MapNotify
<1>5. ASSUME ReducerStep PROVE flusher' = flusher \/ WakeFlushers
  BY <1>5 DEF ReducerStep, ReducerExit, ReducerSleep, TakeFront, Apply, ReducerCount,
              ReducerNotify, ReducerRelease
<1>6. ASSUME Stop \/ StopperStep PROVE flusher' = flusher
  BY <1>6 DEF Stop, StopperStep, StopWake, StopPush, StopReducer, StopJoined
<1>7. UNCHANGED vars => flusher' = flusher
  BY DEF vars
<1> QED
  BY <1>1, <1>2, <1>3, <1>4, <1>5, <1>6, <1>7 DEF Next

LEMMA LogGrows ==
    ASSUME Types, InHand, [Next]_vars, NEW l \in Lanes
    PROVE  /\ hist[l].returned \subseteq hist'[l].returned
           /\ Range(hist[l].log) \subseteq Range(hist'[l].log)
  BY HistKept, HistPush, WaitingApply

LEMMA NeedsNext ==
    ASSUME Types, Places, InHand, InFlightExact, NoneMissing, Needs, [Next]_vars
    PROVE  Needs'
<1> SUFFICES ASSUME NEW f \in Flushers
             PROVE  /\ flusher'[f].need \subseteq hist'[FlushLane[f]].returned
                    /\ flusher'[f].pc = "back" =>
                          flusher'[f].need \subseteq Range(hist'[FlushLane[f]].log)
  BY DEF Needs
<1>1. FlushLane[f] \in Lanes
  BY PoolAssumption
<1>2. /\ flusher[f].need \subseteq hist[FlushLane[f]].returned
      /\ flusher[f].pc = "back" => flusher[f].need \subseteq Range(hist[FlushLane[f]].log)
  BY DEF Needs
<1>3. CASE /\ flusher'[f].need = flusher[f].need
           /\ flusher'[f].pc = "back" => flusher[f].pc = "back"
  BY <1>1, <1>2, <1>3, LogGrows
<1>4. ASSUME NEW g \in Flushers, Flush(g)
      PROVE  /\ flusher'[f].need \subseteq hist'[FlushLane[f]].returned
             /\ flusher'[f].pc = "back" =>
                   flusher'[f].need \subseteq Range(hist'[FlushLane[f]].log)
  <2>1. hist' = hist
    BY <1>4 DEF Flush
  <2>2. flusher'[f] = IF f = g THEN [pc |-> "wait", need |-> hist[FlushLane[g]].returned]
                      ELSE flusher[f]
    BY <1>4 DEF Flush, Types
  <2> QED
    BY <1>2, <2>1, <2>2
<1>5. ASSUME NEW g \in Flushers, FlushWait(g)
      PROVE  /\ flusher'[f].need \subseteq hist'[FlushLane[f]].returned
             /\ flusher'[f].pc = "back" =>
                   flusher'[f].need \subseteq Range(hist'[FlushLane[f]].log)
  <2>1. hist' = hist
    BY <1>5 DEF FlushWait
  <2>2. flusher[f] \in FlusherRec
    BY DEF Types
  <2>3. flusher'[f] = IF f = g
                      THEN [flusher[f] EXCEPT !.pc = IF Drained(FlushLane[g]) THEN "back"
                                                     ELSE "asleep"]
                      ELSE flusher[f]
    BY <1>5 DEF FlushWait, Types
  <2>4. /\ flusher'[f].need = flusher[f].need
        /\ flusher'[f].pc = "back" => flusher[f].pc = "back" \/ Drained(FlushLane[f])
    BY <2>2, <2>3 DEF FlusherRec
  <2>5. Drained(FlushLane[f]) =>
            hist[FlushLane[f]].returned \subseteq Range(hist[FlushLane[f]].log)
    BY <1>1, DrainedIsApplied
  <2> QED
    BY <1>2, <2>1, <2>4, <2>5
<1> QED
  BY <1>3, <1>4, <1>5, FlushersMove

-----------------------------------------------------------------------------
(* The theorems.                                                           *)

LEMMA RestInit == Init => InFlightExact /\ NoneMissing /\ Needs
<1> SUFFICES ASSUME Init PROVE InFlightExact /\ NoneMissing /\ Needs
  OBVIOUS
<1>1. ASSUME NEW l \in Lanes PROVE lane[l].count = 0 /\ TasksOf(l) = {}
  <2>1. lane[l].count = 0
    BY DEF Init, NewLane
  <2>2. FirstOrd[l] \in Nat /\ hist[l].ord = FirstOrd[l]
    BY PoolAssumption DEF Init
  <2>3. FirstOrd[l] .. hist[l].ord - 1 = {}
    BY <2>2
  <2> QED
    BY <2>1, <2>3 DEF TasksOf
<1>2. Cardinality({}) = 0
  BY FS_EmptySet
<1>3. InFlightExact
  BY <1>1, <1>2 DEF InFlightExact
<1>4. NoneMissing /\ Needs
  BY PoolAssumption DEF Init, NoneMissing, Needs
<1> QED
  BY <1>3, <1>4

\* The inductive invariant of the pool.
THEOREM Invariance == Spec => []IInv
<1>1. Init => IInv
  BY TypesInit, PlacesInit, LinedInit, RestInit DEF IInv, Places
<1>2. IInv /\ [Next]_vars => IInv'
  <2> SUFFICES ASSUME IInv, [Next]_vars PROVE IInv'
    OBVIOUS
  <2>1. Types /\ Places /\ Lined /\ InHand /\ InFlightExact /\ NoneMissing /\ Needs
    BY DEF IInv, Places
  <2>2. Types'
    <3>1. CASE Next
      BY <2>1, <3>1, TypesNext DEF Places
    <3>2. CASE UNCHANGED vars
      BY <2>1, <3>2 DEF vars, Types
    <3> QED
      BY <3>1, <3>2
  <2>3. Places'
    BY <2>1, <2>2, PlacesNext
  <2>4. Lined' /\ InHand'
    BY <2>1, <2>2, LinedNext
  <2>5. InFlightExact'
    BY <2>1, <2>2, InFlightNext
  <2>6. NoneMissing' /\ Needs'
    BY <2>1, NoneMissingNext, NeedsNext
  <2> QED
    BY <2>2, <2>3, <2>4, <2>5, <2>6 DEF IInv, Places
<1> QED
  BY <1>1, <1>2, PTL DEF Spec

\* Every variable keeps its type, for any number of threads and libraries.
THEOREM TypeCorrect == Spec => []Types
<1>1. IInv => Types
  BY DEF IInv
<1> QED
  BY <1>1, Invariance, PTL

\* Tasks of a library take effect in the order of their ords, without a gap and
\* without a repetition, and applied_ord is the last one (reducer_loop).
THEOREM OrderIsKept == Spec => []AppliedInOrder
<1>1. IInv => AppliedInOrder
  <2> SUFFICES ASSUME IInv, NEW l \in Lanes
               PROVE  LET log == hist[l].log IN
                      /\ \A i \in DOMAIN log : log[i] = FirstOrd[l] + i - 1
                      /\ log # <<>> => lane[l].applied = log[Len(log)]
    BY DEF AppliedInOrder
  <2>1. PICK log : log = hist[l].log
    OBVIOUS
  <2>2. log \in Seq(Nat)
    BY <2>1 DEF IInv, Types, HistRec
  <2>3. /\ \A i \in DOMAIN log : log[i] = FirstOrd[l] + i - 1
        /\ log # <<>> => lane[l].applied = FirstOrd[l] + Len(log) - 1
    BY <2>1 DEF IInv, Lined, LaneInLine
  <2>4. log # <<>> => Len(log) \in DOMAIN log
    BY <2>2
  <2> QED
    BY <2>1, <2>3, <2>4
<1> QED
  BY <1>1, Invariance, PTL

\* in_flight is the number of tasks between submit and apply, so it is 0 exactly
\* when there are none (submit, push_reorder, reducer_loop).
THEOREM InFlightIsExact == Spec => []InFlightExact
<1>1. IInv => InFlightExact
  BY DEF IInv
<1> QED
  BY <1>1, Invariance, PTL

\* A flush that returned has waited for every task submitted before it.
THEOREM FlushesCover == Spec => []FlushCovers
<1>1. IInv => FlushCovers
  BY DEF IInv, Needs, FlushCovers
<1> QED
  BY <1>1, Invariance, PTL

\* push_reorder's branch for a refused entry is never taken.
THEOREM NothingRefused == Spec => []NeverRefused
<1>1. IInv => NeverRefused
  BY PutAccepted DEF IInv
<1> QED
  BY <1>1, Invariance, PTL
=============================================================================
