--------------------------- MODULE OpeningProofs ---------------------------
(***************************************************************************)
(* Proofs about Opening: for any number of processes and handles, one      *)
(* handle has the write lock as long as no removal of a stale lock met a   *)
(* living one, the references of a keydir are counted exactly, and a       *)
(* process gives out no file id twice.                                     *)
(***************************************************************************)
EXTENDS Opening, FiniteSetTheorems, NatSets

-----------------------------------------------------------------------------
(* The inductive invariant.                                                *)

SlotRec == [ref : Nat, ready : BOOLEAN, known : SUBSET (1..MaxWrites), biggest : Nat,
            kept : BOOLEAN]
ProcRec == [pid : 1..MaxPid, saved : Nat, slot : SlotRec]
HandleRec == [pc : {"closed", "create", "read", "remove", "write", "acquire", "load",
                    "open", "active", "release", "unlock"},
              holds : BOOLEAN, active : 0..MaxId, retry : BOOLEAN, opening : BOOLEAN]
HistRec == [robbed : BOOLEAN, twice : BOOLEAN,
            used : [Procs -> SUBSET (1..MaxId)]]

\* The types, but for the bound of ref, which follows from SlotsExact.
Types ==
    /\ lockFile \in Handles \union {None}
    /\ payload \in {Empty} \union (Procs \X (1..MaxPid))
    /\ proc \in [Procs -> ProcRec]
    /\ handle \in [Handles -> HandleRec]
    /\ disk \in [files : SUBSET (1..MaxId), writes : 0..MaxWrites]
    /\ hist \in HistRec

\* Who has the lock made the file that is there.
LockIsMine == hist.robbed \/ \A h \in Handles : handle[h].holds => lockFile = h

\* What a handle has a part in: a keydir (HasKeydir), and one that is loaded.
Using(r)   == r.pc \in {"load", "open", "active", "release"}
           \/ (r.pc \in {"create", "read", "remove", "write"} /\ ~r.opening)
Working(r) == \/ r.pc \in {"open", "active"}
              \/ r.pc \in {"create", "read", "remove", "write"} /\ ~r.opening
Sound(r)   == r.pc \in {"open", "active"} => ~r.opening
Users(p)   == {h \in Handles : ProcOf[h] = p /\ Using(handle[h])}

SlotCounts == \A p \in Procs : proc[p].slot.ref = Cardinality(Users(p))
SlotReady  == \A h \in Handles : Working(handle[h]) => slot(h).ready
AllSound   == \A h \in Handles : Sound(handle[h])

\* Ids given out lie below what the next one comes from: the slot's biggest id,
\* or the one the last slot left behind.
IdsBelow ==
    \A p \in Procs : \A id \in hist.used[p] :
        IF proc[p].slot.ref = 0 THEN id < proc[p].saved ELSE id <= proc[p].slot.biggest

IInv == /\ Types /\ LockIsMine /\ SlotCounts /\ SlotReady /\ AllSound
        /\ IdsBelow /\ IdsGivenOnce

-----------------------------------------------------------------------------
(* The greatest of a set of ids.                                           *)

LEMMA MaxOfTwo ==
    ASSUME NEW a \in Nat, NEW b \in Nat
    PROVE  Max({a, b}) \in Nat /\ Max({a, b}) >= a /\ Max({a, b}) >= b
<1>1. \E x \in {a, b} : \A y \in {a, b} : x >= y
  BY SMT
<1>2. /\ Max({a, b}) \in {a, b}
      /\ \A y \in {a, b} : Max({a, b}) >= y
  BY <1>1 DEF Max
<1> QED
  BY <1>2

LEMMA MaxWithFiles ==
    ASSUME NEW a \in Nat, NEW F \in SUBSET (1..MaxId)
    PROVE  Max({a} \union F) \in Nat /\ Max({a} \union F) >= a
<1> DEFINE S == {a} \union F
<1>1. MaxId \in Nat
  BY OpeningAssumption
<1>2. PICK b \in Nat : b >= a /\ b >= MaxId
  BY <1>1, a >= MaxId \/ MaxId >= a
<1>3. S \in SUBSET Nat /\ a \in S
  BY <1>1
<1>4. \A x \in S : x <= b
  BY <1>1, <1>2
<1> HIDE DEF S
<1>5. \E x \in S : \A y \in S : x >= y
  BY <1>3, <1>4, GreatestExists
<1>6. Max(S) \in S /\ \A y \in S : Max(S) >= y
  BY <1>5 DEF Max
<1>7. Max(S) \in Nat /\ Max(S) >= a
  BY <1>3, <1>6
<1> QED
  BY <1>7 DEF S

-----------------------------------------------------------------------------
(* The types.                                                              *)

LEMMA TypesInit == Init => Types
<1> SUFFICES ASSUME Init PROVE Types
  OBVIOUS
<1>1. MaxPid \in Nat \ {0} /\ MaxId \in Nat /\ MaxWrites \in Nat
  BY OpeningAssumption
<1>2. Closed \in HandleRec
  BY <1>1 DEF Closed, HandleRec
<1>3. NoSlot \in SlotRec
  BY DEF NoSlot, SlotRec
<1>4. \A p \in Procs : proc[p] \in ProcRec
  BY <1>1, <1>3 DEF Init, ProcRec, SlotRec
<1>5. hist \in HistRec
  BY DEF Init, HistRec
<1> QED
  BY <1>1, <1>2, <1>4, <1>5 DEF Init, Types

-----------------------------------------------------------------------------
(* How the parts of the state change.                                      *)

LEMMA OneHandle ==
    ASSUME Types, NEW h \in Handles, NEW r \in HandleRec, handle' = [handle EXCEPT ![h] = r]
    PROVE  /\ handle' \in [Handles -> HandleRec]
           /\ \A g \in Handles : handle'[g] = IF g = h THEN r ELSE handle[g]
  BY DEF Types

LEMMA OneSlot ==
    ASSUME Types, NEW h \in Handles, NEW s \in SlotRec, SetSlot(h, s)
    PROVE  /\ proc' \in [Procs -> ProcRec]
           /\ \A p \in Procs : /\ proc'[p].slot = IF p = ProcOf[h] THEN s ELSE proc[p].slot
                               /\ proc'[p].saved = proc[p].saved
<1>0. ProcOf[h] \in Procs
  BY OpeningAssumption
<1>1. ASSUME NEW p \in Procs
      PROVE  /\ proc'[p] \in ProcRec
             /\ proc'[p].slot = IF p = ProcOf[h] THEN s ELSE proc[p].slot
             /\ proc'[p].saved = proc[p].saved
  <2>1. proc[p] \in ProcRec
    BY DEF Types
  <2>2. proc'[p] = IF p = ProcOf[h] THEN [proc[p] EXCEPT !.slot = s] ELSE proc[p]
    BY <1>0 DEF SetSlot, Types
  <2> QED
    BY <2>1, <2>2 DEF ProcRec
<1>2. proc' = [p \in Procs |-> proc'[p]]
  BY DEF SetSlot, Types
<1> QED
  BY <1>1, <1>2

LEMMA UsersFinite ==
    ASSUME NEW p
    PROVE  IsFiniteSet(Users(p)) /\ IsFiniteSet(Users(p)')
<1>1. Users(p) \subseteq Handles /\ Users(p)' \subseteq Handles
  BY DEF Users
<1> QED
  BY <1>1, FS_Subset, OpeningAssumption

\* A handle keeps, gains or loses its part in a keydir.
LEMMA UsersKept ==
    ASSUME NEW h \in Handles, NEW r,
           \A g \in Handles : handle'[g] = IF g = h THEN r ELSE handle[g],
           Using(r) <=> Using(handle[h]), NEW p
    PROVE  Users(p)' = Users(p)
  BY DEF Users

LEMMA UsersMore ==
    ASSUME NEW h \in Handles, NEW r,
           \A g \in Handles : handle'[g] = IF g = h THEN r ELSE handle[g],
           Using(r), ~Using(handle[h]), NEW p
    PROVE  Cardinality(Users(p)') = IF p = ProcOf[h] THEN Cardinality(Users(p)) + 1
                                                     ELSE Cardinality(Users(p))
<1>1. Users(p)' = IF p = ProcOf[h] THEN Users(p) \union {h} ELSE Users(p)
  BY DEF Users
<1>2. h \notin Users(p)
  BY DEF Users
<1> QED
  BY <1>1, <1>2, UsersFinite, FS_AddElement

LEMMA UsersLess ==
    ASSUME NEW h \in Handles, NEW r,
           \A g \in Handles : handle'[g] = IF g = h THEN r ELSE handle[g],
           ~Using(r), Using(handle[h]), NEW p
    PROVE  Cardinality(Users(p)') = IF p = ProcOf[h] THEN Cardinality(Users(p)) - 1
                                                     ELSE Cardinality(Users(p))
<1>1. Users(p)' = IF p = ProcOf[h] THEN Users(p) \ {h} ELSE Users(p)
  BY DEF Users
<1>2. p = ProcOf[h] => h \in Users(p)
  BY DEF Users
<1> QED
  BY <1>1, <1>2, UsersFinite, FS_RemoveElement

LEMMA CountIsNat ==
    ASSUME NEW p
    PROVE  Cardinality(Users(p)) \in Nat /\ (Users(p) = {} <=> Cardinality(Users(p)) = 0)
  BY UsersFinite, FS_CardinalityType, FS_EmptySet

-----------------------------------------------------------------------------
(* Steps of one handle that leave the registry alone.                      *)

Alone(h) == \/ Open(h) \/ CreateLock(h) \/ ReadLock(h) \/ RemoveStale(h) \/ WritePid(h)
            \/ PollTimeout(h) \/ LoadFails(h) \/ WantActive(h) \/ Close(h)

\* What such a step does to its handle.
Turns(h, r) ==
    /\ handle' = [handle EXCEPT ![h] = r]
    /\ Using(r) <=> Using(handle[h])
    /\ Working(r) => Working(handle[h])
    /\ Sound(r)
    /\ r.holds => handle[h].holds \/ (lockFile = None /\ lockFile' = h)

LEMMA AloneTurns ==
    ASSUME Types, AllSound, NEW h \in Handles, Alone(h)
    PROVE  \E r \in HandleRec : Turns(h, r)
<1>1. handle[h] \in HandleRec /\ Sound(handle[h])
  BY DEF Types, AllSound
<1>0. 0 \in 0..MaxId
  BY OpeningAssumption
<1> DEFINE To(pc) == [handle[h] EXCEPT !.pc = pc]
<1>2. CASE Open(h)
  <2> DEFINE r == [handle[h] EXCEPT !.pc = IF h \in Writing THEN "create" ELSE "acquire",
                                    !.opening = TRUE]
  <2>1. r \in HandleRec /\ handle' = [handle EXCEPT ![h] = r]
    BY <1>1, <1>2 DEF Open, HandleRec
  <2>2. r.holds = handle[h].holds /\ r.opening /\ r.pc \in {"create", "acquire"} /\ handle[h].pc = "closed"
    BY <1>1, <1>2 DEF Open, At, HandleRec
  <2> HIDE DEF r
  <2> QED
    BY <2>1, <2>2 DEF Turns, Using, Working, Sound
<1>3. ASSUME NEW pc, \/ handle[h].pc = "acquire" /\ pc = "unlock"
                     \/ handle[h].pc = "load" /\ pc = "release",
             Goto(h, pc)
      PROVE  \E r \in HandleRec : Turns(h, r)
  <2> DEFINE r == To(pc)
  <2>1. r \in HandleRec /\ handle' = [handle EXCEPT ![h] = r] /\ r.pc = pc
        /\ r.holds = handle[h].holds
    BY <1>1, <1>3 DEF Goto, HandleRec
  <2> HIDE DEF r
  <2> QED
    BY <1>3, <2>1 DEF Turns, Using, Working, Sound
<1>4. CASE PollTimeout(h) \/ LoadFails(h)
  BY <1>3, <1>4 DEF PollTimeout, LoadFails, At, Unpolled
<1>5. CASE WantActive(h)
  <2> DEFINE r == To(IF handle[h].holds THEN "active" ELSE "create")
  <2>1. r \in HandleRec /\ handle' = [handle EXCEPT ![h] = r]
        /\ r.pc \in {"active", "create"} /\ r.opening = handle[h].opening /\ r.holds = handle[h].holds
        /\ handle[h].pc = "open"
    BY <1>1, <1>5 DEF WantActive, Goto, At, HandleRec
  <2> HIDE DEF r
  <2> QED
    BY <1>1, <2>1 DEF Turns, Using, Working, Sound
<1>6. CASE Close(h)
  <2> DEFINE r == [handle[h] EXCEPT !.pc = "release", !.active = 0]
  <2>1. r \in HandleRec /\ handle' = [handle EXCEPT ![h] = r]
        /\ r.pc = "release" /\ handle[h].pc = "open" /\ r.holds = handle[h].holds
    BY <1>1, <1>6, <1>0 DEF Close, At, HandleRec
  <2> HIDE DEF r
  <2> QED
    BY <2>1 DEF Turns, Using, Working, Sound
<1>7. CASE WritePid(h)
  <2> DEFINE r == [handle[h] EXCEPT !.pc = IF handle[h].opening THEN "acquire" ELSE "active",
                                    !.retry = FALSE]
  <2>1. r \in HandleRec /\ handle' = [handle EXCEPT ![h] = r]
        /\ r.pc = (IF handle[h].opening THEN "acquire" ELSE "active")
        /\ r.opening = handle[h].opening /\ r.holds = handle[h].holds /\ handle[h].pc = "write"
    BY <1>1, <1>7 DEF WritePid, At, HandleRec
  <2> HIDE DEF r
  <2> QED
    BY <2>1 DEF Turns, Using, Working, Sound
<1>8. ASSUME handle[h].pc \in {"create", "read", "remove"},
             handle' = [handle EXCEPT ![h] = Refused(h)]
      PROVE  \E r \in HandleRec : Turns(h, r)
  <2> DEFINE r == Refused(h)
  <2>1. r \in HandleRec /\ handle' = [handle EXCEPT ![h] = r]
        /\ r.pc = (IF handle[h].opening THEN "closed" ELSE "open")
        /\ r.opening = handle[h].opening /\ r.holds = handle[h].holds
    BY <1>1, <1>8 DEF Refused, HandleRec
  <2> HIDE DEF r
  <2> QED
    BY <1>8, <2>1 DEF Turns, Using, Working, Sound
<1>9. ASSUME NEW r \in HandleRec, handle' = [handle EXCEPT ![h] = r],
             handle[h].pc \in {"create", "read", "remove"},
             r.pc \in {"create", "read", "remove", "write"}, r.opening = handle[h].opening,
             r.holds => handle[h].holds \/ (lockFile = None /\ lockFile' = h)
      PROVE  \E q \in HandleRec : Turns(h, q)
  BY <1>9 DEF Turns, Using, Working, Sound
<1>10. CASE CreateLock(h)
  <2>1. CASE lockFile = None
    <3> DEFINE r == [handle[h] EXCEPT !.pc = "write", !.holds = TRUE]
    <3>1. r \in HandleRec /\ handle' = [handle EXCEPT ![h] = r]
          /\ r.pc = "write" /\ r.opening = handle[h].opening /\ handle[h].pc = "create"
          /\ lockFile' = h
      BY <1>1, <1>10, <2>1 DEF CreateLock, At, HandleRec
    <3> HIDE DEF r
    <3> QED
      BY <1>9, <2>1, <3>1
  <2>2. CASE lockFile # None /\ handle[h].retry
    BY <1>8, <1>10, <2>2 DEF CreateLock, At
  <2>3. CASE lockFile # None /\ ~handle[h].retry
    <3> DEFINE r == To("read")
    <3>1. r \in HandleRec /\ handle' = [handle EXCEPT ![h] = r]
          /\ r.pc = "read" /\ r.opening = handle[h].opening /\ r.holds = handle[h].holds /\ handle[h].pc = "create"
      BY <1>1, <1>10, <2>3 DEF CreateLock, At, HandleRec
    <3> HIDE DEF r
    <3> QED
      BY <1>9, <3>1
  <2> QED
    BY <2>1, <2>2, <2>3
<1>11. CASE ReadLock(h)
  <2>1. CASE lockFile # None /\ Stale(payload)
    <3> DEFINE r == To("remove")
    <3>1. r \in HandleRec /\ handle' = [handle EXCEPT ![h] = r]
          /\ r.pc = "remove" /\ r.opening = handle[h].opening /\ r.holds = handle[h].holds /\ handle[h].pc = "read"
      BY <1>1, <1>11, <2>1 DEF ReadLock, At, HandleRec
    <3> HIDE DEF r
    <3> QED
      BY <1>9, <3>1
  <2>2. CASE ~(lockFile # None /\ Stale(payload))
    BY <1>8, <1>11, <2>2 DEF ReadLock, At
  <2> QED
    BY <2>1, <2>2
<1>12. CASE RemoveStale(h)
  <2>1. CASE lockFile # None
    <3> DEFINE r == [handle[h] EXCEPT !.pc = "create", !.retry = TRUE]
    <3>1. r \in HandleRec /\ handle' = [handle EXCEPT ![h] = r]
          /\ r.pc = "create" /\ r.opening = handle[h].opening /\ r.holds = handle[h].holds /\ handle[h].pc = "remove"
      BY <1>1, <1>12, <2>1 DEF RemoveStale, At, HandleRec
    <3> HIDE DEF r
    <3> QED
      BY <1>9, <3>1
  <2>2. CASE lockFile = None
    BY <1>8, <1>12, <2>2 DEF RemoveStale, At
  <2> QED
    BY <2>1, <2>2
<1> QED
  BY <1>2, <1>4, <1>5, <1>6, <1>7, <1>10, <1>11, <1>12 DEF Alone

LEMMA AloneKeeps ==
    ASSUME IInv, NEW h \in Handles, Alone(h)
    PROVE  IInv'
<1>t. Types /\ AllSound
  BY DEF IInv
<1>n. MaxId \in Nat /\ MaxPid \in Nat /\ h # None /\ \A g \in Handles : g # None
  BY OpeningAssumption DEF None
<1>1. PICK r \in HandleRec : Turns(h, r)
  BY <1>t, AloneTurns
<1>2. /\ handle' \in [Handles -> HandleRec]
      /\ \A g \in Handles : handle'[g] = IF g = h THEN r ELSE handle[g]
  BY <1>t, <1>1, OneHandle DEF Turns
<1>3. proc' = proc /\ disk' = disk
  BY DEF Alone, Open, CreateLock, ReadLock, RemoveStale, WritePid, PollTimeout, LoadFails,
         WantActive, Close
<1>4. hist' \in HistRec /\ hist'.used = hist.used /\ hist'.twice = hist.twice
  <2>1. hist \in HistRec
    BY <1>t DEF Types
  <2>2. CASE hist' = hist
    BY <2>1, <2>2
  <2>5. CASE RemoveStale(h)
    <3>1. (hist.robbed \/ (lockFile # None /\ handle[lockFile].holds)) \in BOOLEAN
      BY <2>1, <1>t DEF HistRec, Types, HandleRec
    <3>2. PICK b \in BOOLEAN : hist' = [hist EXCEPT !.robbed = b]
      BY <2>1, <2>5, <3>1 DEF RemoveStale, HistRec
    <3> QED
      BY <2>1, <3>2 DEF HistRec
  <2> QED
    BY <2>2, <2>5
       DEF Alone, Open, CreateLock, ReadLock, WritePid, PollTimeout, LoadFails, WantActive, Close
<1>5. lockFile' \in Handles \union {None} /\ payload' \in {Empty} \union (Procs \X (1..MaxPid))
  <2>1. lockFile \in Handles \union {None} /\ payload \in {Empty} \union (Procs \X (1..MaxPid))
    BY <1>t DEF Types
  <2>2. MyPid(h) \in Procs \X (1..MaxPid)
    BY <1>t, OpeningAssumption DEF MyPid, Types, ProcRec
  <2> QED
    BY <2>1, <2>2 DEF Alone, Open, CreateLock, ReadLock, RemoveStale, WritePid, PollTimeout,
                      LoadFails, WantActive, Close
<1>6. Types'
  BY <1>t, <1>2, <1>3, <1>4, <1>5 DEF Types
<1>7. LockIsMine'
  <2> SUFFICES ASSUME ~hist'.robbed, NEW g \in Handles, handle'[g].holds
               PROVE  lockFile' = g
    BY DEF LockIsMine
  <2>1. handle[g].holds \/ (g = h /\ lockFile = None /\ lockFile' = h)
    BY <1>1, <1>2 DEF Turns
  <2>2. CASE hist'.robbed = hist.robbed /\ lockFile' = lockFile
    BY <1>n, <2>1, <2>2 DEF IInv, LockIsMine
  <2>3. CASE CreateLock(h) /\ lockFile = None
    <3>1. hist' = hist /\ lockFile' = h
      BY <2>3 DEF CreateLock
    <3>2. ~handle[g].holds
      BY <1>n, <2>3, <3>1 DEF IInv, LockIsMine
    <3> QED
      BY <2>1, <3>2
  <2>4. CASE RemoveStale(h)
    <3>1. /\ lockFile' = None
          /\ hist'.robbed = (hist.robbed \/ (lockFile # None /\ handle[lockFile].holds))
      BY <1>t, <2>4 DEF RemoveStale, Types, HistRec
    <3>2. ~handle[g].holds
      BY <1>n, <3>1 DEF IInv, LockIsMine
    <3> QED
      BY <1>n, <2>1, <3>1, <3>2
  <2>5. \/ hist'.robbed = hist.robbed /\ lockFile' = lockFile
        \/ CreateLock(h) /\ lockFile = None
        \/ RemoveStale(h)
    <3>1. CASE Open(h) \/ WantActive(h)
      BY <3>1, <1>t DEF Open, WantActive, Types, HistRec
    <3>2. CASE CreateLock(h) /\ lockFile # None
      BY <3>2 DEF CreateLock
    <3>3. CASE ReadLock(h) \/ WritePid(h) \/ PollTimeout(h) \/ LoadFails(h) \/ Close(h)
      BY <3>3 DEF ReadLock, WritePid, PollTimeout, LoadFails, Close
    <3> QED
      BY <3>1, <3>2, <3>3 DEF Alone
  <2> QED
    BY <2>2, <2>3, <2>4, <2>5
<1>8. SlotCounts'
  <2>1. \A p \in Procs : Users(p)' = Users(p)
    BY <1>1, <1>2, UsersKept DEF Turns
  <2> QED
    BY <1>3, <2>1 DEF IInv, SlotCounts
<1>9. SlotReady' /\ AllSound'
  BY <1>1, <1>2, <1>3 DEF IInv, SlotReady, AllSound, Turns, slot
<1>10. IdsBelow' /\ IdsGivenOnce'
  BY <1>3, <1>4 DEF IInv, IdsBelow, IdsGivenOnce
<1> QED
  BY <1>6, <1>7, <1>8, <1>9, <1>10 DEF IInv

-----------------------------------------------------------------------------
(* Steps of one handle that change the slot of its process.                *)

LEMMA LockKept ==
    ASSUME LockIsMine, lockFile' = lockFile, hist'.robbed = hist.robbed,
           \A g \in Handles : handle'[g].holds => handle[g].holds
    PROVE  LockIsMine'
  BY DEF LockIsMine

\* A handle that uses a keydir is counted in its slot.
LEMMA UsedSlot ==
    ASSUME Types, SlotCounts, NEW h \in Handles
    PROVE  /\ ProcOf[h] \in Procs /\ proc[ProcOf[h]] \in ProcRec /\ slot(h) \in SlotRec
           /\ Using(handle[h]) => slot(h).ref # 0
           /\ slot(h).ref = 1 /\ Using(handle[h]) =>
                 \A g \in Handles : g # h /\ ProcOf[g] = ProcOf[h] => ~Using(handle[g])
<1>1. ProcOf[h] \in Procs /\ proc[ProcOf[h]] \in ProcRec /\ slot(h) \in SlotRec
  BY OpeningAssumption DEF Types, ProcRec, slot
<1>2. slot(h).ref = Cardinality(Users(ProcOf[h]))
  BY <1>1 DEF SlotCounts, slot
<1>3. Using(handle[h]) => h \in Users(ProcOf[h])
  BY DEF Users
<1>4. Using(handle[h]) => slot(h).ref # 0
  BY <1>2, <1>3, CountIsNat
<1>5. ASSUME slot(h).ref = 1, Using(handle[h]), NEW g \in Handles, g # h,
             ProcOf[g] = ProcOf[h], Using(handle[g])
      PROVE  FALSE
  <2>1. g \in Users(ProcOf[h])
    BY <1>5 DEF Users
  <2>0. PICK S : S = Users(ProcOf[h])
    OBVIOUS
  <2>2. IsFiniteSet(S) /\ h \in S /\ Cardinality(S) = 1
    BY <1>2, <1>3, <1>5, <2>0, UsersFinite
  <2>4. Cardinality(S \ {h}) = 0 /\ IsFiniteSet(S \ {h})
    BY <2>2, FS_RemoveElement
  <2>3. Users(ProcOf[h]) \ {h} = {}
    BY <2>0, <2>4, FS_EmptySet
  <2> QED
    BY <1>5, <2>1, <2>3
<1> QED
  BY <1>1, <1>4, <1>5

\* An id that is taken is a new one.
LEMMA IdTaken ==
    ASSUME IInv, NEW h \in Handles, Using(handle[h]), TakeId(h)
    PROVE  /\ \E s \in SlotRec : /\ SetSlot(h, s)
                                /\ s.ref = slot(h).ref /\ s.ready = slot(h).ready
           /\ hist' \in HistRec /\ hist'.robbed = hist.robbed
           /\ NextId(slot(h)) \in 1..MaxId
           /\ IdsBelow' /\ IdsGivenOnce'
<1> DEFINE p == ProcOf[h]
           n == NextId(slot(h))
           s == [slot(h) EXCEPT !.biggest = n]
<1>t. Types /\ SlotCounts /\ hist \in HistRec /\ hist.used[p] \in SUBSET (1..MaxId)
  <2>1. Types /\ SlotCounts /\ p \in Procs
    BY UsedSlot DEF IInv
  <2> QED
    BY <2>1 DEF Types, HistRec
<1>1. p \in Procs /\ slot(h) \in SlotRec /\ slot(h).ref # 0 /\ slot(h).biggest \in Nat
  BY <1>t, UsedSlot DEF SlotRec
<1>2. n = slot(h).biggest + 1 /\ n \in 1..MaxId
  BY <1>1, OpeningAssumption DEF TakeId, NextId
<1>3. /\ s \in SlotRec /\ SetSlot(h, s) /\ s.biggest = n
      /\ s.ref = slot(h).ref /\ s.ready = slot(h).ready
  BY <1>1, <1>2 DEF TakeId, SlotRec
<1> HIDE DEF s
<1>4. \A q \in Procs : /\ proc'[q].slot = IF q = p THEN s ELSE proc[q].slot
                      /\ proc'[q].saved = proc[q].saved
  BY <1>t, <1>3, OneSlot
<1>5. n \notin hist.used[p]
  BY <1>1, <1>2 DEF IInv, IdsBelow, slot
<1> HIDE DEF n
<1>6. PICK u \in [Procs -> SUBSET (1..MaxId)], b \in BOOLEAN :
         /\ hist' = [hist EXCEPT !.used = u, !.twice = b]
         /\ b = (hist.twice \/ n \in hist.used[p])
         /\ \A q \in Procs : u[q] = IF q = p THEN hist.used[q] \union {n} ELSE hist.used[q]
  <2> DEFINE u == [hist.used EXCEPT ![p] = @ \union {n}]
             b == hist.twice \/ n \in hist.used[p]
  <2>1. hist.used \in [Procs -> SUBSET (1..MaxId)] /\ hist.twice \in BOOLEAN
    BY <1>t DEF HistRec
  <2>2. u \in [Procs -> SUBSET (1..MaxId)] /\ b \in BOOLEAN
        /\ \A q \in Procs : u[q] = IF q = p THEN hist.used[q] \union {n} ELSE hist.used[q]
    BY <1>1, <1>2, <2>1
  <2>3. hist' = [hist EXCEPT !.used = u, !.twice = b]
    BY <1>t DEF TakeId, n, HistRec
  <2> QED
    BY <2>2, <2>3
<1>7. /\ hist' \in HistRec /\ hist'.robbed = hist.robbed
      /\ hist'.used = u /\ hist'.twice = b
  BY <1>t, <1>6 DEF HistRec
<1>8. IdsGivenOnce'
  BY <1>5, <1>6, <1>7 DEF IInv, IdsGivenOnce
<1>9. IdsBelow'
  <2> SUFFICES ASSUME NEW q \in Procs, NEW id \in u[q]
               PROVE  IF proc'[q].slot.ref = 0 THEN id < proc'[q].saved
                      ELSE id <= proc'[q].slot.biggest
    BY <1>7 DEF IdsBelow
  <2>1. CASE q = p
    <3>1. id = n \/ (id \in hist.used[p] /\ id \in Nat)
      BY <1>t, <1>6, <2>1, OpeningAssumption
    <3>2. id \in hist.used[p] => id <= slot(h).biggest
      BY <1>1 DEF IInv, IdsBelow, slot
    <3> QED
      BY <1>1, <1>2, <1>3, <1>4, <2>1, <3>1, <3>2
  <2>2. CASE q # p
    BY <1>4, <1>6, <2>2 DEF IInv, IdsBelow
  <2> QED
    BY <2>1, <2>2
<1> QED
  BY <1>2, <1>3, <1>7, <1>8, <1>9 DEF n


LEMMA Acquires ==
    ASSUME IInv, NEW h \in Handles, Acquire(h)
    PROVE  IInv'
<1>t. Types /\ SlotCounts /\ AllSound /\ handle[h] \in HandleRec
  BY DEF IInv, Types
<1>u. ProcOf[h] \in Procs /\ proc[ProcOf[h]] \in ProcRec /\ slot(h) \in SlotRec
  BY <1>t, UsedSlot
<1>1. \E r \in HandleRec, s \in SlotRec :
         /\ handle' = [handle EXCEPT ![h] = r] /\ SetSlot(h, s)
         /\ r.holds = handle[h].holds /\ Using(r) /\ Sound(r) /\ ~Using(handle[h])
         /\ s.ref = slot(h).ref + 1
         /\ \/ slot(h).ref = 0 /\ s.biggest = proc[ProcOf[h]].saved /\ ~Working(r)
            \/ slot(h).ref > 0 /\ s.biggest = slot(h).biggest /\ s.ready /\ slot(h).ready
  <2>1. handle[h].pc = "acquire"
    BY DEF Acquire, At
  <2>2. CASE slot(h).ref = 0
    <3> DEFINE r == [handle[h] EXCEPT !.pc = "load"]
               s == [NoSlot EXCEPT !.ref = 1, !.biggest = proc[ProcOf[h]].saved,
                                   !.kept = handle[h].holds]
    <3>1. r \in HandleRec /\ handle' = [handle EXCEPT ![h] = r] /\ r.pc = "load"
          /\ r.holds = handle[h].holds
      BY <1>t, <2>2 DEF Acquire, Goto, HandleRec
    <3>2. s \in SlotRec /\ s.ref = 1 /\ s.biggest = proc[ProcOf[h]].saved
      BY <1>t, <1>u DEF NoSlot, SlotRec, ProcRec, HandleRec
    <3>3. SetSlot(h, s)
      BY <2>2 DEF Acquire
    <3> HIDE DEF r, s
    <3>4. Using(r) /\ Sound(r) /\ ~Using(handle[h]) /\ ~Working(r) /\ s.ref = slot(h).ref + 1
      BY <2>1, <2>2, <3>1, <3>2 DEF Using, Working, Sound
    <3> QED
      BY <2>2, <3>1, <3>2, <3>3, <3>4
  <2>3. CASE slot(h).ref > 0
    <3> DEFINE r == [handle[h] EXCEPT !.pc = "open", !.opening = FALSE]
               s == [slot(h) EXCEPT !.ref = @ + 1]
    <3>0. slot(h).ref # 0 /\ slot(h).ready
      BY <1>u, <2>3 DEF Acquire, SlotRec
    <3>1. r \in HandleRec /\ handle' = [handle EXCEPT ![h] = r] /\ r.pc = "open"
          /\ r.holds = handle[h].holds /\ ~r.opening
      BY <1>t, <3>0 DEF Acquire, HandleRec
    <3>2. s \in SlotRec /\ s.ref = slot(h).ref + 1 /\ s.biggest = slot(h).biggest /\ s.ready
          /\ SetSlot(h, s)
      BY <1>u, <3>0 DEF Acquire, SlotRec
    <3> HIDE DEF r, s
    <3> QED
      BY <2>1, <2>3, <3>0, <3>1, <3>2 DEF Using, Working, Sound
  <2> QED
    BY <1>u, <2>2, <2>3 DEF SlotRec
<1>2. PICK r \in HandleRec, s \in SlotRec :
         /\ handle' = [handle EXCEPT ![h] = r] /\ SetSlot(h, s)
         /\ r.holds = handle[h].holds /\ Using(r) /\ Sound(r) /\ ~Using(handle[h])
         /\ s.ref = slot(h).ref + 1
         /\ \/ slot(h).ref = 0 /\ s.biggest = proc[ProcOf[h]].saved /\ ~Working(r)
            \/ slot(h).ref > 0 /\ s.biggest = slot(h).biggest /\ s.ready /\ slot(h).ready
  BY <1>1
<1>3. /\ handle' \in [Handles -> HandleRec]
      /\ \A g \in Handles : handle'[g] = IF g = h THEN r ELSE handle[g]
  BY <1>t, <1>2, OneHandle
<1>4. /\ proc' \in [Procs -> ProcRec]
      /\ \A p \in Procs : /\ proc'[p].slot = IF p = ProcOf[h] THEN s ELSE proc[p].slot
                          /\ proc'[p].saved = proc[p].saved
  BY <1>t, <1>2, OneSlot
<1>5. lockFile' = lockFile /\ payload' = payload /\ disk' = disk /\ hist' = hist
  BY DEF Acquire
<1>6. Types'
  BY <1>t, <1>3, <1>4, <1>5 DEF Types
<1>7. LockIsMine'
  BY <1>2, <1>3, <1>5, LockKept DEF IInv
<1>8. SlotCounts'
  <2>1. \A p \in Procs : Cardinality(Users(p)') = IF p = ProcOf[h] THEN Cardinality(Users(p)) + 1
                                                     ELSE Cardinality(Users(p))
    BY <1>2, <1>3, UsersMore
  <2>2. slot(h).ref = Cardinality(Users(ProcOf[h]))
    BY <1>t, <1>u DEF SlotCounts, slot
  <2> QED
    BY <1>t, <1>2, <1>4, <2>1, <2>2 DEF SlotCounts
<1>9. SlotReady'
  <2> SUFFICES ASSUME NEW g \in Handles, Working(handle'[g])
               PROVE  proc'[ProcOf[g]].slot.ready
    BY DEF SlotReady, slot
  <2>0. ProcOf[g] \in Procs
    BY OpeningAssumption
  <2>1. CASE slot(h).ref = 0
    <3>1. ~Using(handle[g]) \/ ProcOf[g] # ProcOf[h]
      <4>1. ProcOf[g] = ProcOf[h] => slot(g) = slot(h)
        BY DEF slot
      <4> QED
        BY <1>t, <2>1, <4>1, UsedSlot
    <3>2. g # h /\ Working(handle[g]) /\ Using(handle[g])
      BY <1>u, <1>2, <1>3, <2>1 DEF Working, Using, SlotRec
    <3> QED
      BY <1>4, <2>0, <3>1, <3>2 DEF IInv, SlotReady, slot
  <2>2. CASE slot(h).ref > 0
    <3>1. s.ready /\ slot(h).ready
      BY <1>u, <1>2, <2>2 DEF SlotRec
    <3>2. g # h => slot(g).ready
      BY <1>3 DEF IInv, SlotReady
    <3> QED
      BY <1>4, <2>0, <3>1, <3>2 DEF slot
  <2> QED
    BY <1>u, <2>1, <2>2 DEF SlotRec
<1>10. AllSound'
  BY <1>t, <1>2, <1>3 DEF AllSound
<1>11. IdsBelow'
  <2> SUFFICES ASSUME NEW p \in Procs, NEW id \in hist.used[p]
               PROVE  IF proc'[p].slot.ref = 0 THEN id < proc'[p].saved
                      ELSE id <= proc'[p].slot.biggest
    BY <1>5 DEF IdsBelow
  <2>0. id \in Nat /\ hist.used[p] \subseteq Nat
    BY <1>t, OpeningAssumption DEF Types, HistRec
  <2>1. CASE p # ProcOf[h]
    BY <1>4, <2>1 DEF IInv, IdsBelow
  <2>2. CASE p = ProcOf[h]
    <3>1. proc'[p].slot = s /\ s.ref # 0 /\ proc[p].slot = slot(h)
      BY <1>u, <1>2, <1>4, <2>2 DEF SlotRec, slot
    <3>2. IF slot(h).ref = 0 THEN id < proc[p].saved ELSE id <= slot(h).biggest
      BY <3>1 DEF IInv, IdsBelow
    <3> QED
      BY <1>u, <1>2, <2>0, <2>2, <3>1, <3>2 DEF SlotRec, ProcRec
  <2> QED
    BY <2>1, <2>2
<1> QED
  BY <1>5, <1>6, <1>7, <1>8, <1>9, <1>10, <1>11 DEF IInv, IdsGivenOnce


\* Steps that change a slot, its references apart, and leave its users as they are.
SlotStep(h) == Load(h) \/ CreateActive(h) \/ Append(h) \/ MergeAway(h) \/ CloseWriteFile(h)

\* What such a step does.
Tunes(h, r, s) ==
    /\ handle' = [handle EXCEPT ![h] = r] /\ SetSlot(h, s)
    /\ Using(r) /\ Using(handle[h]) /\ Sound(r)
    /\ s.ref = slot(h).ref /\ s.ready /\ s.biggest >= slot(h).biggest

LEMMA Loads ==
    ASSUME IInv, NEW h \in Handles, Load(h)
    PROVE  /\ \E r \in HandleRec, s \in SlotRec : Tunes(h, r, s) /\ r.holds = handle[h].holds
           /\ lockFile' = lockFile /\ payload' = payload /\ hist' = hist
           /\ disk' \in [files : SUBSET (1..MaxId), writes : 0..MaxWrites]
<1>t. /\ handle[h] \in HandleRec /\ disk \in [files : SUBSET (1..MaxId), writes : 0..MaxWrites]
      /\ slot(h) \in SlotRec /\ MaxWrites \in Nat
  BY UsedSlot, OpeningAssumption DEF IInv, Types
<1> DEFINE r == [handle[h] EXCEPT !.pc = "open", !.opening = FALSE]
           b == Max({slot(h).biggest} \union disk.files)
           s == [slot(h) EXCEPT !.ready = TRUE, !.known = 1..disk.writes, !.biggest = b]
<1>1. r \in HandleRec /\ handle' = [handle EXCEPT ![h] = r] /\ r.pc = "open" /\ ~r.opening
      /\ r.holds = handle[h].holds /\ handle[h].pc = "load"
  BY <1>t DEF Load, At, HandleRec
<1>2. b \in Nat /\ b >= slot(h).biggest
  BY <1>t, MaxWithFiles DEF SlotRec
<1>3. 1..disk.writes \in SUBSET (1..MaxWrites)
  BY <1>t
<1>4. SetSlot(h, s)
  BY <1>t DEF Load, SlotRec
<1> HIDE DEF b
<1>5. s \in SlotRec /\ s.ref = slot(h).ref /\ s.ready /\ s.biggest >= slot(h).biggest
  BY <1>t, <1>2, <1>3 DEF SlotRec
<1> HIDE DEF r, s
<1> QED
  BY <1>t, <1>1, <1>4, <1>5 DEF Load, Tunes, Using, Sound

LEMMA TakesId ==
    ASSUME IInv, NEW h \in Handles, CreateActive(h) \/ MergeAway(h)
    PROVE  /\ \E r \in HandleRec, s \in SlotRec : Tunes(h, r, s) /\ r.holds = handle[h].holds
           /\ lockFile' = lockFile /\ payload' = payload
           /\ disk' \in [files : SUBSET (1..MaxId), writes : 0..MaxWrites]
<1>t. /\ handle[h] \in HandleRec /\ disk \in [files : SUBSET (1..MaxId), writes : 0..MaxWrites]
      /\ slot(h) \in SlotRec /\ Sound(handle[h]) /\ 0 \in 0..MaxId /\ 1..MaxId \subseteq 0..MaxId
  BY UsedSlot, OpeningAssumption DEF IInv, Types, AllSound
<1>1. Using(handle[h]) /\ Working(handle[h]) /\ TakeId(h)
  BY <1>t DEF CreateActive, MergeAway, At, Using, Working
<1>2. NextId(slot(h)) \in 1..MaxId
  BY <1>1, IdTaken
<1> DEFINE s == [slot(h) EXCEPT !.biggest = NextId(slot(h))]
<1>3. s \in SlotRec /\ SetSlot(h, s) /\ s.ref = slot(h).ref /\ s.ready = slot(h).ready
      /\ s.biggest >= slot(h).biggest
  BY <1>t, <1>1, <1>2 DEF TakeId, SlotRec, NextId
<1>4. s.ready
  BY <1>1, <1>3 DEF IInv, SlotReady
<1> HIDE DEF s
<1>5. CASE MergeAway(h)
  <2>1. handle' = [handle EXCEPT ![h] = handle[h]]
    BY <1>5 DEF MergeAway, IInv, Types
  <2> QED
    BY <1>t, <1>1, <1>3, <1>4, <1>5, <2>1 DEF MergeAway, Tunes
<1>6. CASE CreateActive(h)
  <2>1. \E r \in HandleRec : /\ handle' = [handle EXCEPT ![h] = r]
                            /\ r.pc = "open" /\ r.holds = handle[h].holds
                            /\ r.opening = handle[h].opening
    <3>1. CASE NextId(slot(h)) \notin disk.files
      <4> DEFINE r == [handle[h] EXCEPT !.pc = "open", !.active = NextId(slot(h))]
      <4>1. r \in HandleRec /\ r.pc = "open" /\ r.holds = handle[h].holds
            /\ r.opening = handle[h].opening
        BY <1>t, <1>2 DEF HandleRec
      <4>2. handle' = [handle EXCEPT ![h] = r]
        BY <1>6, <3>1 DEF CreateActive
      <4> QED
        BY <4>1, <4>2
    <3>2. CASE NextId(slot(h)) \in disk.files
      <4> DEFINE r == [handle[h] EXCEPT !.pc = "open"]
      <4>1. r \in HandleRec /\ r.pc = "open" /\ r.holds = handle[h].holds
            /\ r.opening = handle[h].opening
        BY <1>t DEF HandleRec
      <4>2. handle' = [handle EXCEPT ![h] = r]
        BY <1>6, <3>2 DEF CreateActive, Goto
      <4> QED
        BY <4>1, <4>2
    <3> QED
      BY <3>1, <3>2
  <2>2. disk' \in [files : SUBSET (1..MaxId), writes : 0..MaxWrites]
    BY <1>t, <1>2, <1>6 DEF CreateActive
  <2>3. handle[h].pc = "active"
    BY <1>6 DEF CreateActive, At
  <2> QED
    BY <1>t, <1>1, <1>3, <1>4, <1>6, <2>1, <2>2, <2>3 DEF CreateActive, Tunes, Using, Sound
<1> QED
  BY <1>5, <1>6

LEMMA OpenSteps ==
    ASSUME IInv, NEW h \in Handles, Append(h) \/ CloseWriteFile(h)
    PROVE  /\ \E r \in HandleRec, s \in SlotRec :
                 Tunes(h, r, s) /\ (r.holds => handle[h].holds /\ lockFile' = lockFile)
           /\ ~handle[h].holds => lockFile' = lockFile
           /\ lockFile' \in Handles \union {None}
           /\ payload' \in {Empty} \union (Procs \X (1..MaxPid))
           /\ hist' = hist
           /\ disk' \in [files : SUBSET (1..MaxId), writes : 0..MaxWrites]
<1>t. /\ handle[h] \in HandleRec /\ disk \in [files : SUBSET (1..MaxId), writes : 0..MaxWrites]
      /\ slot(h) \in SlotRec /\ Sound(handle[h]) /\ 0 \in 0..MaxId /\ MaxWrites \in Nat
      /\ handle \in [Handles -> HandleRec]
      /\ lockFile \in Handles \union {None}
      /\ payload \in {Empty} \union (Procs \X (1..MaxPid))
  BY UsedSlot, OpeningAssumption DEF IInv, Types, AllSound
<1>1. handle[h].pc = "open" /\ slot(h).ready
  BY DEF IInv, SlotReady, Working, Append, CloseWriteFile, At
<1>2. CASE Append(h)
  <2> DEFINE s == [slot(h) EXCEPT !.known = @ \union {disk.writes + 1}]
  <2>1. s \in SlotRec /\ SetSlot(h, s) /\ s.ref = slot(h).ref /\ s.ready = slot(h).ready
        /\ s.biggest = slot(h).biggest
    BY <1>t, <1>2 DEF Append, SlotRec
  <2>2. handle' = [handle EXCEPT ![h] = handle[h]] /\ s.biggest >= slot(h).biggest
    BY <1>t, <1>2, <2>1 DEF Append, SlotRec
  <2>3. disk' \in [files : SUBSET (1..MaxId), writes : 0..MaxWrites]
    BY <1>t, <1>2 DEF Append
  <2> HIDE DEF s
  <2> QED
    BY <1>t, <1>1, <1>2, <2>1, <2>2, <2>3 DEF Append, Tunes, Using
<1>3. CASE CloseWriteFile(h)
  <2> DEFINE r == [handle[h] EXCEPT !.active = 0, !.holds = FALSE]
             s == [slot(h) EXCEPT !.kept = @ /\ ~handle[h].holds]
  <2>1. r \in HandleRec /\ handle' = [handle EXCEPT ![h] = r] /\ r.pc = "open"
        /\ r.opening = handle[h].opening /\ ~r.holds
    BY <1>t, <1>1, <1>3 DEF CloseWriteFile, HandleRec
  <2>2. (slot(h).kept /\ ~handle[h].holds) \in BOOLEAN
    BY <1>t DEF SlotRec, HandleRec
  <2>4. SetSlot(h, s)
    BY <1>t, <1>3 DEF CloseWriteFile, SlotRec
  <2>3. PICK b \in BOOLEAN : s = [slot(h) EXCEPT !.kept = b]
    BY <1>t, <2>2 DEF SlotRec
  <2> HIDE DEF r, s
  <2>5. s \in SlotRec /\ s.ref = slot(h).ref /\ s.ready = slot(h).ready
        /\ s.biggest >= slot(h).biggest
    BY <1>t, <2>3 DEF SlotRec
  <2>6. handle'[h] = r
    BY <1>t, <2>1
  <2> QED
    BY <1>t, <1>1, <1>3, <2>1, <2>4, <2>5, <2>6 DEF CloseWriteFile, DropLock, Tunes, Using, Sound
<1> QED
  BY <1>2, <1>3


LEMMA SlotStepKeeps ==
    ASSUME IInv, NEW h \in Handles, SlotStep(h)
    PROVE  IInv'
<1>t. /\ Types /\ SlotCounts /\ AllSound /\ hist \in HistRec
      /\ ProcOf[h] \in Procs /\ slot(h) \in SlotRec
  BY UsedSlot DEF IInv, Types
<1>1. /\ \E r \in HandleRec, s \in SlotRec :
            Tunes(h, r, s) /\ (r.holds => handle[h].holds /\ lockFile' = lockFile)
      /\ ~handle[h].holds => lockFile' = lockFile
      /\ lockFile' \in Handles \union {None}
      /\ payload' \in {Empty} \union (Procs \X (1..MaxPid))
      /\ disk' \in [files : SUBSET (1..MaxId), writes : 0..MaxWrites]
  <2>1. lockFile \in Handles \union {None} /\ payload \in {Empty} \union (Procs \X (1..MaxPid))
    BY <1>t DEF Types
  <2> QED
    BY <2>1, Loads, TakesId, OpenSteps DEF SlotStep
<1>2. PICK r \in HandleRec, s \in SlotRec :
         Tunes(h, r, s) /\ (r.holds => handle[h].holds /\ lockFile' = lockFile)
  BY <1>1
<1>3. /\ handle' \in [Handles -> HandleRec]
      /\ \A g \in Handles : handle'[g] = IF g = h THEN r ELSE handle[g]
  BY <1>t, <1>2, OneHandle DEF Tunes
<1>4. /\ proc' \in [Procs -> ProcRec]
      /\ \A p \in Procs : /\ proc'[p].slot = IF p = ProcOf[h] THEN s ELSE proc[p].slot
                          /\ proc'[p].saved = proc[p].saved
  BY <1>t, <1>2, OneSlot DEF Tunes
<1>5. hist' \in HistRec /\ hist'.robbed = hist.robbed /\ IdsGivenOnce' /\ IdsBelow'
  <2>1. CASE CreateActive(h) \/ MergeAway(h)
    <3>1. TakeId(h) /\ Using(handle[h])
      BY <1>2, <2>1 DEF CreateActive, MergeAway, Tunes
    <3> QED
      BY <3>1, IdTaken
  <2>2. CASE Load(h) \/ Append(h) \/ CloseWriteFile(h)
    <3>1. hist' = hist
      BY <2>2 DEF Load, Append, CloseWriteFile
    <3>2. IdsBelow'
      <4> SUFFICES ASSUME NEW p \in Procs, NEW id \in hist.used[p]
                   PROVE  IF proc'[p].slot.ref = 0 THEN id < proc'[p].saved
                          ELSE id <= proc'[p].slot.biggest
        BY <3>1 DEF IdsBelow
      <4>0. id \in Nat
        BY <1>t, OpeningAssumption DEF HistRec
      <4>1. CASE p # ProcOf[h]
        BY <1>4, <4>1 DEF IInv, IdsBelow
      <4>2. CASE p = ProcOf[h]
        <5>1. proc'[p].slot = s /\ proc[p].slot = slot(h) /\ s.ref = slot(h).ref
              /\ s.biggest >= slot(h).biggest
          BY <1>2, <1>4, <4>2 DEF Tunes, slot
        <5>2. slot(h).ref # 0
          BY <1>t, <1>2, UsedSlot DEF Tunes
        <5>3. id <= slot(h).biggest
          BY <5>1, <5>2 DEF IInv, IdsBelow
        <5> QED
          BY <1>t, <4>0, <5>1, <5>2, <5>3 DEF SlotRec
      <4> QED
        BY <4>1, <4>2
    <3> QED
      BY <1>t, <3>1, <3>2 DEF IInv, IdsGivenOnce
  <2> QED
    BY <2>1, <2>2 DEF SlotStep
<1>6. Types'
  BY <1>1, <1>3, <1>4, <1>5 DEF Types
<1>7. LockIsMine'
  <2> SUFFICES ASSUME ~hist.robbed, NEW g \in Handles, handle'[g].holds
               PROVE  lockFile' = g
    BY <1>5 DEF LockIsMine
  <2>1. handle[g].holds
    BY <1>2, <1>3
  <2>2. lockFile = g
    BY <2>1 DEF IInv, LockIsMine
  <2>3. g # h => ~handle[h].holds
    BY <2>2 DEF IInv, LockIsMine
  <2> QED
    BY <1>1, <1>2, <1>3, <2>2, <2>3
<1>8. SlotCounts'
  <2>1. \A p \in Procs : Users(p)' = Users(p)
    BY <1>2, <1>3, UsersKept DEF Tunes
  <2>2. \A p \in Procs : proc'[p].slot.ref = proc[p].slot.ref
    BY <1>2, <1>4 DEF Tunes, slot
  <2> QED
    BY <1>t, <2>1, <2>2 DEF SlotCounts
<1>9. SlotReady'
  <2> SUFFICES ASSUME NEW g \in Handles, Working(handle'[g])
               PROVE  proc'[ProcOf[g]].slot.ready
    BY DEF SlotReady, slot
  <2>1. ProcOf[g] \in Procs
    BY OpeningAssumption
  <2>2. ProcOf[g] # ProcOf[h] => proc[ProcOf[g]].slot.ready
    BY <1>3 DEF IInv, SlotReady, slot
  <2> QED
    BY <1>2, <1>4, <2>1, <2>2 DEF Tunes
<1>10. AllSound'
  BY <1>t, <1>2, <1>3 DEF AllSound, Tunes
<1> QED
  BY <1>5, <1>6, <1>7, <1>8, <1>9, <1>10 DEF IInv

-----------------------------------------------------------------------------
(* The last steps of a handle, and the death of a process.                 *)

LEMMA Releases ==
    ASSUME IInv, NEW h \in Handles, Release(h)
    PROVE  IInv'
<1> DEFINE p == ProcOf[h]
           r == [handle[h] EXCEPT !.pc = "unlock"]
<1>t. /\ Types /\ SlotCounts /\ AllSound /\ hist \in HistRec /\ handle[h] \in HandleRec
      /\ p \in Procs /\ proc[p] \in ProcRec /\ slot(h) \in SlotRec /\ slot(h) = proc[p].slot
  BY UsedSlot DEF IInv, Types, slot
<1>1. r \in HandleRec /\ handle' = [handle EXCEPT ![h] = r] /\ r.pc = "unlock"
      /\ r.holds = handle[h].holds /\ handle[h].pc = "release"
  BY <1>t DEF Release, Goto, At, HandleRec
<1> HIDE DEF r
<1>2. ~Using(r) /\ Sound(r) /\ ~Working(r) /\ Using(handle[h])
  BY <1>1 DEF Using, Sound, Working
<1>3. /\ handle' \in [Handles -> HandleRec]
      /\ \A g \in Handles : handle'[g] = IF g = h THEN r ELSE handle[g]
  BY <1>t, <1>1, OneHandle
<1>4. lockFile' = lockFile /\ payload' = payload /\ disk' = disk /\ hist' = hist
  BY DEF Release
<1>5. slot(h).ref \in Nat /\ slot(h).ref # 0
  BY <1>t, <1>2, UsedSlot DEF SlotRec
<1>6. PICK q \in ProcRec :
         /\ proc' = [proc EXCEPT ![p] = q]
         /\ q.slot.ref = slot(h).ref - 1 /\ q.saved >= proc[p].saved
         /\ slot(h).ref > 1 =>
              q.slot.ready = slot(h).ready /\ q.slot.biggest = slot(h).biggest /\ q.saved = proc[p].saved
         /\ slot(h).ref = 1 => q.saved > slot(h).biggest
  <2>1. CASE slot(h).ref > 1
    <3> DEFINE s == [slot(h) EXCEPT !.ref = @ - 1]
               q == [proc[p] EXCEPT !.slot = s]
    <3>1. s \in SlotRec /\ s.ref = slot(h).ref - 1 /\ s.ready = slot(h).ready
          /\ s.biggest = slot(h).biggest
      BY <1>t, <2>1 DEF SlotRec
    <3>2. proc' = [proc EXCEPT ![p] = q]
      <4>1. proc' = [proc EXCEPT ![p] = [proc[p] EXCEPT !.slot.ref = slot(h).ref - 1]]
        BY <2>1 DEF Release
      <4>2. [proc[p] EXCEPT !.slot.ref = slot(h).ref - 1] = q
        BY <1>t DEF ProcRec, SlotRec
      <4> QED
        BY <4>1, <4>2
    <3> HIDE DEF s
    <3>3. q \in ProcRec /\ q.slot = s /\ q.saved = proc[p].saved /\ q.saved \in Nat
      BY <1>t, <3>1 DEF ProcRec
    <3> HIDE DEF q
    <3>4. q.slot.ref = slot(h).ref - 1 /\ q.saved >= proc[p].saved /\ slot(h).ref # 1
      BY <2>1, <3>1, <3>3
    <3> QED
      BY <3>1, <3>2, <3>3, <3>4
  <2>2. CASE slot(h).ref = 1
    <3> DEFINE k == Kept(p)
               q == [proc[p] EXCEPT !.slot = NoSlot, !.saved = k]
    <3>1. k \in Nat /\ k >= proc[p].saved /\ k >= slot(h).biggest + 1
      <4>1. proc[p].saved \in Nat /\ slot(h).biggest + 1 \in Nat
        BY <1>t DEF ProcRec, SlotRec
      <4> QED
        BY <1>t, <4>1, MaxOfTwo DEF Kept
    <3>2. proc' = [proc EXCEPT ![p] = q]
      BY <1>t, <2>2 DEF Release
    <3> HIDE DEF k
    <3>3. q \in ProcRec /\ q.slot = NoSlot /\ q.saved = k
      BY <1>t, <3>1 DEF ProcRec, NoSlot, SlotRec
    <3>4. k > slot(h).biggest
      BY <1>t, <3>1 DEF SlotRec
    <3> HIDE DEF q
    <3>5. q.slot.ref = slot(h).ref - 1 /\ q.saved >= proc[p].saved /\ ~(slot(h).ref > 1)
      BY <2>2, <3>1, <3>3 DEF NoSlot
    <3> QED
      BY <3>2, <3>3, <3>4, <3>5
  <2> QED
    BY <1>5, <2>1, <2>2
<1>7. /\ proc' \in [Procs -> ProcRec]
      /\ \A x \in Procs : proc'[x] = IF x = p THEN q ELSE proc[x]
  BY <1>t, <1>6 DEF Types
<1>8. Types' /\ LockIsMine' /\ AllSound' /\ IdsGivenOnce'
  <2>1. LockIsMine'
    BY <1>1, <1>3, <1>4, LockKept DEF IInv
  <2> QED
    BY <1>t, <1>2, <1>3, <1>4, <1>7, <2>1 DEF IInv, Types, AllSound, IdsGivenOnce
<1>9. SlotCounts'
  <2>1. \A x \in Procs : Cardinality(Users(x)') = IF x = p THEN Cardinality(Users(x)) - 1
                                                     ELSE Cardinality(Users(x))
    BY <1>2, <1>3, UsersLess
  <2> QED
    BY <1>t, <1>6, <1>7, <2>1 DEF SlotCounts
<1>10. SlotReady'
  <2> SUFFICES ASSUME NEW g \in Handles, Working(handle'[g])
               PROVE  proc'[ProcOf[g]].slot.ready
    BY DEF SlotReady, slot
  <2>1. ProcOf[g] \in Procs
    BY OpeningAssumption
  <2>2. g # h /\ Working(handle[g]) /\ Using(handle[g])
    BY <1>2, <1>3 DEF Working, Using
  <2>3. slot(g).ready
    BY <2>2 DEF IInv, SlotReady
  <2>4. CASE ProcOf[g] # p
    BY <1>7, <2>1, <2>3, <2>4 DEF slot
  <2>5. CASE ProcOf[g] = p
    <3>1. slot(h).ref # 1
      BY <1>t, <1>2, <2>2, <2>5, UsedSlot
    <3>2. slot(h).ref > 1
      BY <1>5, <3>1
    <3> QED
      BY <1>6, <1>7, <2>1, <2>3, <2>5, <3>2 DEF slot
  <2> QED
    BY <2>4, <2>5
<1>11. IdsBelow'
  <2> SUFFICES ASSUME NEW x \in Procs, NEW id \in hist.used[x]
               PROVE  IF proc'[x].slot.ref = 0 THEN id < proc'[x].saved
                      ELSE id <= proc'[x].slot.biggest
    BY <1>4 DEF IdsBelow
  <2>0. id \in Nat
    BY <1>t, OpeningAssumption DEF HistRec
  <2>1. CASE x # p
    BY <1>7, <2>1 DEF IInv, IdsBelow
  <2>2. CASE x = p
    <3>1. id <= slot(h).biggest
      BY <1>t, <1>5, <2>2 DEF IInv, IdsBelow
    <3>2. q.saved \in Nat /\ slot(h).biggest \in Nat
      BY <1>t, <1>6 DEF ProcRec, SlotRec
    <3>3. slot(h).ref > 1 \/ slot(h).ref = 1
      BY <1>5
    <3> QED
      BY <1>6, <1>7, <2>0, <2>2, <3>1, <3>2, <3>3, <1>5
  <2> QED
    BY <2>1, <2>2
<1> QED
  BY <1>8, <1>9, <1>10, <1>11 DEF IInv

LEMMA Unlocks ==
    ASSUME IInv, NEW h \in Handles, Unlock(h)
    PROVE  IInv'
<1>t. /\ Types /\ SlotCounts /\ AllSound /\ hist \in HistRec /\ handle[h] \in HandleRec
      /\ ProcOf[h] \in Procs /\ slot(h) \in SlotRec
  BY UsedSlot DEF IInv, Types
<1>0. Closed \in HandleRec /\ ~Closed.holds /\ Closed.pc = "closed"
  BY OpeningAssumption DEF Closed, HandleRec
<1>1. handle' = [handle EXCEPT ![h] = Closed] /\ handle[h].pc = "unlock"
      /\ disk' = disk /\ hist' = hist
  BY DEF Unlock, At
<1>2. ~Using(Closed) /\ Sound(Closed) /\ ~Working(Closed) /\ ~Using(handle[h])
  BY <1>0, <1>1 DEF Using, Sound, Working
<1>3. /\ handle' \in [Handles -> HandleRec]
      /\ \A g \in Handles : handle'[g] = IF g = h THEN Closed ELSE handle[g]
  BY <1>t, <1>0, <1>1, OneHandle
<1>4. PICK b \in BOOLEAN : SetSlot(h, [slot(h) EXCEPT !.kept = b])
  <2>1. (slot(h).kept /\ ~handle[h].holds) \in BOOLEAN
    BY <1>t DEF SlotRec, HandleRec
  <2> QED
    BY <1>t, <2>1 DEF Unlock, SlotRec
<1> DEFINE s == [slot(h) EXCEPT !.kept = b]
<1>5. s \in SlotRec /\ s.ref = slot(h).ref /\ s.ready = slot(h).ready /\ s.biggest = slot(h).biggest
  BY <1>t DEF SlotRec
<1>5a. SetSlot(h, s)
  BY <1>4
<1> HIDE DEF s
<1>6. /\ proc' \in [Procs -> ProcRec]
      /\ \A p \in Procs : /\ proc'[p].slot = IF p = ProcOf[h] THEN s ELSE proc[p].slot
                          /\ proc'[p].saved = proc[p].saved
  BY <1>t, <1>5, <1>5a, OneSlot
<1>7. \A p \in Procs : /\ proc'[p].slot.ref = proc[p].slot.ref
                       /\ proc'[p].slot.ready = proc[p].slot.ready
                       /\ proc'[p].slot.biggest = proc[p].slot.biggest
                       /\ proc'[p].saved = proc[p].saved
  BY <1>5, <1>6 DEF slot
<1>8. /\ lockFile' \in Handles \union {None}
      /\ payload' \in {Empty} \union (Procs \X (1..MaxPid))
      /\ ~handle[h].holds => lockFile' = lockFile
  BY <1>t DEF Unlock, DropLock, Types
<1>9. Types' /\ AllSound' /\ IdsGivenOnce'
  BY <1>t, <1>1, <1>2, <1>3, <1>6, <1>8 DEF IInv, Types, AllSound, IdsGivenOnce
<1>10. LockIsMine'
  <2> SUFFICES ASSUME ~hist.robbed, NEW g \in Handles, handle'[g].holds
               PROVE  lockFile' = g
    BY <1>1 DEF LockIsMine
  <2>1. g # h /\ handle[g].holds /\ lockFile = g
    BY <1>0, <1>3 DEF IInv, LockIsMine
  <2>2. ~handle[h].holds
    BY <2>1 DEF IInv, LockIsMine
  <2> QED
    BY <1>8, <2>1, <2>2
<1>11. SlotCounts'
  <2>1. \A p \in Procs : Users(p)' = Users(p)
    BY <1>2, <1>3, UsersKept
  <2> QED
    BY <1>t, <1>7, <2>1 DEF SlotCounts
<1>12. SlotReady'
  <2>1. ASSUME NEW g \in Handles, Working(handle'[g])
        PROVE  proc'[ProcOf[g]].slot.ready
    BY <1>2, <1>3, <1>7, <2>1, OpeningAssumption DEF IInv, SlotReady, slot
  <2> QED
    BY <2>1 DEF SlotReady, slot
<1>13. IdsBelow'
  BY <1>1, <1>7 DEF IInv, IdsBelow
<1> QED
  BY <1>9, <1>10, <1>11, <1>12, <1>13 DEF IInv

LEMMA Crashes ==
    ASSUME IInv, NEW p \in Procs, Crash(p)
    PROVE  IInv'
<1> DEFINE q == [pid |-> proc[p].pid + 1, slot |-> NoSlot, saved |-> 0]
           Mine(h) == ProcOf[h] = p
<1>t. /\ Types /\ SlotCounts /\ AllSound /\ hist \in HistRec /\ proc[p] \in ProcRec
      /\ MaxPid \in Nat /\ None \notin Handles
  BY OpeningAssumption DEF IInv, Types, None
<1>0. Closed \in HandleRec /\ ~Closed.holds /\ Closed.pc = "closed"
  BY OpeningAssumption DEF Closed, HandleRec
<1>1. ~Using(Closed) /\ Sound(Closed) /\ ~Working(Closed)
  BY <1>0 DEF Using, Sound, Working
<1>2. /\ handle' \in [Handles -> HandleRec]
      /\ \A g \in Handles : handle'[g] = IF ProcOf[g] = p THEN Closed ELSE handle[g]
  BY <1>t, <1>0 DEF Crash, Types
<1>3. q \in ProcRec /\ q.slot = NoSlot /\ proc' = [proc EXCEPT ![p] = q]
  <2>1. proc[p].pid + 1 \in 1..MaxPid
    BY <1>t DEF Crash, ProcRec
  <2>2. NoSlot \in SlotRec
    BY DEF NoSlot, SlotRec
  <2> QED
    BY <2>1, <2>2 DEF Crash, ProcRec
<1> HIDE DEF q
<1>4. /\ proc' \in [Procs -> ProcRec]
      /\ \A x \in Procs : proc'[x] = IF x = p THEN q ELSE proc[x]
  BY <1>t, <1>3 DEF Types
<1>5. lockFile' = lockFile /\ payload' = payload /\ disk' = disk
  BY DEF Crash
<1>6. /\ hist' \in HistRec /\ hist'.robbed = hist.robbed /\ hist'.twice = hist.twice
      /\ \A x \in Procs : hist'.used[x] = IF x = p THEN {} ELSE hist.used[x]
  <2> DEFINE u == [hist.used EXCEPT ![p] = {}]
  <2>1. hist' = [hist EXCEPT !.used = u]
    BY <1>t DEF Crash, HistRec
  <2>2. /\ u \in [Procs -> SUBSET (1..MaxId)]
        /\ \A x \in Procs : u[x] = IF x = p THEN {} ELSE hist.used[x]
    BY <1>t DEF HistRec
  <2> HIDE DEF u
  <2> QED
    BY <1>t, <2>1, <2>2 DEF HistRec
<1>7. Types' /\ AllSound' /\ IdsGivenOnce'
  BY <1>t, <1>1, <1>2, <1>4, <1>5, <1>6 DEF IInv, Types, AllSound, IdsGivenOnce
<1>8. LockIsMine'
  BY <1>0, <1>2, <1>5, <1>6, LockKept DEF IInv
<1>9. SlotCounts'
  <2> SUFFICES ASSUME NEW x \in Procs
               PROVE  proc'[x].slot.ref = Cardinality(Users(x)')
    BY DEF SlotCounts
  <2>1. CASE x = p
    <3>1. Users(x)' = {}
      BY <1>1, <1>2, <2>1 DEF Users
    <3> QED
      BY <1>3, <1>4, <2>1, <3>1, FS_EmptySet DEF NoSlot
  <2>2. CASE x # p
    <3>1. Users(x)' = Users(x)
      BY <1>2, <2>2 DEF Users
    <3> QED
      BY <1>t, <1>4, <2>2, <3>1 DEF SlotCounts
  <2> QED
    BY <2>1, <2>2
<1>10. SlotReady'
  <2>1. ASSUME NEW g \in Handles, Working(handle'[g])
        PROVE  proc'[ProcOf[g]].slot.ready
    BY <1>1, <1>2, <1>4, <2>1, OpeningAssumption DEF IInv, SlotReady, slot
  <2> QED
    BY <2>1 DEF SlotReady, slot
<1>11. IdsBelow'
  BY <1>4, <1>6 DEF IInv, IdsBelow
<1> QED
  BY <1>7, <1>8, <1>9, <1>10, <1>11 DEF IInv

-----------------------------------------------------------------------------
(* The theorems.                                                           *)

LEMMA InvInit == Init => IInv
<1> SUFFICES ASSUME Init PROVE IInv
  OBVIOUS
<1>1. Types
  BY TypesInit
<1>2. \A h \in Handles : handle[h] = Closed
  BY DEF Init
<1>3. ~Closed.holds /\ Closed.pc = "closed"
  BY DEF Closed
<1>4. LockIsMine
  BY <1>2, <1>3 DEF LockIsMine
<1>5. ASSUME NEW p \in Procs
      PROVE  /\ proc[p].slot.ref = Cardinality(Users(p))
             /\ hist.used[p] = {}
  <2>1. Users(p) = {}
    BY <1>2, <1>3 DEF Users, Using
  <2> QED
    BY <2>1, FS_EmptySet DEF Init, NoSlot
<1>6. SlotReady /\ AllSound
  BY <1>2, <1>3 DEF SlotReady, AllSound, Working, Sound
<1>7. IdsGivenOnce
  BY DEF Init, IdsGivenOnce
<1> QED
  BY <1>1, <1>4, <1>5, <1>6, <1>7 DEF IInv, SlotCounts, IdsBelow

LEMMA InvNext == IInv /\ [Next]_vars => IInv'
<1> SUFFICES ASSUME IInv, [Next]_vars PROVE IInv'
  OBVIOUS
<1>1. CASE UNCHANGED vars
  BY <1>1 DEF vars, IInv, Types, LockIsMine, SlotCounts, SlotReady, AllSound, IdsBelow,
              IdsGivenOnce, Users, slot
<1>2. ASSUME NEW h \in Handles, Alone(h) PROVE IInv'
  BY <1>2, AloneKeeps
<1>3. ASSUME NEW h \in Handles, SlotStep(h) PROVE IInv'
  BY <1>3, SlotStepKeeps
<1>4. ASSUME NEW h \in Handles, Acquire(h) \/ Release(h) \/ Unlock(h) PROVE IInv'
  BY <1>4, Acquires, Releases, Unlocks
<1>5. ASSUME NEW p \in Procs, Crash(p) PROVE IInv'
  BY <1>5, Crashes
<1> QED
  BY <1>1, <1>2, <1>3, <1>4, <1>5 DEF Next, Alone, SlotStep

\* The inductive invariant holds in every state.
THEOREM Invariance == Spec => []IInv
  BY InvInit, InvNext, PTL DEF Spec

\* The write lock is one handle's at a time: as long as no removal of a stale
\* lock took the file of a handle that still has the lock (file_lock.hpp), who
\* has the lock made the file that is there, so nobody else has it.
THEOREM LockIsExclusive == Spec => []MutualExclusion
<1>1. IInv => MutualExclusion
  BY DEF IInv, LockIsMine, MutualExclusion, Holders
<1> QED
  BY <1>1, Invariance, PTL

\* No process gives out a file id twice (keydir_registry.cpp, acquire and
\* release): not over closes and openings, failed ones too, and not after a
\* merge has deleted the file with the biggest id.
THEOREM IdsAreNew == Spec => []IdsGivenOnce
<1>1. IInv => IdsGivenOnce
  BY DEF IInv
<1> QED
  BY <1>1, Invariance, PTL

\* The registry counts the handles that were given a keydir, exactly: one that
\* gave up waiting, or could not load, takes nobody else's keydir away, and an
\* open handle has a loaded one.
THEOREM SlotsAreExact == Spec => []SlotsExact
<1>1. ASSUME IInv PROVE SlotsExact
  <2>1. \A h \in Handles : HasKeydir(h) <=> Using(handle[h])
    BY DEF HasKeydir, Using
  <2>2. ASSUME NEW p \in Procs
        PROVE  {h \in Handles : ProcOf[h] = p /\ HasKeydir(h)} = Users(p)
    BY <2>1 DEF Users
  <2>3. ASSUME NEW p \in Procs, NEW h \in Users(p), handle[h].pc \in {"open", "active"}
        PROVE  proc[p].slot.ready
    BY <1>1, <2>3 DEF Users, IInv, SlotReady, Working, slot
  <2>4. \A p \in Procs : proc[p].slot.ref = Cardinality(Users(p))
    BY <1>1 DEF IInv, SlotCounts
  <2> QED
    BY <2>2, <2>3, <2>4 DEF SlotsExact
<1> QED
  BY <1>1, Invariance, PTL

\* The variables keep their types; a slot has at most one reference a handle.
THEOREM TypeCorrect == Spec => []TypeOK
<1>1. ASSUME IInv PROVE TypeOK
  <2>1. ASSUME NEW p \in Procs
        PROVE  proc[p] \in [pid : 1..MaxPid, saved : Nat,
                            slot : [ref : 0..Cardinality(Handles), ready : BOOLEAN,
                                    known : SUBSET (1..MaxWrites), biggest : Nat,
                                    kept : BOOLEAN]]
    <3>1. proc[p] \in ProcRec /\ proc[p].slot.ref = Cardinality(Users(p))
      BY <1>1 DEF IInv, Types, SlotCounts
    <3>2. Users(p) \subseteq Handles
      BY DEF Users
    <3>3. /\ Cardinality(Users(p)) \in Nat /\ Cardinality(Handles) \in Nat
          /\ Cardinality(Users(p)) <= Cardinality(Handles)
      BY <3>2, FS_Subset, FS_CardinalityType, OpeningAssumption
    <3> QED
      BY <3>1, <3>3 DEF ProcRec, SlotRec
  <2>2. Types
    BY <1>1 DEF IInv
  <2> QED
    BY <2>1, <2>2 DEF Types, TypeOK, HandleRec, HistRec
<1> QED
  BY <1>1, Invariance, PTL
=============================================================================
