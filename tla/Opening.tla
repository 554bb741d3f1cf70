------------------------------ MODULE Opening ------------------------------
(***************************************************************************)
(* How handles on one directory come and go: the write lock file           *)
(* (src/lock/file_lock.cpp, and its stale-lock handling in cask.cpp), the  *)
(* KeyDirRegistry through which the handles of a process share a keydir,   *)
(* and the file ids that keydir gives out.                                 *)
(*                                                                         *)
(* A lock file is named by the handle that created it, which has one at a  *)
(* time.  What it holds is nothing, or the pid of its process.  A write    *)
(* is a number; a keydir is the set of writes it knows, and its biggest    *)
(* file id.  A crash takes a process with its handles and its registry;    *)
(* the process that follows has another pid.                               *)
(***************************************************************************)
EXTENDS Integers, FiniteSets, FiniteSetsExt

CONSTANTS
    Procs,      \* processes that use the directory
    Handles,    \* Casks, at most one open of each at a time
    ProcOf,     \* the process of a handle
    Writing,    \* the handles opened read_write; the others are read-only
    MaxPid,     \* bound: incarnations of a process
    MaxId,      \* bound: file ids
    MaxWrites   \* bound: writes

ASSUME OpeningAssumption ==
    /\ ProcOf \in [Handles -> Procs] /\ Writing \subseteq Handles
    /\ {MaxPid, MaxId, MaxWrites} \subseteq Nat \ {0}
    /\ IsFiniteSet(Handles) /\ "none" \notin Handles    \* None, below

VARIABLES
    lockFile,  \* who created the file at bitcask.write.lock, None if there is none
    payload,   \* what that file holds
    proc,      \* by process: pid, its registry's slot and saved_biggest_file_id_
    handle,    \* by handle: pc, and what it has: the lock, an active file
    disk,      \* data files, and the writes in them
    hist       \* history: whether a lock was taken from the living, the ids given out
               \* by a process, and whether one of them was twice

vars == <<lockFile, payload, proc, handle, disk, hist>>

None   == "none"
Empty  == <<>>                      \* a lock file before its pid is written
NoSlot == [ref |-> 0, ready |-> FALSE, known |-> {}, biggest |-> 0, kept |-> FALSE]
Closed == [pc |-> "closed", holds |-> FALSE, active |-> 0, retry |-> FALSE, opening |-> FALSE]

Init ==
    /\ lockFile = None /\ payload = Empty
    /\ proc = [p \in Procs |-> [pid |-> 1, slot |-> NoSlot, saved |-> 0]]
    /\ handle = [h \in Handles |-> Closed]
    /\ disk = [files |-> {}, writes |-> 0]
    /\ hist = [robbed |-> FALSE, twice |-> FALSE, used |-> [p \in Procs |-> {}]]

slot(h) == proc[ProcOf[h]].slot
At(h, pc) == handle[h].pc = pc
Goto(h, pc) == handle' = [handle EXCEPT ![h].pc = pc]
SetSlot(h, s) == proc' = [proc EXCEPT ![ProcOf[h]].slot = s]
MyPid(h) == <<ProcOf[h], proc[ProcOf[h]].pid>>

-----------------------------------------------------------------------------
(* acquire_writer_lock.                                                    *)

Open(h) ==
    /\ At(h, "closed") /\ proc[ProcOf[h]].saved <= MaxId
    /\ handle' = [handle EXCEPT ![h].pc = IF h \in Writing THEN "create" ELSE "acquire",
                                ![h].opening = TRUE]
    /\ UNCHANGED <<lockFile, payload, proc, disk, hist>>

\* kWriteLocked: the handle is not opened, or the put of an open one fails.
Refused(h) == [handle[h] EXCEPT !.pc = IF handle[h].opening THEN "closed" ELSE "open",
                                !.retry = FALSE]

\* FileLock::acquire: open(O_CREAT | O_EXCL).
CreateLock(h) ==
    /\ At(h, "create")
    /\ \/ /\ lockFile = None
          /\ lockFile' = h
          /\ payload' = Empty
          /\ handle' = [handle EXCEPT ![h].pc = "write", ![h].holds = TRUE]
       \/ /\ lockFile # None
          /\ handle' = [handle EXCEPT ![h] =
                          IF handle[h].retry THEN Refused(h) ELSE [handle[h] EXCEPT !.pc = "read"]]
          /\ UNCHANGED <<lockFile, payload>>
    /\ UNCHANGED <<proc, disk, hist>>

\* No pid in the file, or the pid of a process that is gone.
Stale(bytes) == bytes # Empty => proc[bytes[1]].pid # bytes[2]

\* try_remove_stale_lock, up to the verdict.  A file that has vanished is no
\* verdict either: the caller reports the EEXIST it met.
ReadLock(h) ==
    /\ At(h, "read")
    /\ handle' = [handle EXCEPT ![h] =
                    IF lockFile # None /\ Stale(payload)
                    THEN [handle[h] EXCEPT !.pc = "remove"] ELSE Refused(h)]
    /\ UNCHANGED <<lockFile, payload, proc, disk, hist>>

\* remove_file goes by the name: it takes whichever file is there by now.
RemoveStale(h) ==
    /\ At(h, "remove")
    /\ lockFile' = None /\ payload' = Empty
    /\ handle' = [handle EXCEPT ![h] =
                    IF lockFile = None THEN Refused(h)
                    ELSE [handle[h] EXCEPT !.pc = "create", !.retry = TRUE]]
    /\ hist' = [hist EXCEPT !.robbed = @ \/ (lockFile # None /\ handle[lockFile].holds)]
    /\ UNCHANGED <<proc, disk>>

WritePid(h) ==
    /\ At(h, "write")
    /\ payload' = IF lockFile = h THEN MyPid(h) ELSE payload
    /\ handle' = [handle EXCEPT ![h].pc = IF handle[h].opening THEN "acquire" ELSE "active",
                                ![h].retry = FALSE]
    /\ UNCHANGED <<lockFile, proc, disk, hist>>

\* release_quiet: unlink by name, then close.
DropLock_Always(h) == lockFile' = None /\ payload' = Empty
DropLock(h) ==
    IF handle[h].holds THEN lockFile' = None /\ payload' = Empty
                       ELSE UNCHANGED <<lockFile, payload>>

-----------------------------------------------------------------------------
(* The registry, and the rest of open.                                     *)

\* KeyDirRegistry::acquire.  A slot another handle is still loading is asked
\* for again (40 times, 50 ms apart).
Acquire(h) ==
    /\ At(h, "acquire")
    /\ \/ /\ slot(h).ref = 0
          /\ SetSlot(h, [NoSlot EXCEPT !.ref = 1, !.biggest = proc[ProcOf[h]].saved,
                                       !.kept = handle[h].holds])
          /\ Goto(h, "load")
       \/ /\ slot(h).ref > 0 /\ slot(h).ready
          /\ SetSlot(h, [slot(h) EXCEPT !.ref = @ + 1])
          /\ handle' = [handle EXCEPT ![h].pc = "open", ![h].opening = FALSE]
    /\ UNCHANGED <<lockFile, payload, disk, hist>>

\* "keydir not_ready after wait": the handle has no part in the slot.
Unpolled(h) == Goto(h, "unlock")

PollTimeout(h) ==
    /\ At(h, "acquire") /\ slot(h).ref > 0 /\ ~slot(h).ready
    /\ Unpolled(h)
    /\ UNCHANGED <<lockFile, payload, proc, disk, hist>>

\* load_keydir_from_disk, then mark_ready.
Load(h) ==
    /\ At(h, "load")
    /\ SetSlot(h, [slot(h) EXCEPT !.ready = TRUE, !.known = 1..disk.writes,
                                  !.biggest = Max({@} \union disk.files)])
    /\ handle' = [handle EXCEPT ![h].pc = "open", ![h].opening = FALSE]
    /\ UNCHANGED <<lockFile, payload, disk, hist>>

LoadFails(h) ==
    /\ At(h, "load")
    /\ Goto(h, "release")
    /\ UNCHANGED <<lockFile, payload, proc, disk, hist>>

-----------------------------------------------------------------------------
(* An open handle writes, merges, gives up its active file.                *)

\* roll_active_if_needed: a put that has no active file.
WantActive(h) ==
    /\ At(h, "open") /\ h \in Writing /\ handle[h].active = 0
    /\ Goto(h, IF handle[h].holds THEN "active" ELSE "create")
    /\ UNCHANGED <<lockFile, payload, proc, disk, hist>>

\* increment_file_id.
NextId(s) == s.biggest + 1

TakeId(h) ==
    /\ NextId(slot(h)) <= MaxId
    /\ SetSlot(h, [slot(h) EXCEPT !.biggest = NextId(slot(h))])
    /\ hist' = [hist EXCEPT !.used[ProcOf[h]] = @ \union {NextId(slot(h))},
                            !.twice = @ \/ NextId(slot(h)) \in hist.used[ProcOf[h]]]

\* The rest of ensure_active_writer: a new id, its file created with O_EXCL.
CreateActive(h) ==
    /\ At(h, "active")
    /\ TakeId(h)
    /\ \/ /\ NextId(slot(h)) \notin disk.files
          /\ disk' = [disk EXCEPT !.files = @ \union {NextId(slot(h))}]
          /\ handle' = [handle EXCEPT ![h].pc = "open", ![h].active = NextId(slot(h))]
       \/ /\ NextId(slot(h)) \in disk.files
          /\ Goto(h, "open")
          /\ UNCHANGED disk
    /\ UNCHANGED <<lockFile, payload>>

Append(h) ==
    /\ At(h, "open") /\ handle[h].active # 0 /\ disk.writes < MaxWrites
    /\ disk' = [disk EXCEPT !.writes = @ + 1]
    /\ SetSlot(h, [slot(h) EXCEPT !.known = @ \union {disk.writes + 1}])
    /\ UNCHANGED <<lockFile, payload, handle, hist>>

\* A merge of every file but the active one, with no live record left in them
\* (what is live stays in the active file): the output is not kept.
MergeAway(h) ==
    /\ At(h, "open") /\ h \in Writing /\ disk.files \ {handle[h].active} # {}
    /\ TakeId(h)
    /\ disk' = [disk EXCEPT !.files = @ \intersect {handle[h].active}]
    /\ UNCHANGED <<lockFile, payload, handle>>

CloseWriteFile(h) ==
    /\ At(h, "open") /\ h \in Writing
    /\ DropLock(h)
    /\ handle' = [handle EXCEPT ![h].active = 0, ![h].holds = FALSE]
    /\ SetSlot(h, [slot(h) EXCEPT !.kept = @ /\ ~handle[h].holds])
    /\ UNCHANGED <<disk, hist>>

-----------------------------------------------------------------------------
(* close, and the end of a handle that could not be opened.                *)

Close(h) ==
    /\ At(h, "open")
    /\ handle' = [handle EXCEPT ![h].pc = "release", ![h].active = 0]
    /\ UNCHANGED <<lockFile, payload, proc, disk, hist>>

\* KeyDirRegistry::release: the last reference leaves its biggest id behind.
Kept_Nothing(p) == proc[p].saved
Kept(p) == Max({proc[p].saved, proc[p].slot.biggest + 1})

Release(h) ==
    LET p == ProcOf[h]
    IN  /\ At(h, "release")
        /\ proc' = [proc EXCEPT ![p] =
             IF slot(h).ref > 1 THEN [@ EXCEPT !.slot.ref = slot(h).ref - 1]
             ELSE IF slot(h).ref = 1 THEN [@ EXCEPT !.slot = NoSlot, !.saved = Kept(p)]
             ELSE @]
        /\ Goto(h, "unlock")
        /\ UNCHANGED <<lockFile, payload, disk, hist>>

Unlock(h) ==
    /\ At(h, "unlock")
    /\ DropLock(h)
    /\ handle' = [handle EXCEPT ![h] = Closed]
    /\ SetSlot(h, [slot(h) EXCEPT !.kept = @ /\ ~handle[h].holds])
    /\ UNCHANGED <<disk, hist>>

\* The process dies; the next one of its name has another pid.
Crash(p) ==
    /\ proc[p].pid < MaxPid
    /\ proc' = [proc EXCEPT ![p] = [pid |-> @.pid + 1, slot |-> NoSlot, saved |-> 0]]
    /\ handle' = [h \in Handles |-> IF ProcOf[h] = p THEN Closed ELSE handle[h]]
    /\ hist' = [hist EXCEPT !.used[p] = {}]
    /\ UNCHANGED <<lockFile, payload, disk>>

Next ==
    \/ \E h \in Handles :
          \/ Open(h) \/ CreateLock(h) \/ ReadLock(h) \/ RemoveStale(h) \/ WritePid(h)
          \/ Acquire(h) \/ PollTimeout(h) \/ Load(h) \/ LoadFails(h)
          \/ WantActive(h) \/ CreateActive(h) \/ Append(h) \/ MergeAway(h)
          \/ CloseWriteFile(h) \/ Close(h) \/ Release(h) \/ Unlock(h)
    \/ \E p \in Procs : Crash(p)

Spec == Init /\ [][Next]_vars

-----------------------------------------------------------------------------
(* Properties.                                                             *)

\* The variables have their types.
TypeOK ==
    /\ lockFile \in Handles \union {None}
    /\ payload \in {Empty} \union (Procs \X (1..MaxPid))
    /\ proc \in [Procs -> [pid : 1..MaxPid, saved : Nat,
                           slot : [ref : 0..Cardinality(Handles), ready : BOOLEAN,
                                   known : SUBSET (1..MaxWrites), biggest : Nat,
                                   kept : BOOLEAN]]]
    /\ handle \in [Handles -> [pc : {"closed", "create", "read", "remove", "write",
                                     "acquire", "load", "open", "active", "release",
                                     "unlock"},
                               holds : BOOLEAN, active : 0..MaxId, retry : BOOLEAN,
                               opening : BOOLEAN]]
    /\ disk \in [files : SUBSET (1..MaxId), writes : 0..MaxWrites]
    /\ hist \in [robbed : BOOLEAN, twice : BOOLEAN, used : [Procs -> SUBSET (1..MaxId)]]

Holders == {h \in Handles : handle[h].holds}

\* At most one handle of all processes has the write lock (file_lock.hpp, the
\* class comment): so long as no stale-lock removal took a lock file whose
\* creator still had it, the creator of the file at the lock's path is the one
\* holder, across crashes, refusals and handles that fail to open.
MutualExclusion == hist.robbed \/ \A h \in Holders : Holders = {h} /\ lockFile = h

\* The same with no exception.
OneHolder == Cardinality(Holders) <= 1

\* The references of a slot are those of the handles that were given its
\* keydir, and a handle that is open finds it loaded: a handle that gave up
\* waiting, or whose load failed, takes nobody else's keydir away.
HasKeydir(h) == handle[h].pc \in {"load", "open", "active", "release"}
             \/ (handle[h].pc \in {"create", "read", "remove", "write"} /\ ~handle[h].opening)
SlotsExact ==
    \A p \in Procs :
        LET users == {h \in Handles : ProcOf[h] = p /\ HasKeydir(h)}
        IN  /\ proc[p].slot.ref = Cardinality(users)
            /\ \A h \in users : handle[h].pc \in {"open", "active"} => proc[p].slot.ready

\* A writer with the lock works on a keydir that knows every write there is,
\* if its process has had the lock ever since the keydir was loaded.
CurrentIfKept ==
    hist.robbed \/ \A h \in Holders :
        handle[h].pc \in {"open", "active"} /\ slot(h).kept => slot(h).known = 1..disk.writes

\* The same for every writer with the lock.
HolderIsCurrent ==
    hist.robbed \/ \A h \in Holders :
        handle[h].pc \in {"open", "active"} => slot(h).known = 1..disk.writes

\* A process gives out a file id once, across closes and reopenings and merges
\* that delete the file with the biggest id (keydir_registry.cpp, acquire).
IdsGivenOnce == ~hist.twice
=============================================================================
