------------------------------ MODULE MCFiles ------------------------------
(***************************************************************************)
(* Data files and the ordered index that is kept beside them.  A behaviour *)
(* is one of these, and the variables of the other do not change:          *)
(*   ckpt    DataFile with a checkpoint beside the writer                  *)
(*   alone   DataFile with a checkpoint at the close, and a recovery       *)
(*   oki     OrderedIndex: two keys in a shard that caches one             *)
(***************************************************************************)
EXTENDS DataFile, FiniteSets, TLC

CONSTANTS k1, k2

OneOrTwo == 1..2

VARIABLES part, log, disk, hash, oki, job, retired, reader, used

Alone == INSTANCE DataFile WITH CkptBeside <- FALSE
O == INSTANCE OrderedIndex WITH
    Keys <- {k1, k2}, Budget <- 1, RunLimit <- 1,
    MaxLog <- 3, MaxFile <- 2, MaxJobs <- 2, MaxCrash <- 1
Steady == INSTANCE OrderedIndex WITH
    Keys <- {k1, k2}, Budget <- 1, RunLimit <- 1,
    MaxLog <- 3, MaxFile <- 2, MaxJobs <- 2, MaxCrash <- 0

index == <<log, disk, hash, oki, job, retired, reader, used>>

\* A flush is under way that holds rows back.
Flushing == job.who \in {"checkpoint", "merge"} /\ job.pc \in {"save", "copy", "write", "drop"}

\* What README section 6 says of flushes beside writers, and of crashes within
\* a merge, is kept out: while a flush holds rows back nothing is removed and no
\* file is begun, and no crash comes between a relocation and its flush.
NoTombBeside == Flushing => Len(log') <= Len(log) \/ ~log'[Len(log')].tomb
NoRollBeside == Flushing /\ used'.crashes = used.crashes => disk'.active = disk.active
NoHalfMerge ==
    used'.crashes # used.crashes =>
        \A k \in {k1, k2} : LET row == O!InRuns(disk.runs, k)
                            IN  row.loc = "o" => row.ord \notin disk.copies

\* Look-ups run beside the first job: after it there is nothing new for them.
ReadsFirst == used'.jobs > 1 \/ used'.crashes > 0 => reader'.pc = "idle"

\* A crash ends a look-up and asks nothing new of the index before the first job;
\* the second job finds all records written.
CrashBeside == reader.pc = "idle" /\ used.jobs > 0
SecondJobLate == used.jobs = 1 /\ used'.jobs = 2 => Len(log) = 3 /\ reader.pc = "idle"

\* One remove is enough for a tombstone to meet every kind of row.
OneRemove == Cardinality({i \in DOMAIN log' : log'[i].tomb}) <= 1

FilesInit == part \in {"ckpt", "alone", "oki"} /\ Init /\ O!Init /\ (part = "oki" => ~dsync)
FilesNext ==
    /\ part' = part
    /\ \/ part = "ckpt" /\ Next /\ UNCHANGED index
       \/ part = "alone" /\ Alone!Next /\ UNCHANGED index
       \/ /\ part = "oki" /\ UNCHANGED vars
          /\ IF CrashBeside THEN O!Next ELSE Steady!Next
          /\ NoTombBeside /\ NoRollBeside /\ NoHalfMerge
          /\ ReadsFirst /\ OneRemove /\ SecondJobLate
FilesSpec == FilesInit /\ [][FilesNext]_<<part, vars, index>>

-----------------------------------------------------------------------------
\* Recovery finds every record the crash had to spare (DataFile!AckedIsFound),
\* when no checkpoint ran beside the writer (see README section 6).
RecoveryFindsAcked == part = "alone" => AckedIsFound

\* The index is the keydir's truth: what the runs and the delta say of a key that
\* is not cached, what the cache says of one that is, and what a look-up answers
\* while a job replaces the runs and the delta under it; and the watermark in the
\* manifest covers no record that a crash may lose (OrderedIndex).
IndexIsTruth ==
    part = "oki" => /\ O!ColdIsTruth /\ O!HashIsTruth /\ O!AnswersCurrent
                    /\ O!WatermarkDurable

Symmetric == Permutations({k1, k2})
ASSUME O!OrderedIndexAssumption
=============================================================================
