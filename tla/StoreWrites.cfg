CONSTANTS
    Keys = {k1, k2}
    MaxFile = 4
    FileCap = 2
    SyncEach = FALSE
    Calls = {"put", "remove", "atomic"}
    MaxGroup = 1
    Overlap = FALSE
    MergeAnySubset = FALSE
    SaveOutcomes = {"saved", "failed"}
    SkewedClock = TRUE
    Workers = {w1}
    CrashKinds = {"power"}
    Limit <- LimitWrites
SPECIFICATION Spec
SYMMETRY Symmetry
INVARIANTS
    NothingLost
    OrdsStayAhead
    SealedIsDurable
    BatchAtomic
    HintsMatchData
