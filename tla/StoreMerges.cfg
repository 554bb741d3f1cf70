CONSTANTS
    w1 = w1
    w2 = w2
    Keys = {k1, k2}
    MaxFile = 5
    FileCap = 1
    SyncEach = TRUE
    Calls = {"put", "remove", "batch"}
    MaxGroup = 1
    Overlap = TRUE
    MergeAnySubset = TRUE
    SaveOutcomes = {"saved", "failed"}
    SkewedClock = FALSE
    Workers = {w1, w2}
    CrashKinds = {"process", "power"}
    Limit <- LimitMerges
SPECIFICATION Spec
ACTION_CONSTRAINT Limits
SYMMETRY Symmetry
INVARIANTS
    NothingLost
    RetiredIsUnreferenced
