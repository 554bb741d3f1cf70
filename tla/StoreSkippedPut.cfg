CONSTANTS
    Keys = {k1, k2}
    MaxFile = 4
    FileCap = 3
    SyncEach = FALSE
    Calls = {"put"}
    MaxGroup = 1
    Overlap = TRUE
    MergeAnySubset = FALSE
    SaveOutcomes = {"saved"}
    SkewedClock = FALSE
    Workers = {w1}
    CrashKinds = {"process"}
    Limit <- LimitSkippedPut
SPECIFICATION Spec
SYMMETRY Symmetry
INVARIANTS
    NothingLost
