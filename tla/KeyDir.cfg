\* Overlapping folds beside a writer and a reader; two writers beside a fold.
CONSTANTS
    k1 = k1 k2 = k2 w1 = w1 w2 = w2 r1 = r1 f1 = f1 f2 = f2 NoOne = NoOne
    Keys <- TwoKeys
    NShards = 2
    ShardOf <- OwnShard
    Writers <- TwoWriters
    Readers <- OneReader
    Folders <- TwoFolders
    WriterPreference = TRUE
    MaxOps = 4
    MaxFile = 2
SPECIFICATION Spec
ACTION_CONSTRAINT Limits
SYMMETRY Symmetry
INVARIANTS
    ChainsNewestFirst
    PendingBelongsToAFold
    BarrierExcludesWriters
    CountersExact
PROPERTIES
    FoldViewStands
    KeySetGrowsDuringFold
    ImplementsMap
    MergeLosesNoWrite
