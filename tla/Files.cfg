CONSTANTS
    k1 = k1
    k2 = k2
    Sizes <- OneOrTwo
    MaxRecords = 3
    FlushAt = 3
    AppendMode = TRUE
    Fails = {"put", "fsync"}
    Torn = FALSE
    CkptBeside = TRUE
SPECIFICATION FilesSpec
SYMMETRY Symmetric
INVARIANTS
    OffsetsHold
    DurableIsStable
    RecoveryFindsAcked
    IndexIsTruth
CHECK_DEADLOCK FALSE
