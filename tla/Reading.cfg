SPECIFICATION ReadingSpec
CONSTANTS
    k1 = k1
    k2 = k2
    k3 = k3
    va = va
    vb = vb
    None = None
    Keys = {k1, k2}
    Readers = {r1}
    HandleCap = 1
    MaxPuts = 2
    MaxRolls = 1
    MaxMerges = 2
    MaxDrains = 1
    MaxCalls = 1
    Allowed = {}
SYMMETRY Symmetric
INVARIANTS
    GetsAnswer
    FoldReads
    LookupsAreSound
    RunsAndScansAreRight
CHECK_DEADLOCK FALSE
