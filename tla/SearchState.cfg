CONSTANTS
    k1 = k1
    k2 = k2
    Keys = {k0}
    MaxChain = 2
    MaxOrd = 4
    MaxFile = 3
    MaxTasks = 2
    MaxFaults = 1
    MaxCrash = 1
    MaxWait = 2
    Flaky = {"doc", "text", "vec", "man"}
    Texts = {TRUE}
    Parts = {"saved", "text"}
    TextOrds = 3
    TextFlushes = 1
    TextQueries = 1
    Allowed = {}
SPECIFICATION SearchStateSpec
SYMMETRY Symmetric
INVARIANTS
    KeysKept
    DocsSearchable
    SegmentsAnswer
CHECK_DEADLOCK FALSE
