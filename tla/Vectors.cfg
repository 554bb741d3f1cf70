SPECIFICATION VectorsSpec
CONSTANTS
    Parts = {"sealed", "files", "graph", "disk"}
    MaxOrd = 3
    MaxChain = 2
    RebaseMin = 2
    MaxFlushes = 3
    MaxCrashes = 1
    MaxFails = 1
    MaxSearches = 1
    Allowed = {}
INVARIANTS
    VectorFilesSound
    GraphSearchSound
    DiskSearchIsExact
CHECK_DEADLOCK FALSE
