CONSTANTS
    p1 = p1
    p2 = p2
    h1 = h1
    h2 = h2
    h3 = h3
    d1 = d1
    d2 = d2
    d3 = d3
    Procs = {p1, p2}
    Handles = {h1, h2, h3}
    ProcOf <- ProcOfHandle
    Writing = {h1, h3}
    MaxPid = 2
    MaxId = 2
    MaxWrites = 1
SPECIFICATION HostSpec
INVARIANTS
    MutualExclusion
    IdsGivenOnce
    InterfaceSound
CHECK_DEADLOCK FALSE
CONSTRAINT BeforeRobbery
