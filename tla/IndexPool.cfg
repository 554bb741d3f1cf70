CONSTANTS
    a = a
    b = b
    w1 = w1
    w2 = w2
    w3 = w3
    f1 = f1
    m1 = m1
    m2 = m2
    Lanes = {a, b}
    Writers = {w1, w2, w3}
    LaneOf <- LaneOfWriter
    FirstOrd <- Zero
    LastOrd <- TwoOne
    Mappers = {m1, m2}
    QueueCap = 1
    ReorderCap = 2
    RingSizes <- Doublings
    Flushers = {f1}
    FlushLane <- LaneOfFlusher
    MayThrow = {w2}
    MayDie = {w1}
SPECIFICATION Spec
INVARIANTS
    AppliedInOrder
    FlushCovers
    InFlightExact
PROPERTIES
    CallsReturn
CHECK_DEADLOCK FALSE
