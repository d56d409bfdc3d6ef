CONSTANTS
    Nobody = Nobody
    Divider = Divider
    job = job
    p1 = p1
    p2 = p2
    t1 = t1
    m1 = m1
    a1 = a1
    Convs = {1}
    TurnsAt = {"leader", "replica"}
    ResetAt = "leader"
    LongWaits = TRUE
    MaxMsgs = 3
    MaxResolves = 2
    MaxResets = 1
    MaxFaults = 1
SPECIFICATION UnionSpec
INVARIANTS SummarizedOnce Remembered ClearedStaysForgotten
PROPERTIES ClosedEnds TombstoneLeavesWithNewWork OwedSettles
CHECK_DEADLOCK FALSE
