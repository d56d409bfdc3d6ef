CONSTANTS
    Convs = {1, 2}
    TurnsAt = {"leader", "replica"}
    ResetAt = "leader"
    LongWaits = TRUE
    MaxMsgs = 3
    MaxResolves = 1
    MaxResets = 0
    MaxFaults = 0
SPECIFICATION Spec
INVARIANTS SummarizedOnce
CHECK_DEADLOCK FALSE
