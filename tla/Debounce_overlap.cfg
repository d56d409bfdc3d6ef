CONSTANTS
    Leader = leader
    Procs = {leader, web}
    Flush = Flush
    Clicks = {c1}
    MaxMsgs = 2
    Ordered = TRUE
    MaxAttempts = 2
    MaxArmFails = 0
    MaxFaults = 0
    MaxSlow = 0
    MaxSwitches = 0
SPECIFICATION Spec
INVARIANTS AnsweredOnce
CHECK_DEADLOCK FALSE
