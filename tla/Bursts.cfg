CONSTANTS
    Nobody = Nobody
    Divider = Divider
    web = web
    worker = worker
    r1 = r1
    r2 = r2
    t1 = t1
    t2 = t2
    m1 = m1
    a1 = a1
    Leader = worker
    Procs = {worker, web}
    Flush = flush
    Clicks = {c1}
    MaxMsgs = 2
    Ordered = TRUE
    MaxAttempts = 2
    MaxArmFails = 1
    MaxFaults = 1
    MaxSlow = 1
    MaxSwitches = 2
SPECIFICATION UnionSpec
INVARIANTS TargetsOnce OnceInOneProcess AccountedFor NoQuietLoss
PROPERTIES ReleaseEndsItsOwnOccupancy
CHECK_DEADLOCK FALSE
