CONSTANTS
    followup = followup
    ingest = ingest
    flush = flush
    compact = compact
    reminder = reminder
    Keys = {ingest, reminder, followup}
    Lane <- MCLane
    DeleteKeys <- MCIngest
    TrafficKeys <- MCIngest
    IngestKeys <- MCIngest
    ReminderKeys <- MCReminder
    SameWorkKeys <- MCIngest
    Enabled = {"shared", "barrier"}
    MaxAttempts = 2
    BatchSize = 2
    MaxArms = 2
    MaxPasses = 0
    MaxCalls = 2
    MaxFaults = 1
SPECIFICATION LedgerRunSpec
INVARIANTS TypeOK AtMostOneHolder HolderIsCurrent CalledOffStaysCalledOff
PROPERTIES LedgerSpec OnlyStandingDeathsAnnounced
CHECK_DEADLOCK FALSE
