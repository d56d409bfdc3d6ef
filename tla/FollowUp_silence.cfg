CONSTANTS
    Steps = 2
    RetryLimit = 2
    MaxSaid = 2
    MaxDeaths = 0
    MaxRetires = 0
SPECIFICATION Spec
INVARIANTS LadderMeansSilence
CHECK_DEADLOCK FALSE
