SPECIFICATION FairSpec
CONSTANTS
    MaxRuns = 1
    Chunks = 1
    CanTimeout = TRUE
    CanMute = FALSE
    MaxFaults = 0
    None = None
PROPERTY NoCancelIsLost
CHECK_DEADLOCK FALSE
