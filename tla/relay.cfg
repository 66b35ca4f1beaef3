SPECIFICATION FairSpec
CONSTANTS
    MaxRuns = 2
    Chunks = 1
    CanTimeout = TRUE
    CanMute = TRUE
    MaxFaults = 1
    None = None
INVARIANTS TypeOK OneRunReplayed EveryChunkBeforeResult
PROPERTY CancelStopsTheJob
CHECK_DEADLOCK FALSE
