SPECIFICATION Spec
CONSTANTS
    MaxRuns = 2
    Chunks = 1
    CanTimeout = FALSE
    CanMute = FALSE
    MaxFaults = 0
    None = None
INVARIANT EveryChunkAlways
CHECK_DEADLOCK FALSE
