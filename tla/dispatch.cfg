SPECIFICATION FairSpec
CONSTANTS
    Runs = {1, 2}
    Scheduled = {2}
    Workers = {w1, w2}
    Calls = {c1}
    Reconcilers = {n1}
    MaxRunning = 1
    MaxQueued = 1
    MaxJobs = 1
    MaxFaults = 1
    Pausing = {2}
    None = None
INVARIANTS TypeOK WaitingWithinCap
PROPERTIES DeferredRunStarts
CHECK_DEADLOCK FALSE
