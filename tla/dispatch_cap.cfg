SPECIFICATION Spec
CONSTANTS
    Runs = {1, 2}
    Scheduled = {1}
    Workers = {w1, w2}
    Calls = {c1}
    Reconcilers = {n1}
    MaxRunning = 1
    MaxQueued = 2
    MaxJobs = 1
    MaxFaults = 0
    Pausing = {}
    None = None
INVARIANT RunningWithinCap
CHECK_DEADLOCK FALSE
