SPECIFICATION Spec
CONSTANTS
    Runs = {1, 2}
    Scheduled = {}
    Workers = {w1, w2}
    Calls = {c1}
    Reconcilers = {n1}
    MaxRunning = 1
    MaxQueued = 1
    MaxJobs = 1
    MaxFaults = 0
    Pausing = {}
    None = None
INVARIANT RefusedIsNotExecuted
CHECK_DEADLOCK FALSE
