SPECIFICATION Spec
CONSTANTS
    Callers = {c}
    MaxGen = 1
    CanPause = TRUE
    MaxAttempts = 2
    JobIds = {j1}
    CanRefuse = FALSE
    CanLag = FALSE
    Faults = {}
    MaxFaults = 0
    Reconciler = Reconciler
    Boot = Boot
    None = None
INVARIANT AnsweredStateNotCalledBack
CHECK_DEADLOCK FALSE
