SPECIFICATION FairSpec
CONSTANTS
    Callers = {c}
    MaxGen = 1
    CanPause = FALSE
    MaxAttempts = 2
    JobIds = {j1}
    CanRefuse = FALSE
    CanLag = FALSE
    Faults = {}
    MaxFaults = 0
    Reconciler = Reconciler
    Boot = Boot
    None = None
PROPERTY DisconnectedCallerIsCalledBack
CHECK_DEADLOCK FALSE
