SPECIFICATION FairSpec
CONSTANTS
    Callers = {}
    MaxGen = 1
    CanPause = TRUE
    MaxAttempts = 2
    JobIds = {j1, j2}
    CanRefuse = FALSE
    CanLag = FALSE
    Faults = {"node"}
    MaxFaults = 1
    Reconciler = Reconciler
    Boot = Boot
    None = None
PROPERTY OutcomeReported
CHECK_DEADLOCK FALSE
