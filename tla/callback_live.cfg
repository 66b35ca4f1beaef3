SPECIFICATION FairSpec
CONSTANTS
    Callers = {c}
    MaxGen = 1
    CanPause = FALSE
    MaxAttempts = 2
    JobIds = {j1, j2}
    CanRefuse = TRUE
    CanLag = FALSE
    Faults = {"node", "job", "write", "boot"}
    MaxFaults = 2
    Reconciler = Reconciler
    Boot = Boot
    None = None
INVARIANT AnsweredOutcomeNotCalledBack
PROPERTY OutcomeReported
CHECK_DEADLOCK FALSE
