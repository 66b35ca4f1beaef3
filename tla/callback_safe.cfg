SPECIFICATION Spec
CONSTANTS
    Callers = {c}
    MaxGen = 2
    CanPause = TRUE
    MaxAttempts = 2
    JobIds = {j1, j2}
    CanRefuse = TRUE
    CanLag = FALSE
    Faults = {"node", "job", "write"}
    MaxFaults = 1
    Reconciler = Reconciler
    Boot = Boot
    None = None
INVARIANTS TypeOK DeliveredMeansReceived AnsweredOutcomeNotCalledBack
CHECK_DEADLOCK FALSE
