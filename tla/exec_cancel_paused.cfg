SPECIFICATION Spec
CONSTANTS
    Workers = {w1, w2}
    Resumers = {s1}
    NoWorker = NoWorker
    MaxPauses = 1
    MaxJobs = 1
    MaxLosses = 0
    Interruptions = {"cancelPaused"}
PROPERTY CancelPausedEndsPausedOnly
CHECK_DEADLOCK FALSE
