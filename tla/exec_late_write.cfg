SPECIFICATION Spec
CONSTANTS
    Workers = {w1, w2}
    Resumers = {s1}
    NoWorker = NoWorker
    MaxPauses = 0
    MaxJobs = 1
    MaxLosses = 0
    Interruptions = {"timeout"}
PROPERTY WritesUnderItsSlot
CHECK_DEADLOCK FALSE
