SPECIFICATION FairSpec
CONSTANTS
    Workers = {w1, w2}
    Resumers = {s1}
    NoWorker = NoWorker
    MaxPauses = 1
    MaxJobs = 1
    MaxLosses = 0
    Interruptions = {"timeout"}
PROPERTY AcceptedCancelEnds
CHECK_DEADLOCK FALSE
