SPECIFICATION Spec
CONSTANTS
    Workers = {w1, w2}
    Resumers = {s1, s2}
    NoWorker = NoWorker
    MaxPauses = 2
    MaxJobs = 1
    MaxLosses = 0
    Interruptions = {}
PROPERTY ResumeContinuesItsPause
CHECK_DEADLOCK FALSE
