SPECIFICATION Spec
CONSTANTS
    a = a
    b = b
    c = c
    d = d
    k = k
    Requests = {a, b, c, d}
    Keys = {k}
    KeyOf <- TwoAlike
    NoKey = NoKey
    NoRun = NoRun
    Unbound = Unbound
    Scheduled = {}
    Sweeps = {n1}
    MaxActive = 2
    REPOLL_ATTEMPTS = 5
    MaxCuts = 0
    MaxSlips = 0
INVARIANT IdenticalRequestsDoNotConflict
CHECK_DEADLOCK FALSE
