SPECIFICATION FairSpec
CONSTANTS
    a = a
    b = b
    c = c
    d = d
    k = k
    Requests = {a, b, c, d}
    Keys = {k}
    KeyOf <- TwoAlike
    NoKey = NoKey
    NoRun = NoRun
    Unbound = Unbound
    Scheduled = {d}
    Sweeps = {n1}
    MaxActive = 1
    REPOLL_ATTEMPTS = 1
    MaxCuts = 1
    MaxSlips = 1
INVARIANTS TypeOK AdmittedWithinCap StartedNearCap OneRunPerKey
PROPERTY RetryIsServed
CHECK_DEADLOCK FALSE
