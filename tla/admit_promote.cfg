SPECIFICATION Spec
CONSTANTS
    a = a
    b = b
    c = c
    d = d
    k = k
    Requests = {a, b, c, d}
    Keys = {k}
    KeyOf <- TwoAlike
    NoKey = NoKey
    NoRun = NoRun
    Unbound = Unbound
    Scheduled = {c, d}
    Sweeps = {n1}
    MaxActive = 1
    REPOLL_ATTEMPTS = 1
    MaxCuts = 0
    MaxSlips = 0
PROPERTY PromotionWithinCap
CHECK_DEADLOCK FALSE
