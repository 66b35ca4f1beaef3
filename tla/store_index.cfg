SPECIFICATION Spec
CONSTANTS
    r1 = r1
    r2 = r2
    r3 = r3
    c1 = c1
    Runs = {r1, r2}
    Convs <- MCConvs
    ConvOf <- MCConvOf2
    Procs = {p1, p2}
    NoLock = NoLock
    Unbound = Unbound
    PartialIndex = TRUE
    CanPause = TRUE
    CanFail = TRUE
INVARIANT TypeOK
PROPERTY ImplementsRunTable
CHECK_DEADLOCK FALSE
