SPECIFICATION Spec
CONSTANTS
    r1 = r1
    r2 = r2
    r3 = r3
    c1 = c1
    Runs = {r1, r2, r3}
    Convs <- MCConvs
    ConvOf <- MCConvOf3
    Procs = {p1, p2}
    NoLock = NoLock
    Unbound = Unbound
    PartialIndex = FALSE
    CanPause = FALSE
    CanFail = FALSE
SYMMETRY Alike
INVARIANTS OneActiveRunPerConversation ActiveRunHoldsSlot
PROPERTY ImplementsRunTable
CHECK_DEADLOCK FALSE
