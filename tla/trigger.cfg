SPECIFICATION FairSpec
CONSTANTS
    Nodes = {n1, n2}
    Editors = {e1}
    Timings <- MCTimings
    Grace = 1
    ClaimTTL = 2
    MaxStall = 1
    MaxTime = 4
    MaxEvents = 1
    CanRefuse = TRUE
    Never = Never
INVARIANTS TypeOK SlotRunsOnce
PROPERTIES ImplementsSlotDispatch TriggerMovesOn
CHECK_DEADLOCK FALSE
