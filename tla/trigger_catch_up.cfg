SPECIFICATION Spec
CONSTANTS
    Nodes = {n1, n2}
    Editors = {}
    Timings <- MCSchedule
    Grace = 1
    ClaimTTL = 2
    MaxStall = 1
    MaxTime = 4
    MaxEvents = 0
    CanRefuse = FALSE
    Never = Never
PROPERTY LatestSlotOnly
CHECK_DEADLOCK FALSE
