SPECIFICATION Spec
CONSTANTS
    Nodes = {n1, n2}
    Editors = {e1}
    Timings <- MCSchedules
    Grace = 1
    ClaimTTL = 2
    MaxStall = 1
    MaxTime = 4
    MaxEvents = 0
    CanRefuse = FALSE
    Never = Never
INVARIANT FiresItsSchedule
CHECK_DEADLOCK FALSE
