SPECIFICATION FairSpec
CONSTANTS
    a1 = a1
    a2 = a2
    Actions = {a1, a2}
    Pauses <- TwoPauses
    ClientTools = {a1}
    Inline = {}
    Background = {}
    Sweepers = {s1}
    Messages = {m1}
    Cancelers = {c1}
    First = First
    Extra = {1, 2}
    OnTimeout = "cancel"
    OnMessage = "cancel_pending"
    MaxFaults = 1
    None = None
PROPERTY PausedRunEnds
CHECK_DEADLOCK FALSE
