SPECIFICATION FairSpec
CONSTANTS
    a1 = a1
    a2 = a2
    Actions = {a1, a2}
    Pauses <- ShortPause
    ClientTools = {a2}
    Inline = {}
    Background = {b1}
    Sweepers = {s1}
    Messages = {m1}
    Cancelers = {c1}
    First = First
    Extra = {1, 2}
    OnTimeout = "cancel"
    OnMessage = "cancel_pending"
    MaxFaults = 0
    None = None
PROPERTY PausedRunEnds
CHECK_DEADLOCK FALSE
