SPECIFICATION FairSpec
CONSTANTS
    a1 = a1
    a2 = a2
    Actions = {a1, a2}
    Pauses <- OnePause
    ClientTools = {}
    Inline = {i1}
    Background = {b1}
    Sweepers = {s1}
    Messages = {}
    Cancelers = {}
    First = First
    Extra = {1, 2}
    OnTimeout = "deny"
    OnMessage = "cancel_pending"
    MaxFaults = 0
    None = None
PROPERTY AnsweredPauseAlwaysContinues
CHECK_DEADLOCK FALSE
