SPECIFICATION Spec
CONSTANTS
    a1 = a1
    a2 = a2
    Actions = {a1, a2}
    Pauses <- OnePause
    ClientTools = {}
    Inline = {}
    Background = {b1, b2}
    Sweepers = {}
    Messages = {}
    Cancelers = {}
    First = First
    Extra = {1, 2}
    OnTimeout = "deny"
    OnMessage = "cancel_pending"
    MaxFaults = 0
    None = None
PROPERTY MessagesKept
CHECK_DEADLOCK FALSE
