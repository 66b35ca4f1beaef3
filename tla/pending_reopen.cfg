SPECIFICATION Spec
CONSTANTS
    a1 = a1
    a2 = a2
    Actions = {a1, a2}
    Pauses <- TwoPauses
    ClientTools = {}
    Inline = {i1, i2}
    Background = {}
    Sweepers = {}
    Messages = {}
    Cancelers = {}
    First = First
    Extra = {1, 2}
    OnTimeout = "deny"
    OnMessage = "cancel_pending"
    MaxFaults = 1
    None = None
PROPERTY SpentStaysAnswered
CHECK_DEADLOCK FALSE
