-------------------------- MODULE MCPendingActions --------------------------
EXTENDS PendingActions

CONSTANTS a1, a2
OnePause == <<{a1, a2}>>
ShortPause == <<{a1}>>
TwoPauses == <<{a1}, {a2}>>
=============================================================================
