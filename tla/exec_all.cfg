SPECIFICATION FairSpec
CONSTANTS
    Workers = {w1, w2}
    Resumers = {s1}
    NoWorker = NoWorker
    MaxPauses = 1
    MaxJobs = 2
    MaxLosses = 1
    Interruptions = {"stall", "timeout", "drain", "cancelPaused"}
INVARIANTS TypeOK OneTurnAtATime
PROPERTIES OutcomeIsFinal SlotOutlivesTurn LateWriteAfterOutcome RunSettles
CHECK_DEADLOCK FALSE
