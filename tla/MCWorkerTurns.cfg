SPECIFICATION FairSpec
CONSTANTS
    NTurns = 3
    MaxQueueDepth = 2
    Scenarios <- MCScenarios
CHECK_DEADLOCK FALSE
INVARIANTS
    SubmittedOnce
    SubmittedInOrder
PROPERTIES
    RetiredFrozen
    ExactTurnSettles
