CONSTANTS
    MaxUsers = 3
    RingLimit = 1
    Attempts = 2
    Scenarios <- SafetyScenarios
SPECIFICATION Spec
CHECK_DEADLOCK FALSE
INVARIANTS
    NoReplay
    OneCard
    QuietDismissal
    ConflictOrder
    HonestCheckpoint
