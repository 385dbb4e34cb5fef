CONSTANTS
    MaxUsers = 2
    RingLimit = 2
    Attempts = 2
    Scenarios <- LiveScenarios
SPECIFICATION FairSpec
CHECK_DEADLOCK FALSE
PROPERTIES
    OwnLaneSettles
