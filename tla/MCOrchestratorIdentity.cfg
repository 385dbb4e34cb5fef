SPECIFICATION FairSpec
CONSTANTS
    Scenarios <- MCScenarios
CHECK_DEADLOCK FALSE
INVARIANTS
    Serialized
    
PROPERTIES
    OneSessionPerEpoch
    IdentityConverges
