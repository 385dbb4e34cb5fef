SPECIFICATION FairSpec
CHECK_DEADLOCK FALSE
CONSTANTS
    Messages = {1, 2, 3, 4}
    Kind <- MCKinds
    ScopeOf <- MCScopes
    LaneOf <- MCLanes
    Hopeless = {4}
    Concurrency = 2
    Scenarios <- Disturbed
INVARIANTS
    OneEffect
    AcceptedIsOnRecord
    ConversationOrder
PROPERTIES
    OtherConversationsProceed
    LanesComeToRest
    
