CONSTANTS
    Intent = {1, 2}
    Typed = {1, 2}
    Sessionless = {2}
    Mismatched = {}
    PageLimit = 1
    MaxRestarts = 2
SPECIFICATION FairSpec
CHECK_DEADLOCK FALSE
INVARIANTS
    IndInv
    AtMostOneSubmit
    VerdictMatchesCore
    ScanSkipsNothing
PROPERTIES
    SettledNeverReopens
    ImplementsInputOnce
    ScanReachesEveryRecorded
