SPECIFICATION FairSpec
CONSTANTS
  MaxItems = 2
  LiveCap = 1
  FullCap = 1
  Attempts = 2
  LateFacts = FALSE
  Scenarios <- Disturbed
CHECK_DEADLOCK FALSE
INVARIANTS OneEffect NoHole
 
