SPECIFICATION FairSpec
CONSTANTS
  MaxEvents = 2
  MaxTail = 2
  BatchSize = 1
  Attempts = 2
  Usage = {2}
  Scenarios <- AllScenarios
INVARIANTS NothingSkippedSilently QuarantineIsVisible
PROPERTIES ImplementsFeed EveryEventSettles
