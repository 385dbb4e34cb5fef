SPECIFICATION Spec
CONSTANTS
  MaxEvents = 2
  MaxTail = 2
  BatchSize = 1
  Attempts = 2
  Usage = {2}
  Scenarios <- FrameScenarios
INVARIANTS NothingSkippedSilently
