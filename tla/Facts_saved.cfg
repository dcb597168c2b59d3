SPECIFICATION Spec
CONSTANTS
  Acceptance = {}
  MaxInputs = 1
  MaxApplies = 1
  MaxRecords = 2
  MaxCrashes = 0
  MaxClock = 0
  None = None
INVARIANT
  MatchedMeansSaved
CHECK_DEADLOCK FALSE
