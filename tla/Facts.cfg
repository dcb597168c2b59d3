SPECIFICATION Spec
CONSTANTS
  Acceptance = {"freshVerified"}
  MaxInputs = 2
  MaxApplies = 1
  MaxRecords = 3
  MaxCrashes = 1
  MaxClock = 1
  None = None
INVARIANTS
  ReportAgreesUnlessPassed
  MatchedMeansSavedUnlessOvertaken
  VerdictsFollowSave
  CompletedHasEvidence
CHECK_DEADLOCK FALSE
