SPECIFICATION Spec
CONSTANTS
  Jobs = {j1, j2}
  MaxMishaps = 2
INVARIANTS
  TypeOK
  SavedOnce
  SavedFactTrue
  FailedUnchanged
PROPERTIES
  AnswerStays
CHECK_DEADLOCK FALSE
