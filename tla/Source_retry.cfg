SPECIFICATION Spec
CONSTANTS
  Jobs = {j1}
  MaxMishaps = 0
INVARIANTS
  RetryIsRecognised
CHECK_DEADLOCK FALSE
