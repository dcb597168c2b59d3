SPECIFICATION FairSpec
CONSTANTS
  Jobs = {j1}
  MaxMishaps = 4
PROPERTIES
  RowSettles
CHECK_DEADLOCK FALSE
