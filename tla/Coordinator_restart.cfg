SPECIFICATION Spec
CONSTANTS
  NJobs = 1
  Routes = {"hotfix"}
  MaxEdits = 0
  MaxTaskEdits = 0
  MaxCrashes = 1
  MaxDrops = 0
  MaxExternal = 0
INVARIANTS
  HonestAfterRestart
CHECK_DEADLOCK FALSE
