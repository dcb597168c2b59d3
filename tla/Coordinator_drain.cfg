SPECIFICATION AnsweringSpec
CONSTANTS
  NJobs = 1
  Routes = {"hotfix"}
  MaxEdits = 0
  MaxTaskEdits = 0
  MaxCrashes = 0
  MaxDrops = 0
  MaxExternal = 0
PROPERTIES
  DrainCompletes
CHECK_DEADLOCK FALSE
