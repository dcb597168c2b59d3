SPECIFICATION FairSpec
CONSTANTS
  NJobs = 1
  Routes = {"hotfix", "reload", "composite"}
  MaxEdits = 1
  MaxTaskEdits = 1
  MaxCrashes = 2
  MaxDrops = 0
  MaxExternal = 1
INVARIANTS
  TypeOK
  AtMostOnceCompile
  ApprovalRespected
  CompletedMeansApplied
  TouchedNeverReplayed
PROPERTIES
  JobSettles
CHECK_DEADLOCK FALSE
