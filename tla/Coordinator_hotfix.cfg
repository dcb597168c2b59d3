SPECIFICATION Spec
CONSTANTS
  NJobs = 2
  Routes = {"hotfix"}
  MaxEdits = 0
  MaxTaskEdits = 0
  MaxCrashes = 2
  MaxDrops = 1
  MaxExternal = 1
INVARIANTS
  AtMostOnceApply
  SingleApplier
  HonestAttribution
  MutatesPreparedState
  PlanAppliedOnce
PROPERTIES
  TerminalSticky
  ImplementsApplyOnce
CHECK_DEADLOCK FALSE
