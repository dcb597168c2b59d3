SPECIFICATION FairSpec
CONSTANTS
  Requests = {r1, r2}
  Clients = {c1, c2}
  ShutdownIds = {s1}
  MaxSends = 3
  MaxStops = 2
INVARIANTS
  TypeOK
  DispatchedOnce
  OneAnswer
  ExitSafe
PROPERTIES
  NoNewWork
  DrainStops
CHECK_DEADLOCK FALSE
