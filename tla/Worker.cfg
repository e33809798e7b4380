SPECIFICATION Spec
CONSTANTS
  NONE = NONE
  r1 = r1
  r2 = r2
  e1 = e1
  e2 = e2
  Runs = {r1, r2}
  Execs = {e1, e2}
  Request <- MCRequest
  MAX_CANCELLATION_TOMBSTONES = 1
  MaxCancels = 2
  MaxFaults = 2
  MaxCrashes = 1
INVARIANTS
  CancelledIsSignalled
  WorkspaceExclusive
PROPERTIES
  ResultIsTrue
  EveryExecutionEnds
CHECK_DEADLOCK FALSE
