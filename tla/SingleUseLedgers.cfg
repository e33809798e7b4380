SPECIFICATION SingleUseSpec
CONSTANTS
  a1 = a1
  a2 = a2
  c1 = c1
  c2 = c2
  Calls <- MixedCalls
  Request <- MixedRequests
  Restarts = 1
  Approvals = {a1, a2}
  Missions <- MissionIds
  Steps <- StepIds
  MissionOf <- StepMission
  RequestKeys = {"r1", "r2"}
  PublicKeys = {"k1", "s1"}
  Callers = {c1, c2}
  MaxCalls = 6
SYMMETRY IdSymmetry
INVARIANTS
  AtMostOneExecution
  LedgersTruthful
  AuthorisedOnce
PROPERTIES
  ImplementsSingleUse
  RevokedStaysUnused
  ApprovalsImplementSingleUse
CHECK_DEADLOCK FALSE
