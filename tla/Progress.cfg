SPECIFICATION ProgressSpec
CONSTANTS
  ABSENT = ABSENT
  c1 = c1
  c2 = c2
  Calls = {"push", "read"}
  Request <- MCRequest
  Restarts = 1
  RequestIds = {"k1"}
  Bodies = {"canonical", "probe"}
  canonical = "canonical"
  probe = "probe"
  Others = {c1, c2}
  harness = "harness"
  Outcomes <- MCOutcomes
  MaxFaults = 1
INVARIANTS
  DispatchedOnce
  HarnessVerdict
PROPERTIES
  BridgeImplementsSingleUse
  TaskSettles
  CallReturns
CHECK_DEADLOCK FALSE
