SPECIFICATION DispatchSpec
CONSTANTS
  c1 = c1
  c2 = c2
  Callers = {c1, c2}
  MaxSteps = 7
  MaxCorrectionLoops = 1
  AssuranceLevel = "AL4"
  Completions = {}
  Calls <- DispatchCalls
  Providers <- MCProviders
  Alias <- MCAlias
  ModelFamily <- MCFamily
  Supports <- MCSupports
  Outputs <- MCOutputs
  Cloud <- MCCloud
  MaxApprovals = 2
  MaxDispatches = 3
  MaxFaults = 1
  MAX_AUTONOMOUS_STEPS = 3
INVARIANTS
  SuccessIsItsProviders
  ExecutedOnce
  Al4Independent
SYMMETRY CallerSymmetry
CHECK_DEADLOCK FALSE
