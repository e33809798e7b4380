SPECIFICATION DispatchSpec
CONSTANTS
  c1 = c1
  c2 = c2
  Callers = {c1, c2}
  MaxSteps = 12
  MaxCorrectionLoops = 1
  AssuranceLevel = "AL2"
  Completions = {}
  Calls <- CorrectionCalls
  Providers <- MCProviders
  Alias <- MCAlias
  ModelFamily <- MCFamily
  Supports <- MCSupports
  Outputs <- ReviewOutputs
  Cloud <- MCCloud
  MaxApprovals = 2
  MaxDispatches = 4
  MaxFaults = 0
  MAX_AUTONOMOUS_STEPS = 8
INVARIANTS
  ReviewedChange
SYMMETRY CallerSymmetry
CHECK_DEADLOCK FALSE
