SPECIFICATION Spec
CONSTANTS
  c1 = c1
  c2 = c2
  Callers = {c1, c2}
  MaxSteps = 18
  MaxCorrectionLoops = 1
  AssuranceLevel = "AL2"
  Completions <- AllCompletions
  Calls <- RecoveryCalls
SYMMETRY CallerSymmetry
INVARIANTS ReleaseLineage
CHECK_DEADLOCK FALSE
