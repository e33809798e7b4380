SPECIFICATION Spec
CONSTANTS
  c1 = c1
  c2 = c2
  Callers = {c1, c2}
  MaxSteps = 2
  MaxCorrectionLoops = 1
  AssuranceLevel = "AL2"
  Completions <- AllCompletions
  Calls <- RaceCalls
SYMMETRY CallerSymmetry
PROPERTIES TerminalRunStays
CHECK_DEADLOCK FALSE
