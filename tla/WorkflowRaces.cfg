SPECIFICATION Spec
CONSTANTS
  c1 = c1
  c2 = c2
  Callers = {c1, c2}
  MaxSteps = 7
  MaxCorrectionLoops = 1
  AssuranceLevel = "AL2"
  Completions <- RaceCompletions
  Calls <- RaceCalls
SYMMETRY CallerSymmetry
INVARIANTS TypeOK SingleThread LoopAccounting CancelSignalled
PROPERTIES StepsFinal
CHECK_DEADLOCK FALSE
