-------------------------- MODULE MCWorkflowDispatch --------------------------
(***************************************************************************)
(* Instances of WorkflowDispatch for TLC: two builders, of which one shares *)
(* the command of the other's twin, and two reviewers.                     *)
(***************************************************************************)
EXTENDS WorkflowDispatch, TLC

CONSTANTS c1, c2

MCProviders == {"codex", "claude", "gemini", "codex2"}
MCAlias == [codex |-> "codex", codex2 |-> "codex", claude |-> "claude", gemini |-> "gemini"]
MCFamily == [codex |-> "gpt", codex2 |-> "gpt", claude |-> "anthropic", gemini |-> "google"]

\* Two providers with two commands may build, two with one command may test.
MCSupports ==
  [codex  |-> {"BUILD", "TEST"}, codex2 |-> {"TEST", "PACKAGE"},
   claude |-> {"BUILD", "CORRECTION", "RED_TEAM"}, gemini |-> {"RED_TEAM", "VERIFY"}]

MCOutputs ==
  [t \in EngineeringStepType |->
     {NONE} \cup CASE t = "RED_TEAM" -> {"A"} [] t = "CORRECTION" -> {"CHANGED", "EMPTY"}
                   [] t = "TEST" -> {"PASS", "FAIL"} [] t = "VERIFY" -> {"PASS"}
                   [] OTHER -> {"DONE"}]

MCCloud == {"claude", "codex2", "gemini"}

DispatchCalls == [k \in CallKind |-> IF k \in {"resume", "restart"} THEN 1 ELSE 0]

\* A single reviewer, whose verdict may ask for a correction or for a human.
ReviewOutputs == [MCOutputs EXCEPT !["RED_TEAM"] = {NONE, "A", "C", "D"},
                                   !["TEST"] = {NONE, "PASS"}]

CorrectionCalls == [k \in CallKind |-> IF k = "correction" THEN 1 ELSE 0]

CallerSymmetry == Permutations(Callers)
=============================================================================
