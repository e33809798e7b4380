--------------------------- MODULE MCWorkflowRuntime ---------------------------
(***************************************************************************)
(* Instances of WorkflowRuntime for TLC: the completions that the agent    *)
(* runtime, the verdict service and the release approval report, and the   *)
(* numbers of calls of each run.                                           *)
(***************************************************************************)
EXTENDS WorkflowRuntime, TLC

CONSTANTS c1, c2

Completion(t, status) ==
  [stepType |-> t, stepStatus |-> status, providerStatus |-> NONE, verdict |-> NONE,
   reviewResults |-> <<>>, independenceContext |-> <<>>, humanApproved |-> FALSE,
   metadata |-> NONE]

Success(t) == Completion(t, "SUCCEEDED")
Failure(t) == Completion(t, "FAILED")
ProviderBlock(t) == [Failure(t) EXCEPT !.providerStatus = "QUOTA_BLOCKED"]
Verdict(v) == [Success("PARSE_VERDICT") EXCEPT !.verdict = v, !.metadata = v]
Verified(m) == [Success("VERIFY") EXCEPT !.metadata = m]
Approval == [Success("HUMAN_RELEASE_GATE") EXCEPT !.humanApproved = TRUE,
                                                  !.metadata = "HUMAN_RELEASE_APPROVAL"]

\* The way to a completed run, and the ways off it.
HappyPath ==
  {Success(t) : t \in {"PLAN", "BUILD", "TEST", "PACKAGE", "RED_TEAM", "CORRECTION",
                       "RELEASE_EXECUTION", "REMOTE_VERIFY"}}
    \cup {Verdict("A"), Verified("PASS"), Approval}

AllCompletions ==
  HappyPath
    \cup {Verdict("C"), Verdict("D"), Verified("LEGACY"), Failure("TEST"),
          Failure("BUILD"), ProviderBlock("BUILD"), ProviderBlock("TEST"),
          Success("HUMAN_RELEASE_GATE")}

\* What is reported, and the calls of each kind, in the run on lifecycle races.
RaceCompletions == AllCompletions \ {Failure("BUILD")}
RaceCalls == [k \in CallKind |-> IF k \in {"start", "cancel", "resume"} THEN 2
                                ELSE IF k = "verifyRecovery" THEN 0 ELSE 1]

\* Calls of each kind in the run on the ways to the release.
RecoveryCalls == [k \in CallKind |-> IF k = "restart" THEN 0 ELSE 1]

\* The calls are alike: a state and its image under a swap behave the same.
CallerSymmetry == Permutations(Callers)
=============================================================================
