------------------------ MODULE EngineeringStateMachine ------------------------
(***************************************************************************)
(* The pure transition function of an engineering workflow                 *)
(* (packages/contracts/src/engineering/state-machine.ts, human-decision.ts *)
(* and the reviewer resolution of review.ts).                              *)
(*                                                                         *)
(* An optional value of the source is NONE when its values are strings,    *)
(* and a sequence of length at most one when they are records.  A step     *)
(* type, a verdict, a status and a reason keep their source spelling;      *)
(* identifiers and model families are opaque.                              *)
(***************************************************************************)
EXTENDS Naturals, Sequences, FiniteSets

NONE == "NONE"

EngineeringStepType ==
  {"PLAN", "BUILD", "TEST", "PACKAGE", "RED_TEAM", "PARSE_VERDICT",
   "CORRECTION", "VERIFY", "HUMAN_RELEASE_GATE", "RELEASE_EXECUTION",
   "REMOTE_VERIFY"}

ReviewVerdict == {"A", "B", "C", "D"}

BlockReasonType ==
  {"LOOP_EXHAUSTED", "REVIEW_DISAGREEMENT", "HUMAN_DECISION_REQUIRED",
   "ASSURANCE_UNSATISFIED", "HUMAN_APPROVAL_MISSING", "PROVIDER_BLOCKED"}

\* The provider statuses that block a run instead of failing the step.
BlockingProviderStatus == {"QUOTA_BLOCKED", "POLICY_BLOCKED"}

-----------------------------------------------------------------------------
(* Outcomes: one record shape for the four kinds of TransitionOutcome.     *)

NextStep(t)     == [kind |-> "NEXT_STEP", nextStep |-> t, reason |-> NONE]
Blocked(reason) == [kind |-> "BLOCKED", nextStep |-> NONE, reason |-> reason]
Completed       == [kind |-> "COMPLETED", nextStep |-> NONE, reason |-> NONE]
Failed          == [kind |-> "FAILED", nextStep |-> NONE, reason |-> NONE]

TransitionOutcome ==
  {NextStep(t) : t \in EngineeringStepType}
    \cup {Blocked(r) : r \in BlockReasonType} \cup {Completed, Failed}

-----------------------------------------------------------------------------
(* Reviews.  A ReviewResult is [verdict, reviewerExecutionId].             *)

\* Whether the reviewers agree.
resolveReviewerDisagreement(reviewResults) ==
  \A i \in DOMAIN reviewResults :
    reviewResults[i].verdict = reviewResults[1].verdict

\* The effective verdict, or NONE when the reviewers disagree or none spoke.
resolveVerdict(input) ==
  IF input.reviewResults = <<>>
  THEN input.verdict
  ELSE IF resolveReviewerDisagreement(input.reviewResults)
       THEN input.reviewResults[1].verdict
       ELSE NONE

Distinct(s) == {s[i] : i \in DOMAIN s}

\* NONE when the model families are independent, else the reason why not; a
\* family is NONE when the source has an empty string.
checkAl4Independence(ctx, reviewerCount) ==
  LET families == ctx.previousReviewerModelFamilies IN
  IF reviewerCount < 2 THEN "MIN_REVIEWER_COUNT_UNSATISFIED"
  ELSE IF Len(families) < 2 THEN "MODEL_FAMILY_REQUIREMENT_UNSATISFIED"
  ELSE IF ctx.builderModelFamily = NONE THEN "BUILDER_MODEL_FAMILY_UNKNOWN"
  ELSE IF families[1] = ctx.builderModelFamily
       THEN "REVIEWER_INDEPENDENCE_UNSATISFIED"
  ELSE IF families[1] # NONE /\ families[2] # NONE /\ families[1] = families[2]
       THEN "MODEL_FAMILY_REQUIREMENT_UNSATISFIED"
  ELSE NONE

\* Mutant: a family is compared with the builder's only when both are known.
familyReasonOpen(ctx) ==
  LET families == ctx.previousReviewerModelFamilies IN
  IF Len(families) < 2 THEN "MODEL_FAMILY_REQUIREMENT_UNSATISFIED"
  ELSE IF ctx.builderModelFamily # NONE /\ families[1] = ctx.builderModelFamily
       THEN "REVIEWER_INDEPENDENCE_UNSATISFIED"
  ELSE IF families[1] # NONE /\ families[1] = families[2]
       THEN "MODEL_FAMILY_REQUIREMENT_UNSATISFIED"
  ELSE NONE

\* The last four checks of enforceAl4Requirements, on model families.
familyReason(ctx) ==
  LET families == ctx.previousReviewerModelFamilies IN
  IF Len(families) < 2 THEN "MODEL_FAMILY_REQUIREMENT_UNSATISFIED"
  ELSE IF ctx.builderModelFamily = NONE THEN "BUILDER_MODEL_FAMILY_UNKNOWN"
  ELSE IF families[1] = ctx.builderModelFamily
       THEN "REVIEWER_INDEPENDENCE_UNSATISFIED"
  ELSE IF families[1] # NONE /\ families[2] # NONE /\ families[1] = families[2]
       THEN "MODEL_FAMILY_REQUIREMENT_UNSATISFIED"
  ELSE NONE

\* NONE when the AL4 evidence suffices, else the reason why it does not.
enforceAl4Requirements(input) ==
  LET results    == input.reviewResults
      executions == {results[i].reviewerExecutionId : i \in DOMAIN results}
      context    == input.independenceContext IN
  IF input.assuranceLevel # "AL4" THEN NONE
  ELSE IF Len(results) < 2 THEN "REVIEW_EVIDENCE_INSUFFICIENT"
  ELSE IF Cardinality(executions) < Len(results)
       THEN "REVIEWER_EXECUTION_NOT_DISTINCT"
  ELSE IF context = <<>> THEN "MIN_REVIEWER_COUNT_UNSATISFIED"
  ELSE IF Cardinality(Distinct(context[1].previousReviewerProviderIds)) < 2
       THEN "REVIEWER_PROVIDER_NOT_DISTINCT"
  ELSE familyReason(context[1])

-----------------------------------------------------------------------------
(* The transition function.                                                *)

\* Mutant: a correction is verified without another review.
SuccessorUnreviewed ==
  [PLAN |-> "BUILD", BUILD |-> "TEST", TEST |-> "PACKAGE", PACKAGE |-> "RED_TEAM",
   RED_TEAM |-> "PARSE_VERDICT", CORRECTION |-> "VERIFY", VERIFY |-> "HUMAN_RELEASE_GATE",
   RELEASE_EXECUTION |-> "REMOTE_VERIFY"]

\* What follows a step that succeeded; the steps with rules of their own
\* (PARSE_VERDICT, HUMAN_RELEASE_GATE, REMOTE_VERIFY) are not in the table.
SuccessorOf ==
  [PLAN |-> "BUILD", BUILD |-> "TEST", TEST |-> "PACKAGE", PACKAGE |-> "RED_TEAM",
   RED_TEAM |-> "PARSE_VERDICT", CORRECTION |-> "TEST", VERIFY |-> "HUMAN_RELEASE_GATE",
   RELEASE_EXECUTION |-> "REMOTE_VERIFY"]

\* Mutant: the budget is compared with the wrong operator.
enterCorrectionOffByOne(count, max) ==
  IF count > max THEN Blocked("LOOP_EXHAUSTED") ELSE NextStep("CORRECTION")

\* A correction is due: enter it while the loop budget lasts.
enterCorrection(count, max) ==
  IF count >= max THEN Blocked("LOOP_EXHAUSTED") ELSE NextStep("CORRECTION")

onVerdict(input) ==
  LET verdict == resolveVerdict(input) IN
  IF verdict = NONE THEN Blocked("REVIEW_DISAGREEMENT")
  ELSE IF enforceAl4Requirements(input) # NONE THEN Blocked("ASSURANCE_UNSATISFIED")
  ELSE IF verdict \in {"A", "B"} THEN NextStep("VERIFY")
  ELSE IF verdict = "C"
       THEN enterCorrection(input.correctionLoopCount, input.maxCorrectionLoops)
  ELSE Blocked("HUMAN_DECISION_REQUIRED")

onSuccess(input) ==
  IF input.completedStep = "PARSE_VERDICT" THEN onVerdict(input)
  ELSE IF input.completedStep = "REMOTE_VERIFY" THEN Completed
  ELSE NextStep(SuccessorOf[input.completedStep])

onFailure(input) ==
  IF input.completedStep = "TEST"
  THEN enterCorrection(input.correctionLoopCount, input.maxCorrectionLoops)
  ELSE Failed

\* Mutant: the gate opens for a step that succeeded, as the other steps do.
onGateBySuccess(input) ==
  IF input.stepStatus = "SUCCEEDED" THEN NextStep("RELEASE_EXECUTION")
  ELSE Blocked("HUMAN_APPROVAL_MISSING")

\* The human gate looks at the approval only, whatever the step status is.
onGate(input) ==
  IF input.humanApproved THEN NextStep("RELEASE_EXECUTION")
  ELSE Blocked("HUMAN_APPROVAL_MISSING")

nextEngineeringStep(input) ==
  IF input.providerStatus \in BlockingProviderStatus
  THEN Blocked("PROVIDER_BLOCKED")
  ELSE IF input.completedStep = "HUMAN_RELEASE_GATE"
       THEN onGate(input)
  ELSE IF input.stepStatus = "SUCCEEDED" THEN onSuccess(input)
  ELSE onFailure(input)

\* nextEngineeringHumanDecision for the block HUMAN_DECISION_REQUIRED of a
\* verdict D, the only one its caller passes.
nextEngineeringHumanDecision(count, max) == enterCorrection(count, max)
=============================================================================
