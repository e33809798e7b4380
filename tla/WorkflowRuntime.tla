---------------------------- MODULE WorkflowRuntime ----------------------------
(***************************************************************************)
(* The persisted engineering workflow of one WorkflowRun: the service      *)
(* workflow-runtime.service.ts and the four human decision and recovery    *)
(* services beside it, called concurrently by HTTP requests of one API     *)
(* process over PostgreSQL at READ COMMITTED.                              *)
(*                                                                         *)
(* Atomicity.  A call reads rows without locking them, then writes.  Each  *)
(* read on whose result a later write depends is a step of its own, and    *)
(* the writes of a transaction with its commit are one step: every write   *)
(* re-evaluates its WHERE clause on the latest committed row and keeps     *)
(* the row locked until the commit, so the writes take effect together.    *)
(* Two transactions that lock the run and a step in opposite order         *)
(* (completeStep: step, run; the others: run, step) make PostgreSQL abort  *)
(* one of them: Abort, which also stands for a lost connection or a        *)
(* failing audit insert.  A call refused by its first reads changes        *)
(* nothing and is not a step.                                              *)
(*                                                                         *)
(* Left out: timestamps, attempt numbers, failure texts and the content of *)
(* audit events; of a step's metadata only what a later guard reads.       *)
(***************************************************************************)
EXTENDS EngineeringStateMachine

CONSTANTS
  Callers,             \* requests that may be in flight at the same time
  MaxSteps,            \* bound on the steps created for the run
  MaxCorrectionLoops,  \* WorkflowRun.maxCorrectionLoops
  AssuranceLevel,      \* WorkflowRun.assuranceLevel
  Completions,         \* the completions the callers of completeStep report
  Calls                \* bound on the calls of each kind

RunStatus == {"CREATED", "RUNNING", "WAITING_FOR_HUMAN", "BLOCKED",
              "COMPLETED", "FAILED", "CANCELLED"}
TerminalRun == {"COMPLETED", "FAILED", "CANCELLED"}

StepStatus == {"PENDING", "READY", "RUNNING", "WAITING",
               "SUCCEEDED", "FAILED", "SKIPPED", "CANCELLED"}
TerminalStep == {"SUCCEEDED", "FAILED", "SKIPPED", "CANCELLED"}
NONTERMINAL_STEP_STATUSES == {"PENDING", "READY", "RUNNING", "WAITING"}

\* What a completion writes into the step's metadata that later guards read.
Metadata == ReviewVerdict \cup {"PASS", "LEGACY", "HUMAN_RELEASE_APPROVAL", NONE}

ReviewResult == [verdict : ReviewVerdict, reviewerExecutionId : STRING]
IndependenceContext ==
  [builderModelFamily : STRING, previousReviewerProviderIds : Seq(STRING),
   previousReviewerModelFamilies : Seq(STRING)]

\* CompleteStepInput, with the type of the step its caller reports on.
CompleteStepInput ==
  [stepType : EngineeringStepType, stepStatus : {"SUCCEEDED", "FAILED"},
   providerStatus : BlockingProviderStatus \cup {NONE},
   verdict : ReviewVerdict \cup {NONE}, reviewResults : Seq(ReviewResult),
   independenceContext : Seq(IndependenceContext), humanApproved : BOOLEAN,
   metadata : Metadata]

CallKind == {"start", "cancel", "resume", "correction", "testRecovery",
             "verifyRecovery", "restart"}

ASSUME ConstantsAssumption ==
  /\ MaxSteps \in Nat /\ MaxCorrectionLoops \in Nat
  /\ Completions \subseteq CompleteStepInput
  /\ Calls \in [CallKind -> Nat]

\* Only the human release approval says humanApproved, and it reports a success.
ASSUME ApprovalAssumption ==
  \A in \in Completions : in.humanApproved =>
    /\ in.stepType = "HUMAN_RELEASE_GATE" /\ in.stepStatus = "SUCCEEDED"
    /\ in.providerStatus = NONE /\ in.metadata = "HUMAN_RELEASE_APPROVAL"

\* A verdict found in a completion's metadata is the verdict it reports, on a
\* PARSE_VERDICT step that succeeded.
ASSUME VerdictAssumption ==
  \A in \in Completions :
    in.metadata \in ReviewVerdict =>
      /\ in.stepType = "PARSE_VERDICT" /\ in.metadata = resolveVerdict(in)
      /\ in.stepStatus = "SUCCEEDED" /\ in.providerStatus = NONE

VARIABLES
  run,      \* the WorkflowRun row
  steps,    \* the WorkflowStepRun rows, numbered in order of creation
  created,  \* how many of them exist
  armed,    \* in-memory cancellation tombstone of the run
  op,       \* what each call in flight has read
  issued    \* calls made so far, by kind

vars == <<run, steps, created, armed, op, issued>>

StepId == 1..MaxSteps
NoStep == [stepType |-> NONE, status |-> NONE, causationId |-> 0, metadata |-> NONE]

\* Mutant: the status of a new run is given to a new step.
ReadyStepAsCreated(t, cause) ==
  [stepType |-> t, status |-> "CREATED", causationId |-> cause, metadata |-> NONE]

ReadyStep(t, cause) ==
  [stepType |-> t, status |-> "READY", causationId |-> cause, metadata |-> NONE]

NoInput == [stepType |-> NONE]
Idle == [call |-> "idle", step |-> 0, input |-> NoInput, loops |-> 0,
         stepType |-> NONE, reason |-> NONE, stale |-> {}]

Init ==
  /\ run = [status |-> "CREATED", currentStepType |-> NONE,
            correctionLoopCount |-> 0, blockReasonCode |-> NONE]
  /\ steps = [s \in StepId |-> NoStep]
  /\ created = 0
  /\ armed = FALSE
  /\ op = [c \in Callers |-> Idle]
  /\ issued = [k \in CallKind |-> 0]

-----------------------------------------------------------------------------
(* Helpers.                                                                *)

Existing == 1..created
Active(s) == steps[s].status \in NONTERMINAL_STEP_STATUSES
Latest(S) == CHOOSE s \in S : \A t \in S : t <= s

Issue(c, kind) ==
  /\ op[c].call = "idle"
  /\ issued[kind] < Calls[kind]
  /\ issued' = [issued EXCEPT ![kind] = @ + 1]

\* The call goes on with what it has read; the database is untouched.
Proceed(c, local) ==
  /\ op' = [op EXCEPT ![c] = local]
  /\ UNCHANGED <<run, steps, created, armed>>

\* The call returns or throws without having written anything.
Return(c) == Proceed(c, Idle) /\ UNCHANGED issued

\* A transaction commits and the call returns.
Commit(c) ==
  /\ op' = [op EXCEPT ![c] = Idle]
  /\ UNCHANGED <<armed, issued>>

\* A transaction that also inserts a READY step of type t.
CommitWithStep(c, rows, t, cause) ==
  /\ created < MaxSteps
  /\ created' = created + 1
  /\ steps' = [rows EXCEPT ![created + 1] = ReadyStep(t, cause)]
  /\ Commit(c)

Cancelled(rows, S) ==
  [s \in StepId |-> IF s \in S THEN [rows[s] EXCEPT !.status = "CANCELLED"] ELSE rows[s]]

-----------------------------------------------------------------------------
(* startRun: the status is read, then the row is updated by id alone, so   *)
(* that starts which overlap all commit.                                   *)

StartRead(c) ==
  /\ Issue(c, "start")
  /\ run.status = "CREATED"
  /\ Proceed(c, [Idle EXCEPT !.call = "start"])

StartCommit(c) ==
  /\ op[c].call = "start"
  /\ run' = [run EXCEPT !.status = "RUNNING", !.currentStepType = "PLAN"]
  /\ CommitWithStep(c, steps, "PLAN", 0)

-----------------------------------------------------------------------------
(* completeStep: checks outside the transaction, the same checks on fresh  *)
(* reads inside it, then the claim of the READY step with everything that  *)
(* follows from the state machine's outcome.                               *)

Completable(s) ==
  /\ run.status \notin TerminalRun
  /\ steps[s].status \notin TerminalStep
  /\ run.currentStepType \in {NONE, steps[s].stepType}

\* A worker (agent runtime, verdict service) reports on a step it was given
\* some time ago.
CompleteCall(c) ==
  /\ op[c].call = "idle"
  /\ \E s \in Existing, in \in Completions :
       /\ in.stepType = steps[s].stepType /\ ~in.humanApproved
       /\ Completable(s)
       /\ Proceed(c, [Idle EXCEPT !.call = "completeTx", !.step = s, !.input = in])
  /\ UNCHANGED issued

\* HumanReleaseApprovalService.approve: its own reads, then completeStep.
ApproveRead(c) ==
  LET gates == {s \in Existing : steps[s].stepType = "HUMAN_RELEASE_GATE"
                                 /\ steps[s].status = "READY"} IN
  /\ op[c].call = "idle"
  /\ run.status = "RUNNING" /\ run.currentStepType = "HUMAN_RELEASE_GATE"
  /\ gates # {}
  /\ \E in \in Completions :
       /\ in.humanApproved
       /\ Proceed(c, [Idle EXCEPT !.call = "approve", !.step = Latest(gates),
                                  !.input = in])
  /\ UNCHANGED issued

ApproveCall(c) ==
  /\ op[c].call = "approve"
  /\ IF Completable(op[c].step)
     THEN Proceed(c, [op[c] EXCEPT !.call = "completeTx"]) /\ UNCHANGED issued
     ELSE Return(c)

CompleteFreshRead(c) ==
  /\ op[c].call = "completeTx"
  /\ IF Completable(op[c].step)
     THEN /\ Proceed(c, [op[c] EXCEPT !.call = "completeClaim",
                                      !.loops = run.correctionLoopCount])
          /\ UNCHANGED issued
     ELSE Return(c)

\* Mutant: a completion without a provider status counts as provider-blocked.
completedStepWaits(row, in) ==
  [row EXCEPT !.status = IF in.providerStatus # "SUCCEEDED" THEN "WAITING" ELSE in.stepStatus,
              !.metadata = IF in.metadata = NONE THEN @ ELSE in.metadata]

\* The step's new status and metadata; a completion without metadata keeps
\* what the row has.
completedStep(row, in) ==
  [row EXCEPT !.status = IF in.providerStatus \in BlockingProviderStatus
                         THEN "WAITING" ELSE in.stepStatus,
              !.metadata = IF in.metadata = NONE THEN @ ELSE in.metadata]

\* The run row after an outcome; loops is the count read by the transaction.
transitionedRun(out, t, loops) ==
  IF out.kind = "NEXT_STEP"
  THEN [run EXCEPT !.status = "RUNNING", !.currentStepType = out.nextStep,
                   !.correctionLoopCount =
                      IF out.nextStep = "CORRECTION" THEN @ + 1 ELSE loops]
  ELSE IF out.kind = "BLOCKED"
  THEN [run EXCEPT !.status = "BLOCKED", !.blockReasonCode = out.reason,
                   !.currentStepType = IF out.reason = "PROVIDER_BLOCKED" THEN t ELSE NONE]
  ELSE [run EXCEPT !.status = out.kind, !.currentStepType = NONE]

StateMachineInput(in, t, loops) ==
  [completedStep |-> t, stepStatus |-> in.stepStatus,
   providerStatus |-> in.providerStatus, verdict |-> in.verdict,
   reviewResults |-> in.reviewResults, correctionLoopCount |-> loops,
   maxCorrectionLoops |-> MaxCorrectionLoops, humanApproved |-> in.humanApproved,
   independenceContext |-> in.independenceContext, assuranceLevel |-> AssuranceLevel]

\* Mutant: the claim updates the step by its id alone.
ClaimableById(s) == s \in Existing

\* The claim's WHERE clause.
Claimable(s) == steps[s].status = "READY"

CompleteCommit(c) ==
  LET s   == op[c].step
      in  == op[c].input
      t   == steps[s].stepType
      out == nextEngineeringStep(StateMachineInput(in, t, op[c].loops))
      rows == [steps EXCEPT ![s] = completedStep(@, in)] IN
  /\ op[c].call = "completeClaim"
  /\ Claimable(s)
  /\ run' = transitionedRun(out, t, op[c].loops)
  /\ IF out.kind = "NEXT_STEP"
     THEN CommitWithStep(c, rows, out.nextStep, s)
     ELSE steps' = rows /\ UNCHANGED created /\ Commit(c)

CompleteClaimLost(c) ==
  /\ op[c].call = "completeClaim"
  /\ ~Claimable(op[c].step)
  /\ Return(c)

-----------------------------------------------------------------------------
(* cancelRun, the human emergency stop.  After the commit the call arms    *)
(* the in-memory tombstone that stops executions of the run.               *)

\* Mutant: the call returns when the transaction has committed.
CancelReturns == Idle

\* What is left of the call after the commit.
SignalPending == [Idle EXCEPT !.call = "cancelSignal"]

CancelRead(c) ==
  /\ Issue(c, "cancel")
  /\ run.status \notin TerminalRun
  /\ Proceed(c, [Idle EXCEPT !.call = "cancel"])

\* The run is already CANCELLED: the tombstone is armed again.
CancelAgain(c) ==
  /\ Issue(c, "cancel")
  /\ run.status = "CANCELLED"
  /\ armed' = TRUE
  /\ UNCHANGED <<run, steps, created, op>>

CancelCommit(c) ==
  /\ op[c].call = "cancel"
  /\ run.status \notin TerminalRun
  /\ run' = [run EXCEPT !.status = "CANCELLED", !.currentStepType = NONE]
  /\ steps' = Cancelled(steps, {s \in Existing : Active(s)})
  /\ op' = [op EXCEPT ![c] = SignalPending]
  /\ UNCHANGED <<created, armed, issued>>

\* The claim failed: idempotent when someone else cancelled, else a conflict.
CancelClaimLost(c) ==
  /\ op[c].call = "cancel"
  /\ run.status \in TerminalRun
  /\ Proceed(c, IF run.status = "CANCELLED" THEN SignalPending ELSE Idle)
  /\ UNCHANGED issued

CancelSignal(c) ==
  /\ op[c].call = "cancelSignal"
  /\ armed' = TRUE
  /\ op' = [op EXCEPT ![c] = Idle]
  /\ UNCHANGED <<run, steps, created, issued>>

-----------------------------------------------------------------------------
(* resumeRun: the run is read before the transaction and updated by id     *)
(* alone.  A RUNNING run is left alone; no code writes WAITING_FOR_HUMAN,  *)
(* so its branch is never taken.                                           *)

ResumeRead(c) ==
  /\ Issue(c, "resume")
  /\ run.status = "BLOCKED"
  /\ run.blockReasonCode # "HUMAN_DECISION_REQUIRED"
  /\ Proceed(c, [Idle EXCEPT !.call = "resume", !.stepType = run.currentStepType,
                             !.reason = run.blockReasonCode])

\* The steps that the call returns to READY.
ReturnedToReady(c) ==
  {s \in Existing : /\ op[c].reason = "PROVIDER_BLOCKED"
                    /\ steps[s].stepType = op[c].stepType
                    /\ steps[s].status = "WAITING"}

ResumeCommit(c) ==
  /\ op[c].call = "resume"
  /\ run' = [run EXCEPT !.status = "RUNNING", !.blockReasonCode = NONE]
  /\ steps' = [s \in StepId |-> IF s \in ReturnedToReady(c)
                                THEN [steps[s] EXCEPT !.status = "READY"]
                                ELSE steps[s]]
  /\ UNCHANGED created
  /\ Commit(c)

-----------------------------------------------------------------------------
(* HumanDecisionCorrectionService.requestCorrection: a verdict D is        *)
(* answered by a correction.                                               *)

AwaitsDecision == /\ run.status = "BLOCKED"
                  /\ run.blockReasonCode = "HUMAN_DECISION_REQUIRED"
                  /\ run.currentStepType = NONE

Succeeded(t) == {s \in Existing : steps[s].stepType = t /\ steps[s].status = "SUCCEEDED"}

CorrectionRead(c) ==
  /\ Issue(c, "correction")
  /\ AwaitsDecision
  /\ Succeeded("PARSE_VERDICT") # {}
  /\ steps[Latest(Succeeded("PARSE_VERDICT"))].metadata \in {"D", NONE}
  /\ nextEngineeringHumanDecision(run.correctionLoopCount, MaxCorrectionLoops)
       = NextStep("CORRECTION")
  /\ Proceed(c, [Idle EXCEPT !.call = "correction",
                             !.step = Latest(Succeeded("PARSE_VERDICT")),
                             !.loops = run.correctionLoopCount])

CorrectionCommit(c) ==
  /\ op[c].call = "correction"
  /\ AwaitsDecision /\ run.correctionLoopCount = op[c].loops
  /\ run' = [run EXCEPT !.status = "RUNNING", !.currentStepType = "CORRECTION",
                        !.blockReasonCode = NONE, !.correctionLoopCount = @ + 1]
  /\ CommitWithStep(c, steps, "CORRECTION", op[c].step)

-----------------------------------------------------------------------------
(* LoopExhaustedTestRecoveryService.recover: one more TEST after the loop  *)
(* budget is spent, from the latest succeeded CORRECTION.                  *)

LoopExhausted == /\ run.status = "BLOCKED"
                 /\ run.blockReasonCode = "LOOP_EXHAUSTED"
                 /\ run.currentStepType = NONE

TestRecoveryRead(c) ==
  /\ Issue(c, "testRecovery")
  /\ LoopExhausted /\ run.correctionLoopCount = MaxCorrectionLoops
  /\ Succeeded("CORRECTION") # {}
  /\ Proceed(c, [Idle EXCEPT !.call = "testRecovery",
                             !.step = Latest(Succeeded("CORRECTION")),
                             !.loops = run.correctionLoopCount,
                             !.stale = {s \in Existing : Active(s)}])

\* All the stale steps it read must still be there to be cancelled.
TestRecoveryCommit(c) ==
  /\ op[c].call = "testRecovery"
  /\ LoopExhausted /\ run.correctionLoopCount = op[c].loops
  /\ \A s \in op[c].stale : Active(s)
  /\ run' = [run EXCEPT !.status = "RUNNING", !.currentStepType = "TEST",
                        !.blockReasonCode = NONE]
  /\ CommitWithStep(c, Cancelled(steps, op[c].stale), "TEST", op[c].step)

-----------------------------------------------------------------------------
(* ReleaseVerificationRecoveryService.recover: a human release gate that   *)
(* rests on a VERIFY without a structured PASS is replaced by a new VERIFY.*)

AtReleaseGate == run.status = "RUNNING" /\ run.currentStepType = "HUMAN_RELEASE_GATE"

VerifyRecoveryRead(c) ==
  /\ Issue(c, "verifyRecovery")
  /\ AtReleaseGate
  /\ \E gate \in Existing :
       LET verify == steps[gate].causationId IN
       /\ {s \in Existing : Active(s)} = {gate}
       /\ steps[gate].stepType = "HUMAN_RELEASE_GATE" /\ steps[gate].status = "READY"
       /\ verify \in Succeeded("VERIFY")
       /\ steps[verify].causationId # 0
       /\ steps[verify].metadata = "LEGACY"
       /\ Proceed(c, [Idle EXCEPT !.call = "verifyRecovery", !.step = gate,
                                  !.loops = run.correctionLoopCount])

VerifyRecoveryCommit(c) ==
  LET gate == op[c].step IN
  /\ op[c].call = "verifyRecovery"
  /\ AtReleaseGate /\ run.correctionLoopCount = op[c].loops
  /\ steps[gate].status = "READY"
  /\ run' = [run EXCEPT !.currentStepType = "VERIFY", !.blockReasonCode = NONE]
  /\ CommitWithStep(c, Cancelled(steps, {gate}), "VERIFY",
                    steps[steps[gate].causationId].causationId)

-----------------------------------------------------------------------------
(* A transaction rolls back (its claim found no row, a deadlock, a failed  *)
(* audit insert), and the API process dies: both leave the database as it  *)
(* is, the second loses everything in memory.                              *)

Abort(c) == op[c].call \notin {"idle", "cancelSignal"} /\ Return(c)

Restart ==
  /\ issued["restart"] < Calls["restart"]
  /\ issued' = [issued EXCEPT !["restart"] = @ + 1]
  /\ op' = [c \in Callers |-> Idle]
  /\ armed' = FALSE
  /\ UNCHANGED <<run, steps, created>>

Next ==
  \/ \E c \in Callers :
       \/ StartRead(c) \/ StartCommit(c)
       \/ CompleteCall(c) \/ ApproveRead(c) \/ ApproveCall(c)
       \/ CompleteFreshRead(c) \/ CompleteCommit(c) \/ CompleteClaimLost(c)
       \/ CancelRead(c) \/ CancelAgain(c) \/ CancelCommit(c)
       \/ CancelClaimLost(c) \/ CancelSignal(c)
       \/ ResumeRead(c) \/ ResumeCommit(c)
       \/ CorrectionRead(c) \/ CorrectionCommit(c)
       \/ TestRecoveryRead(c) \/ TestRecoveryCommit(c)
       \/ VerifyRecoveryRead(c) \/ VerifyRecoveryCommit(c)
       \/ Abort(c)
  \/ Restart

Spec == Init /\ [][Next]_vars

-----------------------------------------------------------------------------
(* Properties.                                                             *)

\* The rows and the local state of the calls have their declared types, and a
\* call works on steps that exist.
TypeOK ==
  /\ run \in [status : RunStatus, currentStepType : EngineeringStepType \cup {NONE},
             correctionLoopCount : Nat, blockReasonCode : BlockReasonType \cup {NONE}]
  /\ created \in 0..MaxSteps
  /\ steps \in [StepId -> [stepType : EngineeringStepType \cup {NONE},
                          status : StepStatus \cup {NONE},
                          causationId : 0..MaxSteps, metadata : Metadata]]
  /\ \A s \in StepId : s \in Existing <=> steps[s].status # NONE
  /\ \A s \in StepId : s \in Existing <=> steps[s].stepType # NONE
  /\ armed \in BOOLEAN
  /\ \A c \in Callers : op[c].step \in 0..created /\ op[c].stale \subseteq Existing
  /\ issued \in [CallKind -> Nat]

\* The starts that committed: no other transaction inserts a PLAN step.
Starts == {s \in Existing : steps[s].stepType = "PLAN"}
Corrections == {s \in Existing : steps[s].stepType = "CORRECTION"}
OpenSteps == {s \in Existing : Active(s)}

\* A run is started at most once: startRun refuses one that is not CREATED ("WorkflowRun
\* ist nicht im CREATED-Status").  Starts that overlap break this, and what follows says
\* what holds with and without it.
StartedOnce == Cardinality(Starts) <= 1

\* The threads of work: the open steps, and the one that the human whom the run
\* waits for may open.
Threads == Cardinality(OpenSteps) + IF AwaitsDecision \/ LoopExhausted THEN 1 ELSE 0

\* The denormalised run row agrees with the step rows: an open step is the one that
\* currentStepType names, and the run is not terminal.  A cancellation thus leaves no
\* open step behind, and a report on an open step is never mistaken for one on another.
OpenStepIsCurrent ==
  \A s \in OpenSteps : /\ run.currentStepType = steps[s].stepType
                       /\ run.status \in {"RUNNING", "BLOCKED"}

\* Whatever calls race, only startRun begins a thread of work: no completion, resume,
\* correction or recovery, however late, continues a branch twice, so there are never
\* more threads than starts that committed.  A run that was started once has one open
\* step at a time, and the run row names it.
SingleThread ==
  /\ Threads <= Cardinality(Starts)
  /\ StartedOnce => OpenStepIsCurrent

\* correctionLoopCount, which completeStep writes from a value it read earlier, never
\* charges a run for a correction that was not entered, whatever calls race.  In a run
\* that was started once it is the number of CORRECTION steps entered, provider blocks
\* and recoveries not counted, and never exceeds the budget.
LoopAccounting ==
  /\ run.correctionLoopCount <= Cardinality(Corrections)
  /\ StartedOnce => /\ run.correctionLoopCount = Cardinality(Corrections)
                    /\ run.correctionLoopCount <= MaxCorrectionLoops

\* A release execution is created only through a gate that a human approved,
\* behind a verification that succeeded, behind a verdict that was neither C
\* nor D: no retry, resume or recovery makes a shorter way to the release.
ReleaseLineage ==
  \A s \in Existing : steps[s].stepType = "RELEASE_EXECUTION" =>
    LET gate   == steps[s].causationId
        verify == steps[gate].causationId
        parse  == steps[verify].causationId IN
    /\ gate \in Succeeded("HUMAN_RELEASE_GATE")
    /\ steps[gate].metadata = "HUMAN_RELEASE_APPROVAL"
    /\ verify \in Succeeded("VERIFY")
    /\ parse \in Succeeded("PARSE_VERDICT")
    /\ steps[parse].metadata \notin {"C", "D"}

\* A cancelled run whose executions have not been signalled is one whose
\* cancelRun call is still about to signal them, or the process restarted.
CancelSignalled ==
  run.status = "CANCELLED" /\ ~armed =>
    \/ \E c \in Callers : op[c].call = "cancelSignal"
    \/ issued["restart"] > 0

\* A step that reached a terminal status is never written again, whichever
\* late completion, resume or recovery arrives: the evidence it holds is final.
StepsFinal ==
  [][\A s \in Existing : steps[s].status \in TerminalStep => steps'[s] = steps[s]]_vars

-----------------------------------------------------------------------------
(* What messages, comments and documents of the repository say and the     *)
(* code, run concurrently, does not keep.                                  *)

\* A run that reached a terminal status stays there (resumeRun's refusal "ist
\* terminal ... und kann nicht fortgesetzt werden").
TerminalRunStays ==
  [][run.status \in TerminalRun => run'.status = run.status]_vars
====
