------------------------- MODULE WorkflowRuntimeProofs -------------------------
(***************************************************************************)
(* Proofs about WorkflowRuntime, for any number of callers, steps, calls   *)
(* and correction loops, starts that overlap included.                     *)
(*                                                                         *)
(* Inv is the inductive invariant: Core speaks of the rows, InFlight of    *)
(* what each call may still rely on of what it read.  Every commit is an   *)
(* update in place or an insertion, and lets the rows evolve (Evolves) so  *)
(* that all the other calls go on relying on what they read.               *)
(***************************************************************************)
EXTENDS WorkflowRuntime, FiniteSetTheorems, WellFoundedInduction, TLAPS

-----------------------------------------------------------------------------
(* The transition function.                                                *)

\* What completeStep relies on of nextEngineeringStep: a provider block never
\* advances the run, a correction is entered within the budget only, and the
\* release path is entered from the step before it only.
LEMMA TransitionFacts ==
  ASSUME NEW in \in CompleteStepInput, NEW t \in EngineeringStepType, NEW loops \in Nat,
         NEW out, out = nextEngineeringStep(StateMachineInput(in, t, loops))
  PROVE  /\ out.kind \in {"NEXT_STEP", "BLOCKED", "COMPLETED", "FAILED"}
         /\ out.nextStep \in EngineeringStepType \cup {NONE}
         /\ out.kind = "NEXT_STEP" => out.nextStep \in EngineeringStepType
         /\ out.kind = "BLOCKED" => out.reason \in BlockReasonType
         /\ in.providerStatus \in BlockingProviderStatus =>
              out.kind = "BLOCKED" /\ out.reason = "PROVIDER_BLOCKED"
         /\ out.nextStep = "CORRECTION" => ~(loops >= MaxCorrectionLoops)
         /\ out.nextStep = "VERIFY" =>
              /\ t = "PARSE_VERDICT" /\ in.stepStatus = "SUCCEEDED"
              /\ resolveVerdict(in) \in {"A", "B"}
         /\ out.nextStep = "HUMAN_RELEASE_GATE" =>
              t = "VERIFY" /\ in.stepStatus = "SUCCEEDED"
         /\ out.nextStep = "RELEASE_EXECUTION" =>
              t = "HUMAN_RELEASE_GATE" /\ in.humanApproved
<1> DEFINE i == StateMachineInput(in, t, loops)
<1>1. /\ i.completedStep = t /\ i.stepStatus = in.stepStatus
      /\ i.providerStatus = in.providerStatus /\ i.humanApproved = in.humanApproved
      /\ i.correctionLoopCount = loops /\ i.maxCorrectionLoops = MaxCorrectionLoops
      /\ i.verdict = in.verdict /\ i.reviewResults = in.reviewResults
  BY DEF StateMachineInput
<1>2. resolveVerdict(i) = resolveVerdict(in)
  BY <1>1 DEF resolveVerdict
<1> HIDE DEF i
<1>3. CASE in.providerStatus \in BlockingProviderStatus
  <2>1. out = Blocked("PROVIDER_BLOCKED")
    BY <1>1, <1>3 DEF nextEngineeringStep, i
  <2> QED
    BY <2>1 DEF Blocked, BlockReasonType, NONE, EngineeringStepType
<1>4. CASE in.providerStatus \notin BlockingProviderStatus /\ t = "HUMAN_RELEASE_GATE"
  <2>1. out = onGate(i)
    BY <1>1, <1>4 DEF nextEngineeringStep, i
  <2> QED
    BY <2>1, <1>1, <1>4 DEF onGate, Blocked, NextStep, BlockReasonType, NONE,
       EngineeringStepType, BlockingProviderStatus
<1>5. CASE /\ in.providerStatus \notin BlockingProviderStatus
           /\ t # "HUMAN_RELEASE_GATE" /\ in.stepStatus # "SUCCEEDED"
  <2>1. out = onFailure(i)
    BY <1>1, <1>5 DEF nextEngineeringStep, i
  <2> QED
    BY <2>1, <1>1, <1>5 DEF onFailure, enterCorrection, Failed, Blocked, NextStep,
       BlockReasonType, NONE, EngineeringStepType, BlockingProviderStatus
<1>6. CASE /\ in.providerStatus \notin BlockingProviderStatus
           /\ t # "HUMAN_RELEASE_GATE" /\ in.stepStatus = "SUCCEEDED"
  <2>1. out = onSuccess(i)
    BY <1>1, <1>6 DEF nextEngineeringStep, i
  <2>2. CASE t = "PARSE_VERDICT"
    <3>1. out = onVerdict(i)
      BY <2>1, <2>2, <1>1 DEF onSuccess
    <3> QED
      BY <3>1, <2>2, <1>1, <1>2, <1>6 DEF onVerdict, enterCorrection, Blocked, NextStep,
         BlockReasonType, NONE, EngineeringStepType, BlockingProviderStatus
  <2>3. CASE t = "REMOTE_VERIFY"
    <3>1. out = Completed
      BY <2>1, <2>3, <1>1 DEF onSuccess
    <3> QED
      BY <3>1, <1>6 DEF Completed, NONE, EngineeringStepType, BlockingProviderStatus
  <2>4. CASE t \notin {"PARSE_VERDICT", "REMOTE_VERIFY"}
    <3>1. out = NextStep(SuccessorOf[t])
      BY <2>1, <2>4, <1>1 DEF onSuccess
    <3>2. /\ SuccessorOf[t] \in EngineeringStepType \ {"CORRECTION", "VERIFY", "RELEASE_EXECUTION"}
          /\ SuccessorOf[t] = "HUMAN_RELEASE_GATE" => t = "VERIFY"
      BY <2>4, <1>6 DEF SuccessorOf, EngineeringStepType
    <3> QED
      BY <3>1, <3>2, <1>6 DEF NextStep, NONE, EngineeringStepType, BlockingProviderStatus
  <2> QED
    BY <2>2, <2>3, <2>4
<1> QED
  BY <1>3, <1>4, <1>5, <1>6 DEF CompleteStepInput

-----------------------------------------------------------------------------
(* The inductive invariant.                                                *)

Row == [stepType : EngineeringStepType \cup {NONE}, status : StepStatus \cup {NONE},
        causationId : 0..MaxSteps, metadata : Metadata]

\* The data part of TypeOK.
Tables ==
  /\ run \in [status : RunStatus, currentStepType : EngineeringStepType \cup {NONE},
              correctionLoopCount : Nat, blockReasonCode : BlockReasonType \cup {NONE}]
  /\ created \in 0..MaxSteps
  /\ steps \in [StepId -> Row]
  /\ \A s \in StepId : s \in Existing <=> steps[s].status # NONE
  /\ \A s \in StepId : s \in Existing <=> steps[s].stepType # NONE

\* The first step is the first start's.
FirstStepIsPlan == created # 0 => steps[1].stepType = "PLAN"

\* What ReleaseLineage needs of each step, one link of the chain at a time.
Link(s) ==
  LET cause == steps[s].causationId IN
  /\ steps[s].stepType = "VERIFY" =>
       cause \in Succeeded("PARSE_VERDICT") /\ steps[cause].metadata \notin {"C", "D"}
  /\ steps[s].stepType = "HUMAN_RELEASE_GATE" => cause \in Succeeded("VERIFY")
  /\ steps[s].stepType = "RELEASE_EXECUTION" =>
       /\ cause \in Succeeded("HUMAN_RELEASE_GATE")
       /\ steps[cause].metadata = "HUMAN_RELEASE_APPROVAL"
  /\ Active(s) => steps[s].metadata \notin ReviewVerdict

Core ==
  /\ Tables
  /\ FirstStepIsPlan
  /\ SingleThread
  /\ LoopAccounting
  /\ \A s \in Existing : Link(s)

Call == [call : {"idle", "start", "approve", "completeTx", "completeClaim", "cancel",
                 "cancelSignal", "resume", "correction", "testRecovery",
                 "verifyRecovery"},
         step : Nat, input : Completions \cup {NoInput}, loops : Nat,
         stepType : EngineeringStepType \cup {NONE},
         reason : BlockReasonType \cup {NONE}, stale : SUBSET Nat]

\* What a call in flight may rely on, however old its reads are.
Relies(o) ==
  /\ o.step \in 0..created
  /\ o.stale \subseteq Existing
  /\ o.call \in {"approve", "completeTx", "completeClaim"} =>
       /\ o.step \in Existing /\ o.input \in Completions
       /\ o.input.stepType = steps[o.step].stepType
  /\ o.call = "completeClaim" =>
       /\ o.loops <= Cardinality(Corrections)
       /\ StartedOnce /\ Active(o.step) => o.loops = run.correctionLoopCount
  /\ o.call = "correction" => o.step \in Existing /\ o.loops < MaxCorrectionLoops
  /\ o.call = "testRecovery" => o.step \in Existing
  /\ o.call = "verifyRecovery" =>
       o.step \in Existing /\ steps[o.step].stepType = "HUMAN_RELEASE_GATE"

InFlight ==
  /\ op \in [Callers -> Call]
  /\ \A c \in Callers : Relies(op[c])

Rest == armed \in BOOLEAN /\ issued \in [CallKind -> Nat]

Inv == Core /\ InFlight /\ Rest

-----------------------------------------------------------------------------
(* How the tables may change: the steps keep what they are, a terminal     *)
(* step keeps everything, no step is opened again, and in a run started    *)
(* once a step that stays open has the loop count stay with it.            *)

Evolves ==
  /\ created <= created'
  /\ \A s \in Existing :
       /\ steps'[s].stepType = steps[s].stepType
       /\ steps'[s].causationId = steps[s].causationId
       /\ steps[s].status \in TerminalStep => steps'[s] = steps[s]
       /\ Active(s)' => Active(s)
       /\ StartedOnce' /\ Active(s)' => run'.correctionLoopCount = run.correctionLoopCount

\* The sets of steps that are counted are finite.
LEMMA Counted ==
  ASSUME created \in Nat
  PROVE  /\ IsFiniteSet(OpenSteps) /\ Cardinality(OpenSteps) \in Nat
         /\ IsFiniteSet(Starts) /\ Cardinality(Starts) \in Nat
         /\ IsFiniteSet(Corrections) /\ Cardinality(Corrections) \in Nat
<1>1. IsFiniteSet(Existing)
  BY FS_Interval DEF Existing
<1>2. OpenSteps \subseteq Existing /\ Starts \subseteq Existing /\ Corrections \subseteq Existing
  BY DEF OpenSteps, Starts, Corrections
<1>3. IsFiniteSet(OpenSteps) /\ IsFiniteSet(Starts) /\ IsFiniteSet(Corrections)
  BY <1>1, <1>2, FS_Subset
<1> QED
  BY <1>3, FS_CardinalityType

\* Starts and corrections are never taken back.
LEMMA CountsGrow ==
  ASSUME created \in Nat, created' \in Nat, created <= created',
         \A s \in Existing : steps'[s].stepType = steps[s].stepType
  PROVE  /\ Cardinality(Starts) <= Cardinality(Starts')
         /\ Cardinality(Corrections) <= Cardinality(Corrections')
         /\ Cardinality(Starts) \in Nat /\ Cardinality(Starts') \in Nat
         /\ Cardinality(Corrections) \in Nat /\ Cardinality(Corrections') \in Nat
         /\ StartedOnce' => StartedOnce
<1>1. Starts \subseteq Starts' /\ Corrections \subseteq Corrections'
  BY DEF Starts, Corrections, Existing
<1>2. /\ Cardinality(Starts) \in Nat /\ Cardinality(Corrections) \in Nat
  BY Counted
<1>3. IsFiniteSet(Existing')
  BY FS_Interval DEF Existing
<1>4. Starts' \subseteq Existing' /\ Corrections' \subseteq Existing'
  BY DEF Starts, Corrections
<1>5. IsFiniteSet(Starts') /\ IsFiniteSet(Corrections')
  BY <1>3, <1>4, FS_Subset
<1>6. /\ Cardinality(Starts) <= Cardinality(Starts') /\ Cardinality(Starts') \in Nat
      /\ Cardinality(Corrections) <= Cardinality(Corrections') /\ Cardinality(Corrections') \in Nat
  BY <1>1, <1>5, FS_Subset, FS_CardinalityType
<1> QED
  BY <1>2, <1>6 DEF StartedOnce

\* A call in flight may go on relying on what it read while others commit.
LEMMA CallsKeepRelying ==
  ASSUME Tables, Tables', InFlight, Evolves,
         NEW c \in Callers, NEW local \in {Idle, SignalPending},
         op' = [op EXCEPT ![c] = local]
  PROVE  InFlight'
<1>1. /\ local \in Call /\ local.step = 0 /\ local.stale = {}
      /\ local.call \in {"idle", "cancelSignal"}
  BY DEF Idle, SignalPending, Call, NONE
<1>2. op' \in [Callers -> Call]
  BY <1>1 DEF InFlight
<1>3. /\ Cardinality(Corrections) <= Cardinality(Corrections')
      /\ Cardinality(Corrections) \in Nat /\ Cardinality(Corrections') \in Nat
      /\ StartedOnce' => StartedOnce
  <2>1. created \in Nat /\ created' \in Nat
    BY DEF Tables
  <2> QED
    BY <2>1, CountsGrow DEF Evolves
<1>4. ASSUME NEW d \in Callers
      PROVE  Relies(op[d])'
  <2>1. CASE d = c
    <3>1. op'[d] = local
      BY <2>1 DEF InFlight
    <3> QED
      BY <3>1, <1>1 DEF Relies, Tables
  <2>2. CASE d # c
    <3>1. op'[d] = op[d] /\ Relies(op[d]) /\ op[d] \in Call
      BY <2>2 DEF InFlight
    <3>2. op[d].step \in 0..created' /\ op[d].stale \subseteq Existing'
      BY <3>1 DEF Relies, Evolves, Tables, Existing
    <3>3. op[d].call = "completeClaim" => op[d].loops <= Cardinality(Corrections')
      BY <1>3, <3>1 DEF Relies, Call
    <3>4. \A s \in Existing : s \in Existing' /\ steps'[s].stepType = steps[s].stepType
      BY DEF Evolves, Existing, Tables
    <3>5. op[d].call = "completeClaim" /\ StartedOnce' /\ Active(op[d].step)'
            => op[d].loops = run'.correctionLoopCount
      BY <1>3, <3>1 DEF Relies, Evolves
    <3> QED
      BY <3>1, <3>2, <3>3, <3>4, <3>5 DEF Relies, Active
  <2> QED
    BY <2>1, <2>2
<1> QED
  BY <1>2, <1>4 DEF InFlight

\* The links of the release chain rest on terminal steps, so they last.
LEMMA LinksLast ==
  ASSUME Tables, Tables', Evolves, NEW s \in Existing, Link(s),
         Active(s)' => steps'[s].metadata \notin ReviewVerdict
  PROVE  Link(s)'
<1>1. \A t : Succeeded(t) \subseteq Succeeded(t)'
  BY DEF Succeeded, Evolves, TerminalStep, Existing, Tables
<1>2. \A t : \A u \in Succeeded(t) : steps'[u] = steps[u]
  BY DEF Succeeded, Evolves, TerminalStep
<1>3. steps'[s].stepType = steps[s].stepType /\ steps'[s].causationId = steps[s].causationId
  BY DEF Evolves
<1> QED
  BY <1>1, <1>2, <1>3 DEF Link

-----------------------------------------------------------------------------
(* Steps that leave the tables alone.                                      *)

\* A step that writes no row preserves everything said of the rows.
LEMMA TablesUnchanged ==
  ASSUME Core, UNCHANGED <<run, steps, created>>
  PROVE  Core' /\ Evolves
<1>1. Tables' /\ FirstStepIsPlan'
  BY DEF Core, Tables, FirstStepIsPlan, Existing
<1>2. /\ Existing' = Existing /\ OpenSteps' = OpenSteps /\ Starts' = Starts
      /\ Corrections' = Corrections /\ StartedOnce' = StartedOnce /\ Threads' = Threads
  BY DEF Existing, OpenSteps, Starts, Corrections, Active, StartedOnce, Threads,
     AwaitsDecision, LoopExhausted
<1>3. SingleThread'
  BY <1>2 DEF Core, SingleThread, OpenStepIsCurrent
<1>4. LoopAccounting' /\ (\A s \in Existing : Link(s))'
  BY <1>2 DEF Core, LoopAccounting, Link, Active, Succeeded
<1>5. Evolves
  BY DEF Evolves, Core, Tables, Existing, Active
<1> QED
  BY <1>1, <1>3, <1>4, <1>5 DEF Core

\* A call that goes on with what it has just read.
LEMMA ReadsPreserve ==
  ASSUME Inv, NEW c \in Callers, NEW local \in Call, Relies(local), Proceed(c, local),
         issued' \in [CallKind -> Nat]
  PROVE  Inv'
<1>1. Core'
  BY TablesUnchanged DEF Inv, Proceed
<1>2. op' \in [Callers -> Call]
  BY DEF Inv, InFlight, Proceed
<1>3. \A d \in Callers : op'[d] = IF d = c THEN local ELSE op[d]
  BY DEF Inv, InFlight, Proceed
<1>4. ASSUME NEW d \in Callers
      PROVE  Relies(op[d])'
  <2>1. Relies(op'[d])
    BY <1>3 DEF Inv, InFlight
  <2> QED
    BY <2>1 DEF Relies, Proceed, Existing, Active, Corrections, Starts, StartedOnce
<1> QED
  BY <1>1, <1>2, <1>4 DEF Inv, InFlight, Rest, Proceed

\* A call that returns without writing leaves nothing behind.
LEMMA ReturnPreserves ==
  ASSUME Inv, NEW c \in Callers, Return(c)
  PROVE  Inv'
<1>1. Idle \in Call /\ Relies(Idle) /\ Idle.call = "idle"
  BY DEF Idle, Call, Relies, NONE, Inv, Core, Tables
<1> QED
  BY <1>1, ReadsPreserve DEF Return, Inv, Rest

\* A nonempty set of steps has a latest member: the least distance to created.
LEMMA LatestIsMember ==
  ASSUME NEW S \in SUBSET Existing, S # {}, created \in Nat
  PROVE  Latest(S) \in S
<1> DEFINE T == {created - s : s \in S}
           R == {ss \in Nat \X Nat : ss[1] < ss[2]}
<1>1. \A x, y \in Nat : y < x => <<y, x>> \in R
  OBVIOUS
<1>2. T \subseteq Nat
  <2> SUFFICES ASSUME NEW s \in S PROVE created - s \in Nat
    OBVIOUS
  <2> QED
    BY DEF Existing
<1>3. T # {}
  <2>1. PICK s \in S : TRUE
    OBVIOUS
  <2> QED
    BY <2>1
<1>4. IsWellFoundedOn(R, Nat)
  BY NatLessThanWellFounded, Zenon DEF OpToRel
<1> HIDE DEF R
<1>5. PICK x \in T : \A y \in T : <<y, x>> \notin R
  BY <1>2, <1>3, <1>4, WFMin
<1>6. PICK s \in S : x = created - s
  BY <1>5
<1>7. \A t \in S : t <= s
  <2> SUFFICES ASSUME NEW t \in S, ~(t <= s) PROVE FALSE
    OBVIOUS
  <2>1. s \in Nat /\ t \in Nat /\ created - t \in T /\ created - t \in Nat /\ x \in Nat
    BY <1>2, <1>6 DEF Existing
  <2>2. created - t < x
    BY <1>6, <2>1
  <2> QED
    BY <1>1, <1>5, <2>1, <2>2
<1> QED
  BY <1>7 DEF Latest

\* A new call is counted, and its caller was idle.
LEMMA IssueCounts ==
  ASSUME Inv, NEW c \in Callers, NEW kind \in CallKind, Issue(c, kind)
  PROVE  issued' \in [CallKind -> Nat] /\ op[c].call = "idle"
BY DEF Inv, Rest, Issue

\* The reads with which the calls begin and go on.
LEMMA LifecycleReads ==
  ASSUME Inv, NEW c \in Callers,
         StartRead(c) \/ CancelRead(c) \/ ResumeRead(c)
  PROVE  Inv'
<1> USE DEF Idle, Call, Relies, NONE, CallKind
<1>1. created \in Nat
  BY DEF Inv, Core, Tables
<1>2. CASE StartRead(c)
  <2> DEFINE local == [Idle EXCEPT !.call = "start"]
  <2>1. local \in Call /\ Relies(local)
    BY <1>1
  <2> QED
    BY <1>2, <2>1, IssueCounts, ReadsPreserve DEF StartRead
<1>3. CASE CancelRead(c)
  <2> DEFINE local == [Idle EXCEPT !.call = "cancel"]
  <2>1. local \in Call /\ Relies(local) /\ local.call = "cancel"
    BY DEF Inv, Core, Tables
  <2> QED
    BY <1>3, <2>1, IssueCounts, ReadsPreserve DEF CancelRead
<1>4. CASE ResumeRead(c)
  <2> DEFINE local == [Idle EXCEPT !.call = "resume", !.stepType = run.currentStepType,
                                   !.reason = run.blockReasonCode]
  <2>1. local \in Call /\ local.call = "resume" /\ local.step = 0 /\ local.stale = {}
    <3>1. /\ run.currentStepType \in EngineeringStepType \cup {NONE}
          /\ run.blockReasonCode \in BlockReasonType \cup {NONE}
      BY DEF Inv, Core, Tables
    <3> QED
      BY <3>1
  <2>2. Relies(local)
    BY <1>1, <2>1
  <2> QED
    BY <1>4, <2>1, <2>2, IssueCounts, ReadsPreserve DEF ResumeRead
<1> QED
  BY <1>2, <1>3, <1>4

\* The reads of completeStep and of the release approval: what they find of the
\* step, its type and that it exists, stays true.
LEMMA CompletionReads ==
  ASSUME Inv, NEW c \in Callers,
         \/ CompleteCall(c) \/ ApproveRead(c) \/ ApproveCall(c)
         \/ CompleteFreshRead(c) \/ CompleteClaimLost(c)
  PROVE  Inv'
<1> USE DEF Idle, Call, NONE
<1>1. /\ op[c] \in Call /\ Relies(op[c]) /\ issued \in [CallKind -> Nat]
      /\ created \in Nat /\ run.correctionLoopCount \in Nat
  BY DEF Inv, InFlight, Rest, Core, Tables
<1>2. CASE CompleteCall(c)
  <2>1. PICK s \in Existing, in \in Completions :
          /\ in.stepType = steps[s].stepType
          /\ Proceed(c, [Idle EXCEPT !.call = "completeTx", !.step = s, !.input = in])
          /\ UNCHANGED issued
    BY <1>2 DEF CompleteCall
  <2> DEFINE local == [Idle EXCEPT !.call = "completeTx", !.step = s, !.input = in]
  <2>2. /\ local \in Call /\ local.call = "completeTx"
        /\ local.step = s /\ local.input = in /\ local.stale = {}
    <3>1. s \in Nat
      BY DEF Existing
    <3> QED
      BY <3>1
  <2>3. Relies(local)
    BY <1>1, <2>1, <2>2 DEF Relies, Existing
  <2> QED
    BY <1>1, <2>1, <2>2, <2>3, ReadsPreserve
<1>3. CASE ApproveRead(c)
  <2> DEFINE gates == {s \in Existing : steps[s].stepType = "HUMAN_RELEASE_GATE"
                                        /\ steps[s].status = "READY"}
  <2>1. PICK in \in Completions :
          /\ in.humanApproved
          /\ Proceed(c, [Idle EXCEPT !.call = "approve", !.step = Latest(gates), !.input = in])
          /\ UNCHANGED issued
    BY <1>3 DEF ApproveRead
  <2>2. Latest(gates) \in gates
    BY <1>1, <1>3, LatestIsMember DEF ApproveRead
  <2> DEFINE gate == Latest(gates)
             local == [Idle EXCEPT !.call = "approve", !.step = gate, !.input = in]
  <2>3. gate \in Existing /\ steps[gate].stepType = "HUMAN_RELEASE_GATE"
    BY <2>2
  <2> HIDE DEF gate
  <2>4. in.stepType = "HUMAN_RELEASE_GATE"
    BY <2>1, ApprovalAssumption
  <2>5. /\ local \in Call /\ local.call = "approve"
        /\ local.step = gate /\ local.input = in /\ local.stale = {}
    <3>1. gate \in Nat
      BY <2>3 DEF Existing
    <3> QED
      BY <3>1
  <2>6. Relies(local)
    BY <1>1, <2>3, <2>4, <2>5 DEF Relies, Existing
  <2>7. Proceed(c, local) /\ UNCHANGED issued
    BY <2>1 DEF gate
  <2> HIDE DEF local
  <2> QED
    BY <1>1, <2>5, <2>6, <2>7, ReadsPreserve
<1>4. CASE ApproveCall(c)
  <2> DEFINE local == [op[c] EXCEPT !.call = "completeTx"]
  <2>1. local \in Call /\ Relies(local) /\ local.call = "completeTx"
    BY <1>1, <1>4 DEF ApproveCall, Relies
  <2> QED
    BY <1>1, <1>4, <2>1, ReadsPreserve, ReturnPreserves DEF ApproveCall
<1>5. CASE CompleteFreshRead(c)
  <2> DEFINE local == [op[c] EXCEPT !.call = "completeClaim",
                                    !.loops = run.correctionLoopCount]
  <2>1. run.correctionLoopCount <= Cardinality(Corrections)
    BY DEF Inv, Core, LoopAccounting
  <2>2. local \in Call /\ Relies(local) /\ local.call = "completeClaim"
    BY <1>1, <1>5, <2>1 DEF CompleteFreshRead, Relies
  <2> QED
    BY <1>1, <1>5, <2>2, ReadsPreserve, ReturnPreserves DEF CompleteFreshRead
<1>6. CASE CompleteClaimLost(c)
  BY <1>6, ReturnPreserves DEF CompleteClaimLost
<1> QED
  BY <1>2, <1>3, <1>4, <1>5, <1>6

\* The reads of the correction request and of the two recoveries.
LEMMA RecoveryReads ==
  ASSUME Inv, NEW c \in Callers,
         CorrectionRead(c) \/ TestRecoveryRead(c) \/ VerifyRecoveryRead(c)
  PROVE  Inv'
<1> USE DEF CallKind
<1>1. created \in Nat /\ run.correctionLoopCount \in Nat /\ MaxCorrectionLoops \in Nat
  BY ConstantsAssumption DEF Inv, Core, Tables
<1>2. CASE CorrectionRead(c)
  <2> DEFINE parse == Latest(Succeeded("PARSE_VERDICT"))
             local == [Idle EXCEPT !.call = "correction", !.step = parse,
                                   !.loops = run.correctionLoopCount]
  <2>1. parse \in Existing
    BY <1>1, <1>2, LatestIsMember DEF CorrectionRead, Succeeded
  <2>2. run.correctionLoopCount < MaxCorrectionLoops
    BY <1>1, <1>2 DEF CorrectionRead, nextEngineeringHumanDecision, enterCorrection,
       Blocked, NextStep
  <2>3. Proceed(c, local) /\ issued' \in [CallKind -> Nat]
    BY <1>2, IssueCounts DEF CorrectionRead
  <2> HIDE DEF parse
  <2>4. /\ local \in Call /\ local.call = "correction" /\ local.step = parse
        /\ local.stale = {} /\ local.loops = run.correctionLoopCount
    <3>1. parse \in Nat
      BY <2>1 DEF Existing
    <3> QED
      BY <1>1, <3>1 DEF Idle, Call, NONE
  <2>5. Relies(local)
    BY <1>1, <2>1, <2>2, <2>4 DEF Relies, Existing
  <2> QED
    BY <2>3, <2>4, <2>5, ReadsPreserve DEF parse
<1>3. CASE TestRecoveryRead(c)
  <2> DEFINE correction == Latest(Succeeded("CORRECTION"))
             stale == {s \in Existing : Active(s)}
             local == [Idle EXCEPT !.call = "testRecovery", !.step = correction,
                                   !.loops = run.correctionLoopCount, !.stale = stale]
  <2>1. correction \in Existing /\ stale \subseteq Existing
    BY <1>1, <1>3, LatestIsMember DEF TestRecoveryRead, Succeeded
  <2>2. Proceed(c, local) /\ issued' \in [CallKind -> Nat]
    BY <1>3, IssueCounts DEF TestRecoveryRead
  <2> HIDE DEF correction, stale
  <2>3. /\ local \in Call /\ local.call = "testRecovery" /\ local.step = correction
        /\ local.stale = stale
    <3>1. correction \in Nat /\ stale \in SUBSET Nat
      BY <2>1 DEF Existing
    <3> QED
      BY <1>1, <3>1 DEF Idle, Call, NONE
  <2>4. Relies(local)
    BY <1>1, <2>1, <2>3 DEF Relies, Existing
  <2> QED
    BY <2>2, <2>3, <2>4, ReadsPreserve
<1>4. CASE VerifyRecoveryRead(c)
  <2>1. PICK gate \in Existing :
          /\ steps[gate].stepType = "HUMAN_RELEASE_GATE"
          /\ Proceed(c, [Idle EXCEPT !.call = "verifyRecovery", !.step = gate,
                                     !.loops = run.correctionLoopCount])
    BY <1>4 DEF VerifyRecoveryRead
  <2> DEFINE local == [Idle EXCEPT !.call = "verifyRecovery", !.step = gate,
                                   !.loops = run.correctionLoopCount]
  <2>2. /\ local \in Call /\ local.call = "verifyRecovery" /\ local.step = gate
        /\ local.stale = {}
    <3>1. gate \in Nat
      BY DEF Existing
    <3> QED
      BY <1>1, <3>1 DEF Idle, Call, NONE
  <2>3. Relies(local)
    BY <1>1, <2>1, <2>2 DEF Relies, Existing
  <2>4. issued' \in [CallKind -> Nat]
    BY <1>4, IssueCounts DEF VerifyRecoveryRead
  <2> QED
    BY <2>1, <2>2, <2>3, <2>4, ReadsPreserve
<1> QED
  BY <1>2, <1>3, <1>4

\* The steps of a call that touch the in-memory state only, and a restart.
LEMMA MemorySteps ==
  ASSUME Inv,
         \/ \E c \in Callers : CancelAgain(c) \/ CancelClaimLost(c) \/ CancelSignal(c) \/ Abort(c)
         \/ Restart
  PROVE  Inv'
<1>1. UNCHANGED <<run, steps, created>>
  BY DEF CancelAgain, CancelClaimLost, CancelSignal, Abort, Return, Proceed, Restart
<1>2. Core' /\ Evolves /\ Tables /\ Tables' /\ InFlight
  BY <1>1, TablesUnchanged DEF Inv, Core
<1>3. CASE \E c \in Callers : CancelAgain(c)
  <2>1. PICK c \in Callers : CancelAgain(c)
    BY <1>3
  <2>2. InFlight'
    BY <1>1, <1>2, <2>1
       DEF CancelAgain, InFlight, Relies, Active, Existing, Corrections, Starts, StartedOnce
  <2>3. Rest'
    BY <2>1 DEF CancelAgain, Issue, Inv, Rest, CallKind
  <2> QED
    BY <1>2, <2>2, <2>3 DEF Inv
<1>4. CASE \E c \in Callers : CancelClaimLost(c) \/ CancelSignal(c) \/ Abort(c)
  <2>1. PICK c \in Callers : CancelClaimLost(c) \/ CancelSignal(c) \/ Abort(c)
    BY <1>4
  <2>2. PICK local \in {Idle, SignalPending} : op' = [op EXCEPT ![c] = local]
    BY <2>1 DEF CancelClaimLost, CancelSignal, Abort, Return, Proceed
  <2>3. InFlight'
    BY <1>1, <1>2, <2>2, CallsKeepRelying
  <2>4. Rest'
    BY <2>1 DEF CancelClaimLost, CancelSignal, Abort, Return, Proceed, Inv, Rest
  <2> QED
    BY <1>2, <2>3, <2>4 DEF Inv
<1>5. CASE Restart
  <2>1. /\ Idle \in Call /\ Idle.call = "idle" /\ Idle.step = 0 /\ Idle.stale = {}
    BY DEF Idle, Call, NONE
  <2>2. op' \in [Callers -> Call] /\ \A c \in Callers : op'[c] = Idle
    BY <1>5, <2>1 DEF Restart
  <2>3. \A c \in Callers : Relies(op[c])'
    BY <1>2, <2>1, <2>2 DEF Relies, Tables
  <2>4. Rest'
    <3>1. issued' \in [CallKind -> Nat]
      BY <1>5 DEF Restart, Inv, Rest, CallKind
    <3>2. armed' \in BOOLEAN
      BY <1>5, Zenon DEF Restart
    <3> QED
      BY <3>1, <3>2 DEF Rest
  <2> QED
    BY <1>2, <2>1, <2>2, <2>3, <2>4 DEF Inv, InFlight
<1> QED
  BY <1>3, <1>4, <1>5

-----------------------------------------------------------------------------
(* Steps that change the tables, in the two ways there are.                *)

RunRow == [status : RunStatus, currentStepType : EngineeringStepType \cup {NONE},
           correctionLoopCount : Nat, blockReasonCode : BlockReasonType \cup {NONE}]

\* Rows of existing steps are only ever updated like this.
Updates(row, new) ==
  /\ new.stepType = row.stepType
  /\ new.causationId = row.causationId
  /\ new.status # NONE
  /\ row.status \in TerminalStep => new = row

\* No step is inserted: steps are closed or stay as open as they were, and a run
\* that comes to wait for a human has closed one.
LEMMA UpdatedInPlace ==
  ASSUME Core, run' \in RunRow, steps' \in [StepId -> Row], created' = created,
         \A s \in Existing : Updates(steps[s], steps'[s]),
         \A s \in StepId \ Existing : steps'[s] = steps[s],
         run'.correctionLoopCount = run.correctionLoopCount,
         \A s \in Existing : Active(s)' => Active(s) /\ steps'[s].metadata \notin ReviewVerdict,
         (AwaitsDecision \/ LoopExhausted)' => \E s \in Existing : Active(s) /\ ~Active(s)',
         StartedOnce => \A s \in Existing : Active(s)' =>
           /\ run'.currentStepType = steps[s].stepType
           /\ run'.status \in {"RUNNING", "BLOCKED"}
  PROVE  Core' /\ Evolves
<1>1. /\ Existing' = Existing /\ Existing \subseteq StepId
      /\ created \in Nat /\ 1 \in Nat /\ run.correctionLoopCount \in Nat
      /\ Tables
  BY ConstantsAssumption DEF Existing, Core, Tables, StepId
<1>2. Tables'
  BY <1>1 DEF Core, Tables, Updates, RunRow
<1>3. Starts' = Starts /\ Corrections' = Corrections
  BY <1>1 DEF Updates, Starts, Corrections
<1>4. Evolves
  BY <1>1 DEF Evolves, Updates
<1>5. FirstStepIsPlan'
  BY <1>1 DEF FirstStepIsPlan, Core, Updates, Existing
<1>6. OpenSteps' \subseteq OpenSteps
  BY <1>1 DEF OpenSteps
<1>7. StartedOnce' = StartedOnce
  BY <1>3 DEF StartedOnce
<1>8. LoopAccounting'
  BY <1>3, <1>7 DEF Core, LoopAccounting
<1>9. Threads' <= Cardinality(Starts')
  <2>1. /\ IsFiniteSet(OpenSteps) /\ Cardinality(OpenSteps) \in Nat /\ Cardinality(Starts) \in Nat
    BY <1>1, Counted
  <2>2. /\ Cardinality(OpenSteps') <= Cardinality(OpenSteps) /\ Cardinality(OpenSteps') \in Nat
        /\ OpenSteps' # OpenSteps => Cardinality(OpenSteps') < Cardinality(OpenSteps)
    BY <1>6, <2>1, FS_Subset, FS_CardinalityType
  <2>3. Cardinality(OpenSteps) <= Cardinality(Starts)
    BY <2>1 DEF Core, SingleThread, Threads
  <2>4. CASE (AwaitsDecision \/ LoopExhausted)'
    <3>1. PICK s \in Existing : Active(s) /\ ~Active(s)'
      BY <2>4
    <3>2. OpenSteps' # OpenSteps
      BY <3>1 DEF OpenSteps
    <3>3. Threads' = Cardinality(OpenSteps') + 1
      BY <2>4 DEF Threads
    <3> QED
      BY <1>3, <2>1, <2>2, <2>3, <3>2, <3>3
  <2>5. CASE ~(AwaitsDecision \/ LoopExhausted)'
    <3>1. Threads' = Cardinality(OpenSteps')
      BY <2>2, <2>5 DEF Threads
    <3> QED
      BY <1>3, <2>1, <2>2, <2>3, <3>1
  <2> QED
    BY <2>4, <2>5
<1>10. StartedOnce' => OpenStepIsCurrent'
  BY <1>1, <1>7 DEF OpenStepIsCurrent, OpenSteps, Updates
<1>11. \A s \in Existing : Link(s)'
  BY <1>2, <1>4, LinksLast DEF Core
<1> QED
  BY <1>1, <1>2, <1>4, <1>5, <1>8, <1>9, <1>10, <1>11 DEF Core, SingleThread

\* A READY step is inserted by a start, for a human the run waited for, or in the
\* place of a step that is closed.  In a run that was started once every other step
\* is closed, and the new one is the current one.
LEMMA Inserted ==
  ASSUME Core, run' \in RunRow, created < MaxSteps, created' = created + 1,
         NEW rows \in [StepId -> Row], NEW t \in EngineeringStepType,
         NEW cause \in 0..MaxSteps,
         steps' = [rows EXCEPT ![created + 1] = ReadyStep(t, cause)],
         \A s \in Existing :
           /\ Updates(steps[s], rows[s])
           /\ rows[s].status \in NONTERMINAL_STEP_STATUSES =>
                Active(s) /\ rows[s].metadata \notin ReviewVerdict,
         \A s \in StepId \ Existing : rows[s] = steps[s],
         run'.status = "RUNNING", run'.currentStepType = t,
         created = 0 => t = "PLAN",
         \/ t = "PLAN" \/ AwaitsDecision \/ LoopExhausted
         \/ \E s \in Existing : Active(s) /\ rows[s].status \in TerminalStep,
         IF t = "CORRECTION"
         THEN run'.correctionLoopCount = run.correctionLoopCount + 1
         ELSE run'.correctionLoopCount <= Cardinality(Corrections),
         StartedOnce /\ (t = "PLAN" => created = 0) =>
           /\ \A s \in Existing : rows[s].status \in TerminalStep
           /\ t # "CORRECTION" => run'.correctionLoopCount = run.correctionLoopCount
           /\ run'.correctionLoopCount <= MaxCorrectionLoops,
         NEW new, new = created + 1, Link(new)'
  PROVE  Core' /\ Evolves
<1>1. /\ Existing' = Existing \cup {new} /\ new \notin Existing /\ new \in StepId
      /\ Existing \subseteq StepId /\ created \in Nat /\ Tables
      /\ run.correctionLoopCount \in Nat /\ run'.correctionLoopCount \in Nat
  BY ConstantsAssumption DEF Existing, Core, Tables, StepId, RunRow
<1>2. steps' = [s \in StepId |-> IF s = new THEN ReadyStep(t, cause) ELSE rows[s]]
  BY <1>1
<1>3. /\ ReadyStep(t, cause) \in Row /\ ReadyStep(t, cause).stepType = t
      /\ ReadyStep(t, cause).status = "READY"
  BY DEF ReadyStep, Row, StepStatus, Metadata
<1>4. /\ steps'[new].stepType = t /\ steps'[new].status = "READY"
      /\ \A s \in StepId \ {new} : steps'[s] = rows[s]
  BY <1>1, <1>2, <1>3
<1>5. Tables'
  <2>1. steps' \in [StepId -> Row] /\ created' \in 0..MaxSteps
    BY <1>1, <1>2, <1>3, ConstantsAssumption DEF StepId
  <2>2. ASSUME NEW s \in StepId
        PROVE  /\ s \in Existing' <=> steps'[s].status # NONE
               /\ s \in Existing' <=> steps'[s].stepType # NONE
    BY <1>1, <1>4 DEF Core, Tables, Updates, EngineeringStepType, NONE
  <2> QED
    BY <2>1, <2>2 DEF Tables, RunRow
<1>6. \A s \in Existing :
        /\ steps'[s] = rows[s] /\ Updates(steps[s], steps'[s])
        /\ Active(s)' => Active(s) /\ steps'[s].metadata \notin ReviewVerdict
        /\ rows[s].status \in TerminalStep => ~Active(s)'
  <2>1. TerminalStep \cap NONTERMINAL_STEP_STATUSES = {}
    BY DEF TerminalStep, NONTERMINAL_STEP_STATUSES
  <2> QED
    BY <1>1, <1>4, <2>1 DEF Active
<1>7. Active(new)'
  BY <1>4 DEF Active, NONTERMINAL_STEP_STATUSES
<1>8. /\ Starts' = IF t = "PLAN" THEN Starts \cup {new} ELSE Starts
      /\ Corrections' = IF t = "CORRECTION" THEN Corrections \cup {new} ELSE Corrections
      /\ OpenSteps' \subseteq OpenSteps \cup {new} /\ new \notin OpenSteps
      /\ new \notin Starts /\ new \notin Corrections
  <2>1. /\ new \notin Starts /\ new \notin Corrections /\ new \notin OpenSteps
        /\ OpenSteps' \subseteq OpenSteps \cup {new}
    BY <1>1, <1>6 DEF Starts, Corrections, OpenSteps
  <2>2. \A s \in Existing : steps'[s].stepType = steps[s].stepType
    BY <1>6 DEF Updates
  <2>3. Starts' = IF t = "PLAN" THEN Starts \cup {new} ELSE Starts
    BY <1>1, <1>4, <2>2, ZenonT(30) DEF Starts
  <2>4. Corrections' = IF t = "CORRECTION" THEN Corrections \cup {new} ELSE Corrections
    BY <1>1, <1>4, <2>2, ZenonT(30) DEF Corrections
  <2> QED
    BY <2>1, <2>3, <2>4
<1>9. /\ IsFiniteSet(OpenSteps) /\ Cardinality(OpenSteps) \in Nat
      /\ IsFiniteSet(Starts) /\ Cardinality(Starts) \in Nat
      /\ IsFiniteSet(Corrections) /\ Cardinality(Corrections) \in Nat
      /\ IsFiniteSet(OpenSteps \cup {new})
      /\ Cardinality(OpenSteps \cup {new}) = Cardinality(OpenSteps) + 1
      /\ Cardinality(Starts \cup {new}) = Cardinality(Starts) + 1
      /\ Cardinality(Corrections \cup {new}) = Cardinality(Corrections) + 1
  BY <1>1, <1>8, Counted, FS_AddElement
<1>10. FirstStepIsPlan'
  <2>1. CASE created = 0
    BY <1>4, <2>1 DEF FirstStepIsPlan
  <2>2. CASE created # 0
    <3>1. 1 \in Existing
      BY <1>1, <2>2 DEF Existing
    <3> QED
      BY <1>6, <2>2, <3>1 DEF Core, FirstStepIsPlan, Updates
  <2> QED
    BY <2>1, <2>2
<1>11. StartedOnce' => StartedOnce /\ (t = "PLAN" => created = 0)
  <2> SUFFICES ASSUME StartedOnce' PROVE StartedOnce /\ (t = "PLAN" => created = 0)
    OBVIOUS
  <2>1. StartedOnce
    BY <1>8, <1>9 DEF StartedOnce
  <2>2. ASSUME t = "PLAN", created # 0 PROVE FALSE
    <3>1. 1 \in Starts
      BY <1>1, <2>2 DEF Core, FirstStepIsPlan, Starts, Existing
    <3>2. Cardinality(Starts) # 0
      BY <1>9, <3>1, FS_EmptySet
    <3> QED
      BY <1>8, <1>9, <2>2, <3>2 DEF StartedOnce
  <2> QED
    BY <2>1, <2>2
<1>12. Threads' <= Cardinality(Starts')
  <2>1. Threads' = Cardinality(OpenSteps')
    <3>1. ~(AwaitsDecision \/ LoopExhausted)'
      BY DEF AwaitsDecision, LoopExhausted
    <3>2. IsFiniteSet(OpenSteps')
      BY <1>8, <1>9, FS_Subset
    <3>3. Cardinality(OpenSteps') \in Nat
      BY <3>2, FS_CardinalityType
    <3> QED
      BY <3>1, <3>3 DEF Threads
  <2>2. Cardinality(OpenSteps') \in Nat /\ Cardinality(OpenSteps') <= Cardinality(OpenSteps) + 1
    BY <1>8, <1>9, FS_Subset, FS_CardinalityType
  <2>3. CASE t = "PLAN"
    <3>1. Cardinality(OpenSteps) <= Cardinality(Starts)
      BY <1>9 DEF Core, SingleThread, Threads
    <3> QED
      BY <1>8, <1>9, <2>1, <2>2, <2>3, <3>1
  <2>4. CASE t # "PLAN" /\ (AwaitsDecision \/ LoopExhausted)
    <3>1. Cardinality(OpenSteps) + 1 <= Cardinality(Starts)
      BY <2>4 DEF Core, SingleThread, Threads
    <3> QED
      BY <1>8, <1>9, <2>1, <2>2, <2>4, <3>1
  <2>5. CASE t # "PLAN" /\ \E s \in Existing : Active(s) /\ rows[s].status \in TerminalStep
    <3>1. PICK s \in Existing : Active(s) /\ rows[s].status \in TerminalStep
      BY <2>5
    <3>2. s \in OpenSteps \cup {new} /\ s \notin OpenSteps'
      BY <1>6, <3>1 DEF OpenSteps
    <3>3. OpenSteps' # OpenSteps \cup {new}
      BY <3>2
    <3>4. Cardinality(OpenSteps') < Cardinality(OpenSteps) + 1
      <4>1. Cardinality(OpenSteps \cup {new}) # Cardinality(OpenSteps')
        BY <1>8, <1>9, <3>3, FS_Subset
      <4> QED
        BY <1>9, <2>2, <4>1
    <3>5. Cardinality(OpenSteps) <= Cardinality(Starts)
      BY <1>9 DEF Core, SingleThread, Threads
    <3> QED
      BY <1>8, <1>9, <2>1, <2>2, <2>5, <3>4, <3>5
  <2> QED
    BY <2>3, <2>4, <2>5
<1>13. StartedOnce' => OpenStepIsCurrent'
  BY <1>1, <1>4, <1>6, <1>11 DEF OpenStepIsCurrent, OpenSteps
<1>14. Evolves
  <2>1. \A s \in Existing : StartedOnce' => ~Active(s)'
    BY <1>6, <1>11
  <2> QED
    BY <1>1, <1>6, <2>1 DEF Evolves, Updates
<1>15. LoopAccounting'
  <2>1. run'.correctionLoopCount <= Cardinality(Corrections')
    BY <1>1, <1>8, <1>9 DEF Core, LoopAccounting
  <2>2. StartedOnce' => /\ run'.correctionLoopCount = Cardinality(Corrections')
                        /\ run'.correctionLoopCount <= MaxCorrectionLoops
    BY <1>1, <1>8, <1>9, <1>11 DEF Core, LoopAccounting
  <2> QED
    BY <2>1, <2>2 DEF LoopAccounting
<1>16. \A s \in Existing' : Link(s)'
  BY <1>1, <1>5, <1>6, <1>14, LinksLast DEF Core
<1> QED
  BY <1>5, <1>10, <1>12, <1>13, <1>14, <1>15, <1>16 DEF Core, SingleThread

-----------------------------------------------------------------------------
(* The transactions.                                                       *)

\* In a run that was started once no two steps are open.
LEMMA OneOpen ==
  ASSUME Core, StartedOnce, NEW s \in Existing, NEW u \in Existing, Active(s), Active(u)
  PROVE  s = u
<1>1. created \in Nat /\ s \in OpenSteps /\ u \in OpenSteps
  BY DEF Core, Tables, OpenSteps
<1>2. /\ IsFiniteSet(OpenSteps) /\ Cardinality(OpenSteps) \in Nat /\ Cardinality(Starts) \in Nat
  BY <1>1, Counted
<1>3. Cardinality(OpenSteps) <= 1
  BY <1>2 DEF Core, SingleThread, StartedOnce, Threads
<1>4. IsFiniteSet(OpenSteps \ {s}) /\ Cardinality(OpenSteps \ {s}) = Cardinality(OpenSteps) - 1
  BY <1>1, <1>2, FS_RemoveElement
<1>5. OpenSteps \ {s} = {}
  <2> DEFINE others == OpenSteps \ {s}
  <2>1. IsFiniteSet(others) /\ Cardinality(others) = Cardinality(OpenSteps) - 1
    BY <1>4
  <2> HIDE DEF others
  <2>2. Cardinality(others) \in Nat
    BY <2>1, FS_CardinalityType
  <2>3. Cardinality(others) = 0
    BY <1>2, <1>3, <2>1, <2>2
  <2>4. others = {}
    BY <2>1, <2>3, FS_EmptySet
  <2> QED
    BY <2>4 DEF others
<1> QED
  BY <1>1, <1>5

\* When currentStepType is empty no step is open.
LEMMA NothingOpen ==
  ASSUME Core, StartedOnce, run.currentStepType = NONE
  PROVE  \A s \in Existing : steps[s].status \in TerminalStep
<1> SUFFICES ASSUME NEW s \in Existing, steps[s].status \notin TerminalStep PROVE FALSE
  OBVIOUS
<1>1. s \in StepId
  BY ConstantsAssumption DEF Core, Tables, Existing, StepId
<1>2. steps[s] \in Row /\ steps[s].status # NONE /\ steps[s].stepType # NONE
  BY <1>1 DEF Core, Tables
<1>3. Active(s)
  BY <1>2 DEF Active, Row, StepStatus, TerminalStep, NONTERMINAL_STEP_STATUSES
<1> QED
  BY <1>2, <1>3 DEF Core, SingleThread, OpenStepIsCurrent, OpenSteps

\* Rows that are not written are updated trivially.
LEMMA RowsStay ==
  ASSUME Core, NEW s \in Existing
  PROVE  /\ Updates(steps[s], steps[s])
         /\ steps[s].status \in NONTERMINAL_STEP_STATUSES =>
              Active(s) /\ steps[s].metadata \notin ReviewVerdict
<1>1. s \in StepId
  BY ConstantsAssumption DEF Existing, StepId, Core, Tables
<1> QED
  BY <1>1 DEF Updates, Active, Core, Tables, Link

\* startRun inserts a PLAN, whatever has become of the run since it was read.
LEMMA StartCommits ==
  ASSUME Inv, NEW c \in Callers, StartCommit(c)
  PROVE  Core' /\ Evolves
<1> DEFINE new == created + 1
<1>1. /\ created < MaxSteps /\ created' = created + 1
      /\ steps' = [steps EXCEPT ![created + 1] = ReadyStep("PLAN", 0)]
      /\ run' = [run EXCEPT !.status = "RUNNING", !.currentStepType = "PLAN"]
  BY DEF StartCommit, CommitWithStep
<1>2. /\ run' \in RunRow /\ run'.status = "RUNNING" /\ run'.currentStepType = "PLAN"
      /\ run'.correctionLoopCount = run.correctionLoopCount
  BY <1>1 DEF Inv, Core, Tables, RunRow, RunStatus, EngineeringStepType
<1>3. Core /\ Tables /\ created \in Nat /\ new \in StepId
  BY <1>1, ConstantsAssumption DEF Inv, Core, Tables, StepId
<1>4. steps'[new].stepType = "PLAN" /\ steps'[new].metadata = NONE
  BY <1>1, <1>3 DEF ReadyStep, Tables
<1>5. \A s \in Existing :
        /\ Updates(steps[s], steps[s])
        /\ steps[s].status \in NONTERMINAL_STEP_STATUSES =>
             Active(s) /\ steps[s].metadata \notin ReviewVerdict
  BY <1>3, RowsStay
<1>6. StartedOnce /\ created = 0 =>
        /\ \A s \in Existing : steps[s].status \in TerminalStep
        /\ run'.correctionLoopCount <= MaxCorrectionLoops
  BY <1>2, <1>3 DEF Existing, Core, LoopAccounting
<1>7. run'.correctionLoopCount <= Cardinality(Corrections)
  BY <1>2, <1>3 DEF Core, LoopAccounting
<1> HIDE DEF new
<1>8. ASSUME NEW n, n = new PROVE Link(n)'
  BY <1>4, <1>8 DEF Link, NONE, ReviewVerdict
<1>9. /\ "PLAN" \in EngineeringStepType /\ "PLAN" # "CORRECTION" /\ new = created + 1
      /\ 0 \in 0..MaxSteps /\ steps \in [StepId -> Row]
  BY <1>3, ConstantsAssumption DEF EngineeringStepType, Tables, new
<1> QED
  BY <1>1, <1>2, <1>3, <1>5, <1>6, <1>7, <1>8, <1>9, Inserted

\* cancelRun closes every open step.
LEMMA CancelCommits ==
  ASSUME Inv, NEW c \in Callers, CancelCommit(c)
  PROVE  Core' /\ Evolves
<1> DEFINE open == {s \in Existing : Active(s)}
<1>1. /\ run' = [run EXCEPT !.status = "CANCELLED", !.currentStepType = NONE]
      /\ steps' = [s \in StepId |-> IF s \in open THEN [steps[s] EXCEPT !.status = "CANCELLED"]
                                    ELSE steps[s]]
      /\ created' = created
  BY DEF CancelCommit, Cancelled
<1>2. Tables /\ Existing \subseteq StepId
  BY ConstantsAssumption DEF Inv, Core, Tables, Existing, StepId
<1>3. /\ run' \in RunRow /\ run'.status = "CANCELLED"
      /\ run'.correctionLoopCount = run.correctionLoopCount
  BY <1>1, <1>2 DEF Tables, RunRow, RunStatus
<1>4. /\ \A s \in open : /\ steps'[s] = [steps[s] EXCEPT !.status = "CANCELLED"]
                         /\ steps[s].status \notin TerminalStep
      /\ \A s \in StepId \ open : steps'[s] = steps[s]
  BY <1>1, <1>2 DEF Active, TerminalStep, NONTERMINAL_STEP_STATUSES
<1>5. steps' \in [StepId -> Row]
  BY <1>1, <1>2 DEF Tables, Row, StepStatus
<1>6. \A s \in Existing : Updates(steps[s], steps'[s]) /\ ~Active(s)'
  <2> SUFFICES ASSUME NEW s \in Existing PROVE Updates(steps[s], steps'[s]) /\ ~Active(s)'
    OBVIOUS
  <2>1. steps[s] \in Row /\ steps[s].status # NONE
    BY <1>2 DEF Tables
  <2>2. CASE s \in open
    BY <1>4, <2>1, <2>2 DEF Updates, Active, NONTERMINAL_STEP_STATUSES, Row, NONE
  <2>3. CASE s \notin open
    BY <1>2, <1>4, <2>1, <2>3 DEF Updates, Active
  <2> QED
    BY <2>2, <2>3
<1>7. \A s \in StepId \ Existing : steps'[s] = steps[s]
  BY <1>4
<1>8. ~(AwaitsDecision \/ LoopExhausted)'
  BY <1>3 DEF AwaitsDecision, LoopExhausted
<1> HIDE DEF open
<1> QED
  BY <1>1, <1>3, <1>5, <1>6, <1>7, <1>8, UpdatedInPlace DEF Inv

\* resumeRun, even with stale reads, only makes waiting steps ready.
LEMMA ResumeCommits ==
  ASSUME Inv, NEW c \in Callers, ResumeCommit(c)
  PROVE  Core' /\ Evolves
<1> DEFINE waiting == ReturnedToReady(c)
<1>1. /\ run' = [run EXCEPT !.status = "RUNNING", !.blockReasonCode = NONE]
      /\ steps' = [s \in StepId |-> IF s \in waiting THEN [steps[s] EXCEPT !.status = "READY"]
                                    ELSE steps[s]]
      /\ created' = created
  BY DEF ResumeCommit
<1>2. Tables /\ Existing \subseteq StepId
  BY ConstantsAssumption DEF Inv, Core, Tables, Existing, StepId
<1>3. /\ run' \in RunRow /\ run'.status = "RUNNING"
      /\ run'.currentStepType = run.currentStepType
      /\ run'.correctionLoopCount = run.correctionLoopCount
  BY <1>1, <1>2 DEF Tables, RunRow, RunStatus
<1>4. \A s \in waiting : s \in Existing /\ steps[s].status = "WAITING"
  BY DEF ReturnedToReady
<1> HIDE DEF waiting
<1>5. steps' \in [StepId -> Row]
  BY <1>1, <1>2 DEF Tables, Row, StepStatus
<1>6. \A s \in Existing : /\ Updates(steps[s], steps'[s])
                          /\ Active(s)' => Active(s)
                          /\ steps'[s].metadata = steps[s].metadata
  <2> SUFFICES ASSUME NEW s \in Existing
               PROVE  /\ Updates(steps[s], steps'[s])
                      /\ Active(s)' => Active(s)
                      /\ steps'[s].metadata = steps[s].metadata
    OBVIOUS
  <2>1. steps[s] \in Row /\ steps[s].status # NONE
    BY <1>2 DEF Tables
  <2>2. CASE s \in waiting
    BY <1>1, <1>2, <1>4, <2>1, <2>2
       DEF Updates, Active, NONTERMINAL_STEP_STATUSES, TerminalStep, Row, NONE
  <2>3. CASE s \notin waiting
    BY <1>1, <1>2, <2>1, <2>3 DEF Updates, Active
  <2> QED
    BY <2>2, <2>3
<1>7. \A s \in StepId \ Existing : steps'[s] = steps[s]
  BY <1>1, <1>4
<1>8. Core /\ \A s \in Existing : Active(s) => steps[s].metadata \notin ReviewVerdict
  BY DEF Inv, Core, Link
<1>9. \A s \in Existing : Active(s)' =>
        Active(s) /\ steps'[s].metadata \notin ReviewVerdict
  BY <1>6, <1>8
<1>10. StartedOnce => \A s \in Existing : Active(s)' =>
         /\ run'.currentStepType = steps[s].stepType
         /\ run'.status \in {"RUNNING", "BLOCKED"}
  BY <1>3, <1>6, <1>8 DEF Core, SingleThread, OpenStepIsCurrent, OpenSteps
<1>11. ~(AwaitsDecision \/ LoopExhausted)'
  BY <1>3 DEF AwaitsDecision, LoopExhausted
<1> QED
  BY <1>1, <1>3, <1>5, <1>6, <1>7, <1>8, <1>9, <1>10, <1>11, UpdatedInPlace

\* requestCorrection inserts a CORRECTION within the budget.
LEMMA CorrectionCommits ==
  ASSUME Inv, NEW c \in Callers, CorrectionCommit(c)
  PROVE  Core' /\ Evolves
<1> DEFINE parse == op[c].step
           new == created + 1
<1>1. /\ created < MaxSteps /\ created' = created + 1
      /\ steps' = [steps EXCEPT ![created + 1] = ReadyStep("CORRECTION", parse)]
      /\ run' = [run EXCEPT !.status = "RUNNING", !.currentStepType = "CORRECTION",
                            !.blockReasonCode = NONE,
                            !.correctionLoopCount = run.correctionLoopCount + 1]
      /\ run.currentStepType = NONE /\ run.correctionLoopCount = op[c].loops
      /\ AwaitsDecision
  BY DEF CorrectionCommit, CommitWithStep, AwaitsDecision
<1>2. parse \in Existing /\ op[c].loops < MaxCorrectionLoops /\ Core
  BY DEF CorrectionCommit, Inv, InFlight, Relies
<1>3. /\ Tables /\ Existing \subseteq StepId /\ created \in Nat /\ new \in StepId
      /\ parse \in 0..MaxSteps /\ new \in Nat
  BY <1>1, <1>2, ConstantsAssumption DEF Core, Tables, Existing, StepId
<1>4. /\ run' \in RunRow /\ run'.status = "RUNNING" /\ run'.currentStepType = "CORRECTION"
      /\ run'.correctionLoopCount = run.correctionLoopCount + 1
      /\ run'.correctionLoopCount <= MaxCorrectionLoops
  <2>1. run \in RunRow
    BY <1>3 DEF Tables, RunRow
  <2> DEFINE count == run.correctionLoopCount + 1
  <2>2. count \in Nat /\ NONE \in BlockReasonType \cup {NONE}
        /\ "RUNNING" \in RunStatus /\ "CORRECTION" \in EngineeringStepType \cup {NONE}
    BY <2>1 DEF RunRow, RunStatus, EngineeringStepType
  <2>5. run' = [run EXCEPT !.status = "RUNNING", !.currentStepType = "CORRECTION",
                           !.blockReasonCode = NONE, !.correctionLoopCount = count]
    BY <1>1
  <2> HIDE DEF count
  <2>6. run' \in RunRow
    BY <2>1, <2>2, <2>5 DEF RunRow
  <2>3. /\ run'.status = "RUNNING" /\ run'.currentStepType = "CORRECTION"
        /\ run'.correctionLoopCount = run.correctionLoopCount + 1
    BY <1>1, <2>1 DEF RunRow
  <2>4. run.correctionLoopCount + 1 <= MaxCorrectionLoops
    BY <1>1, <1>2, <2>1, ConstantsAssumption DEF RunRow
  <2> QED
    BY <2>6, <2>3, <2>4
<1>5. steps'[new].stepType = "CORRECTION" /\ steps'[new].metadata = NONE
  BY <1>1, <1>3 DEF ReadyStep, Tables
<1>6. \A s \in Existing :
        /\ Updates(steps[s], steps[s])
        /\ steps[s].status \in NONTERMINAL_STEP_STATUSES =>
             Active(s) /\ steps[s].metadata \notin ReviewVerdict
  BY <1>2, RowsStay
<1> HIDE DEF parse, new
<1>7. ASSUME NEW n, n = new PROVE Link(n)'
  BY <1>5, <1>7 DEF Link, NONE, ReviewVerdict
<1>8. /\ "CORRECTION" \in EngineeringStepType /\ steps \in [StepId -> Row]
      /\ new = created + 1 /\ created # 0
  BY <1>2, <1>3 DEF EngineeringStepType, Tables, new, Existing
<1>9. StartedOnce => \A s \in Existing : steps[s].status \in TerminalStep
  BY <1>1, <1>2, NothingOpen
<1> QED
  BY <1>1, <1>2, <1>3, <1>4, <1>6, <1>7, <1>8, <1>9, Inserted

\* The row of a step that is cancelled.
LEMMA CancelledStep ==
  ASSUME NEW row \in Row, row.status \in NONTERMINAL_STEP_STATUSES
  PROVE  LET new == [row EXCEPT !.status = "CANCELLED"] IN
         /\ new \in Row /\ Updates(row, new) /\ new.status = "CANCELLED"
         /\ new.status \in TerminalStep /\ new.status \notin NONTERMINAL_STEP_STATUSES
BY DEF Updates, Row, StepStatus, TerminalStep, NONTERMINAL_STEP_STATUSES, NONE

\* A recovery that cancels open steps leaves the others as they are.
LEMMA CancelledRows ==
  ASSUME Core, NEW S \in SUBSET Existing, \A s \in S : Active(s),
         NEW rows, rows = Cancelled(steps, S)
  PROVE  /\ rows \in [StepId -> Row]
         /\ \A s \in Existing :
              /\ Updates(steps[s], rows[s])
              /\ rows[s].status \in NONTERMINAL_STEP_STATUSES =>
                   Active(s) /\ rows[s].metadata \notin ReviewVerdict
         /\ \A s \in S : rows[s].status \in TerminalStep
         /\ \A s \in StepId \ S : rows[s] = steps[s]
<1>1. Existing \subseteq StepId /\ steps \in [StepId -> Row] /\ S \subseteq StepId
  BY ConstantsAssumption DEF Existing, StepId, Core, Tables
<1>2. /\ \A s \in S : rows[s] = [steps[s] EXCEPT !.status = "CANCELLED"]
      /\ \A s \in StepId \ S : rows[s] = steps[s]
      /\ rows = [s \in StepId |-> IF s \in S THEN [steps[s] EXCEPT !.status = "CANCELLED"]
                                  ELSE steps[s]]
  BY <1>1 DEF Cancelled
<1>3. \A s \in S : /\ rows[s] \in Row /\ Updates(steps[s], rows[s])
                   /\ rows[s].status \in TerminalStep
                   /\ rows[s].status \notin NONTERMINAL_STEP_STATUSES
  BY <1>1, <1>2, CancelledStep DEF Active
<1>4. rows \in [StepId -> Row]
  BY <1>1, <1>2, <1>3
<1>5. ASSUME NEW s \in Existing
      PROVE  /\ Updates(steps[s], rows[s])
             /\ rows[s].status \in NONTERMINAL_STEP_STATUSES =>
                  Active(s) /\ rows[s].metadata \notin ReviewVerdict
  <2>1. CASE s \in S
    BY <1>3, <2>1
  <2>2. CASE s \notin S
    BY <1>1, <1>2, <2>2, RowsStay
  <2> QED
    BY <2>1, <2>2
<1> QED
  BY <1>2, <1>3, <1>4, <1>5

\* The loop-exhausted recovery closes the open steps it read, and inserts a TEST.
LEMMA TestRecoveryCommits ==
  ASSUME Inv, NEW c \in Callers, TestRecoveryCommit(c)
  PROVE  Core' /\ Evolves
<1> DEFINE correction == op[c].step
           new == created + 1
           rows == Cancelled(steps, op[c].stale)
<1>1. /\ created < MaxSteps /\ created' = created + 1
      /\ steps' = [rows EXCEPT ![created + 1] = ReadyStep("TEST", correction)]
      /\ run' = [run EXCEPT !.status = "RUNNING", !.currentStepType = "TEST",
                            !.blockReasonCode = NONE]
      /\ run.currentStepType = NONE /\ LoopExhausted /\ \A s \in op[c].stale : Active(s)
  BY DEF TestRecoveryCommit, CommitWithStep, LoopExhausted
<1>2. correction \in Existing /\ op[c].stale \in SUBSET Existing /\ Core
  BY DEF TestRecoveryCommit, Inv, InFlight, Relies
<1>3. /\ Tables /\ Existing \subseteq StepId /\ created \in Nat /\ new \in StepId
      /\ correction \in 0..MaxSteps /\ new \in Nat /\ created # 0
  BY <1>1, <1>2, ConstantsAssumption DEF Core, Tables, Existing, StepId
<1>4. /\ rows \in [StepId -> Row]
      /\ \A s \in Existing :
           /\ Updates(steps[s], rows[s])
           /\ rows[s].status \in NONTERMINAL_STEP_STATUSES =>
                Active(s) /\ rows[s].metadata \notin ReviewVerdict
      /\ \A s \in op[c].stale : rows[s].status \in TerminalStep
      /\ \A s \in StepId \ op[c].stale : rows[s] = steps[s]
  BY <1>1, <1>2, CancelledRows
<1>5. /\ run' \in RunRow /\ run'.status = "RUNNING" /\ run'.currentStepType = "TEST"
      /\ run'.correctionLoopCount = run.correctionLoopCount
  BY <1>1, <1>2, <1>3 DEF Tables, RunRow, RunStatus, EngineeringStepType
<1> HIDE DEF rows
<1>6. steps'[new].stepType = "TEST" /\ steps'[new].metadata = NONE
  BY <1>1, <1>3, <1>4 DEF ReadyStep
<1>7. /\ run'.correctionLoopCount <= Cardinality(Corrections)
      /\ StartedOnce => run'.correctionLoopCount <= MaxCorrectionLoops
  BY <1>2, <1>5 DEF Core, LoopAccounting
<1>8. StartedOnce => \A s \in Existing : rows[s].status \in TerminalStep
  BY <1>1, <1>2, <1>3, <1>4, NothingOpen
<1> HIDE DEF correction, new
<1>9. ASSUME NEW n, n = new PROVE Link(n)'
  BY <1>6, <1>9 DEF Link, NONE, ReviewVerdict
<1>10. /\ "TEST" \in EngineeringStepType /\ "TEST" # "CORRECTION" /\ new = created + 1
       /\ \A s \in StepId \ Existing : rows[s] = steps[s]
  BY <1>2, <1>4 DEF EngineeringStepType, new
<1> QED
  BY <1>1, <1>2, <1>3, <1>4, <1>5, <1>7, <1>8, <1>9, <1>10, Inserted

\* The verification recovery closes the gate and inserts a VERIFY behind the
\* same verdict.
LEMMA VerifyRecoveryCommits ==
  ASSUME Inv, NEW c \in Callers, VerifyRecoveryCommit(c)
  PROVE  Core' /\ Evolves
<1> DEFINE gate == op[c].step
           verify == steps[gate].causationId
           parse == steps[verify].causationId
           rows == Cancelled(steps, {gate})
           new == created + 1
<1>1. /\ created < MaxSteps /\ created' = created + 1
      /\ steps' = [rows EXCEPT ![created + 1] = ReadyStep("VERIFY", parse)]
      /\ run' = [run EXCEPT !.currentStepType = "VERIFY", !.blockReasonCode = NONE]
      /\ run.status = "RUNNING" /\ steps[gate].status = "READY"
  BY DEF VerifyRecoveryCommit, CommitWithStep, AtReleaseGate
<1>2. gate \in Existing /\ steps[gate].stepType = "HUMAN_RELEASE_GATE" /\ Core
  BY DEF VerifyRecoveryCommit, Inv, InFlight, Relies
<1>3. verify \in Succeeded("VERIFY")
  BY <1>2 DEF Core, Link
<1>4. parse \in Succeeded("PARSE_VERDICT") /\ steps[parse].metadata \notin {"C", "D"}
  BY <1>2, <1>3 DEF Core, Link, Succeeded
<1>5. /\ Tables /\ Existing \subseteq StepId /\ created \in Nat /\ new \in StepId
      /\ created # 0 /\ new \in Nat /\ new \notin Existing /\ parse \in 0..MaxSteps /\ parse # gate
      /\ parse \in Existing
  <2>1. parse \in Existing /\ parse # gate
    BY <1>1, <1>4 DEF Succeeded
  <2> HIDE DEF parse, gate, new
  <2>2. Tables
    BY <1>2 DEF Core
  <2> QED
    BY <1>1, <2>1, <2>2, ConstantsAssumption DEF Tables, Existing, StepId, new
<1> HIDE DEF gate, parse, new
<1>6. Active(gate) /\ {gate} \in SUBSET Existing /\ \A s \in {gate} : Active(s)
  BY <1>1, <1>2 DEF Active, NONTERMINAL_STEP_STATUSES
<1>7. /\ rows \in [StepId -> Row]
      /\ \A s \in Existing :
           /\ Updates(steps[s], rows[s])
           /\ rows[s].status \in NONTERMINAL_STEP_STATUSES =>
                Active(s) /\ rows[s].metadata \notin ReviewVerdict
      /\ rows[gate].status \in TerminalStep
      /\ \A s \in StepId \ {gate} : rows[s] = steps[s]
  BY <1>2, <1>6, CancelledRows
<1> HIDE DEF rows
<1>8. ASSUME StartedOnce, NEW s \in Existing PROVE rows[s].status \in TerminalStep
  <2>1. CASE s = gate
    BY <1>7, <2>1
  <2>2. CASE s # gate
    <3>1. rows[s] = steps[s] /\ steps[s] \in Row /\ steps[s].status # NONE
      BY <1>5, <1>7, <2>2 DEF Tables
    <3>2. ~Active(s)
      BY <1>2, <1>6, <1>8, <2>2, OneOpen
    <3> QED
      BY <3>1, <3>2 DEF Active, Row, StepStatus, TerminalStep, NONTERMINAL_STEP_STATUSES
  <2> QED
    BY <2>1, <2>2
<1>9. /\ run' \in RunRow /\ run'.status = "RUNNING" /\ run'.currentStepType = "VERIFY"
      /\ run'.correctionLoopCount = run.correctionLoopCount
      /\ run'.correctionLoopCount <= Cardinality(Corrections)
      /\ StartedOnce => run'.correctionLoopCount <= MaxCorrectionLoops
  BY <1>1, <1>2, <1>5 DEF Tables, RunRow, RunStatus, EngineeringStepType, Core, LoopAccounting
<1>10. /\ steps'[new] = ReadyStep("VERIFY", parse)
       /\ steps'[parse] = steps[parse]
  BY <1>1, <1>5, <1>7 DEF new
<1>11. parse \in Succeeded("PARSE_VERDICT")'
  BY <1>1, <1>4, <1>5, <1>10 DEF Succeeded, Existing
<1>12. ASSUME NEW n, n = new PROVE Link(n)'
  BY <1>4, <1>10, <1>11, <1>12 DEF Link, ReadyStep, NONE, ReviewVerdict
<1>13. /\ "VERIFY" \in EngineeringStepType /\ "VERIFY" # "CORRECTION" /\ new = created + 1
       /\ \A s \in StepId \ Existing : rows[s] = steps[s]
       /\ \E s \in Existing : Active(s) /\ rows[s].status \in TerminalStep
  BY <1>2, <1>6, <1>7 DEF EngineeringStepType, new
<1> QED
  BY <1>1, <1>2, <1>5, <1>7, <1>8, <1>9, <1>12, <1>13, Inserted

\* The row of a completed step.
LEMMA CompletedStep ==
  ASSUME NEW row \in Row, NEW in \in CompleteStepInput, row.status = "READY"
  PROVE  /\ completedStep(row, in) \in Row
         /\ Updates(row, completedStep(row, in))
         /\ completedStep(row, in).status
              = IF in.providerStatus \in BlockingProviderStatus THEN "WAITING" ELSE in.stepStatus
         /\ completedStep(row, in).metadata
              = IF in.metadata = NONE THEN row.metadata ELSE in.metadata
<1> DEFINE status == IF in.providerStatus \in BlockingProviderStatus
                     THEN "WAITING" ELSE in.stepStatus
           metadata == IF in.metadata = NONE THEN row.metadata ELSE in.metadata
<1>1. status \in {"WAITING", "SUCCEEDED", "FAILED"} /\ metadata \in Metadata
  BY DEF CompleteStepInput, Row
<1>2. completedStep(row, in) = [row EXCEPT !.status = status, !.metadata = metadata]
  BY DEF completedStep
<1> HIDE DEF status, metadata
<1>3. [row EXCEPT !.status = status, !.metadata = metadata] \in Row
  BY <1>1 DEF Row, StepStatus
<1>4. Updates(row, [row EXCEPT !.status = status, !.metadata = metadata])
  BY <1>1 DEF Row, Updates, TerminalStep, NONE
<1> QED
  BY <1>2, <1>3, <1>4 DEF Row, status, metadata

\* What a completion finds when its claim succeeds.
LEMMA ClaimFinds ==
  ASSUME Inv, NEW c \in Callers, op[c].call = "completeClaim", Claimable(op[c].step)
  PROVE  LET s == op[c].step  in == op[c].input IN
         /\ s \in Existing /\ s \in StepId /\ in \in Completions /\ in \in CompleteStepInput
         /\ in.stepType = steps[s].stepType /\ steps[s].stepType \in EngineeringStepType
         /\ steps[s] \in Row /\ steps[s].status = "READY"
         /\ steps[s].metadata \notin ReviewVerdict
         /\ op[c].loops \in Nat /\ op[c].loops <= Cardinality(Corrections)
         /\ StartedOnce =>
              /\ op[c].loops = run.correctionLoopCount
              /\ \A u \in Existing : u # s => steps[u].status \in TerminalStep
<1> DEFINE s == op[c].step
           in == op[c].input
<1>1. /\ s \in Existing /\ in \in Completions /\ in.stepType = steps[s].stepType
      /\ StartedOnce /\ Active(s) => op[c].loops = run.correctionLoopCount
      /\ op[c].loops \in Nat /\ op[c].loops <= Cardinality(Corrections)
  BY DEF Inv, InFlight, Relies, Call
<1>2. steps[s].status = "READY" /\ Active(s)
  BY DEF Claimable, Active, NONTERMINAL_STEP_STATUSES
<1>3. Tables /\ Existing \subseteq StepId
  BY ConstantsAssumption DEF Inv, Core, Tables, Existing, StepId
<1>4. StartedOnce => \A u \in Existing : u # s => steps[u].status \in TerminalStep
  <2> SUFFICES ASSUME StartedOnce, NEW u \in Existing, u # s
               PROVE  steps[u].status \in TerminalStep
    OBVIOUS
  <2>1. ~Active(u)
    BY <1>1, <1>2, OneOpen DEF Inv
  <2>2. steps[u].status \in StepStatus
    BY <1>3 DEF Tables, Row
  <2> QED
    BY <2>1, <2>2 DEF Active, StepStatus, TerminalStep, NONTERMINAL_STEP_STATUSES
<1>5. steps[s].metadata \notin ReviewVerdict
  BY <1>1, <1>2 DEF Inv, Core, Link
<1>6. steps[s] \in Row /\ steps[s].stepType \in EngineeringStepType
  BY <1>1, <1>3 DEF Tables, Row
<1> QED
  BY <1>1, <1>2, <1>3, <1>4, <1>5, <1>6, ConstantsAssumption

\* completeStep closes its step, or leaves it waiting for a provider, and inserts
\* what the state machine says.
LEMMA CompleteCommits ==
  ASSUME Inv, NEW c \in Callers, CompleteCommit(c)
  PROVE  Core' /\ Evolves
<1> DEFINE s == op[c].step
           in == op[c].input
           loops == op[c].loops
           t == steps[s].stepType
           out == nextEngineeringStep(StateMachineInput(in, t, loops))
           row == completedStep(steps[s], in)
           rows == [steps EXCEPT ![s] = row]
           new == created + 1
<1>1. /\ s \in Existing /\ s \in StepId /\ in \in Completions /\ in \in CompleteStepInput
      /\ in.stepType = t /\ t \in EngineeringStepType
      /\ steps[s] \in Row /\ steps[s].status = "READY"
      /\ steps[s].metadata \notin ReviewVerdict
      /\ loops \in Nat /\ loops <= Cardinality(Corrections)
      /\ StartedOnce =>
           /\ loops = run.correctionLoopCount
           /\ \A u \in Existing : u # s => steps[u].status \in TerminalStep
  BY ClaimFinds DEF CompleteCommit
<1>2. /\ run' = transitionedRun(out, t, loops)
      /\ IF out.kind = "NEXT_STEP"
         THEN /\ created < MaxSteps /\ created' = created + 1
              /\ steps' = [rows EXCEPT ![created + 1] = ReadyStep(out.nextStep, s)]
         ELSE steps' = rows /\ created' = created
  BY DEF CompleteCommit, CommitWithStep
<1>3. /\ Core /\ Tables /\ run \in RunRow /\ Existing \subseteq StepId /\ created \in Nat
      /\ StartedOnce => run.correctionLoopCount <= MaxCorrectionLoops
      /\ created # 0 /\ run.correctionLoopCount \in Nat
  BY <1>1, ConstantsAssumption DEF Inv, Core, Tables, LoopAccounting, RunRow, Existing, StepId
<1>4. /\ row \in Row /\ Updates(steps[s], row)
      /\ row.status = IF in.providerStatus \in BlockingProviderStatus
                      THEN "WAITING" ELSE in.stepStatus
      /\ row.metadata = IF in.metadata = NONE THEN steps[s].metadata ELSE in.metadata
  BY <1>1, CompletedStep
<1>5. /\ rows \in [StepId -> Row] /\ rows[s] = row
      /\ \A u \in StepId \ {s} : rows[u] = steps[u]
  BY <1>1, <1>3, <1>4 DEF Tables
<1>6. \A u \in Existing : Updates(steps[u], rows[u])
  <2> SUFFICES ASSUME NEW u \in Existing PROVE Updates(steps[u], rows[u])
    OBVIOUS
  <2>1. CASE u = s
    BY <1>4, <1>5, <2>1
  <2>2. CASE u # s
    <3>1. rows[u] = steps[u] /\ steps[u].status # NONE
      BY <1>3, <1>5, <2>2 DEF Tables
    <3> QED
      BY <3>1 DEF Updates
  <2> QED
    BY <2>1, <2>2
<1>7. /\ out.kind \in {"NEXT_STEP", "BLOCKED", "COMPLETED", "FAILED"}
      /\ out.kind = "NEXT_STEP" => out.nextStep \in EngineeringStepType
      /\ out.kind = "BLOCKED" => out.reason \in BlockReasonType
      /\ in.providerStatus \in BlockingProviderStatus =>
           out.kind = "BLOCKED" /\ out.reason = "PROVIDER_BLOCKED"
      /\ out.nextStep = "CORRECTION" => ~(loops >= MaxCorrectionLoops)
      /\ out.nextStep = "VERIFY" =>
           /\ t = "PARSE_VERDICT" /\ in.stepStatus = "SUCCEEDED"
           /\ resolveVerdict(in) \in {"A", "B"}
      /\ out.nextStep = "HUMAN_RELEASE_GATE" => t = "VERIFY" /\ in.stepStatus = "SUCCEEDED"
      /\ out.nextStep = "RELEASE_EXECUTION" => t = "HUMAN_RELEASE_GATE" /\ in.humanApproved
  BY <1>1, TransitionFacts
<1>8. in.stepStatus \in TerminalStep /\ \A u \in StepId \ Existing : rows[u] = steps[u]
  BY <1>1, <1>5 DEF CompleteStepInput, TerminalStep
<1> HIDE DEF out, row, rows, t
<1>9. CASE out.kind = "NEXT_STEP"
  <2>1. row.status = in.stepStatus /\ in.providerStatus \notin BlockingProviderStatus
    BY <1>4, <1>7, <1>9
  <2>2. /\ rows[s].status \in TerminalStep /\ Active(s)
        /\ StartedOnce => \A u \in Existing : rows[u].status \in TerminalStep
    BY <1>1, <1>3, <1>5, <1>8, <2>1 DEF Active, NONTERMINAL_STEP_STATUSES
  <2>3. /\ run' = [run EXCEPT !.status = "RUNNING", !.currentStepType = out.nextStep,
                              !.correctionLoopCount = IF out.nextStep = "CORRECTION"
                                                      THEN run.correctionLoopCount + 1
                                                      ELSE loops]
        /\ created < MaxSteps /\ created' = created + 1
        /\ steps' = [rows EXCEPT ![created + 1] = ReadyStep(out.nextStep, s)]
    BY <1>2, <1>9 DEF transitionedRun
  <2>4. /\ run' \in RunRow /\ run'.status = "RUNNING" /\ run'.currentStepType = out.nextStep
        /\ run'.correctionLoopCount
             = IF out.nextStep = "CORRECTION" THEN run.correctionLoopCount + 1 ELSE loops
    <3> DEFINE count == IF out.nextStep = "CORRECTION"
                        THEN run.correctionLoopCount + 1 ELSE loops
               next == out.nextStep
    <3>1. count \in Nat /\ next \in EngineeringStepType /\ run \in RunRow
      BY <1>1, <1>3, <1>7, <1>9 DEF RunRow
    <3>2. run' = [run EXCEPT !.status = "RUNNING", !.currentStepType = next,
                             !.correctionLoopCount = count]
      BY <1>1, <2>3
    <3> HIDE DEF count, next
    <3>3. /\ run' \in RunRow /\ run'.status = "RUNNING" /\ run'.currentStepType = next
          /\ run'.correctionLoopCount = count
      BY <3>1, <3>2 DEF RunRow, RunStatus
    <3> QED
      BY <3>3 DEF count, next
  <2>5. StartedOnce =>
          /\ out.nextStep # "CORRECTION" => run'.correctionLoopCount = run.correctionLoopCount
          /\ run'.correctionLoopCount <= MaxCorrectionLoops
    BY <1>1, <1>3, <1>7, <2>4, ConstantsAssumption
  <2>6. new \in StepId /\ new \notin Existing /\ new # s /\ s \in Existing' /\ s \in 0..MaxSteps
    BY <1>1, <1>3, <2>3, ConstantsAssumption DEF Existing, StepId, new
  <2>7. steps'[new] = ReadyStep(out.nextStep, s) /\ steps'[s] = row
    BY <1>1, <1>5, <2>3, <2>6
  <2>8. row.stepType = t
    BY <1>4 DEF Updates, t
  <2>9. row.stepType = "PARSE_VERDICT" /\ resolveVerdict(in) \in {"A", "B"}
          => row.metadata \notin {"C", "D"}
    <3>1. in.metadata \in ReviewVerdict => in.metadata = resolveVerdict(in)
      BY <1>1, VerdictAssumption
    <3> QED
      BY <1>1, <1>4, <3>1 DEF ReviewVerdict
  <2>10. in.humanApproved =>
           row.metadata = "HUMAN_RELEASE_APPROVAL" /\ row.status = "SUCCEEDED"
    BY <1>1, <1>4, <2>1, ApprovalAssumption DEF NONE
  <2>11. /\ out.nextStep = "VERIFY" => /\ s \in Succeeded("PARSE_VERDICT")'
                                       /\ steps'[s].metadata \notin {"C", "D"}
         /\ out.nextStep = "HUMAN_RELEASE_GATE" => s \in Succeeded("VERIFY")'
         /\ out.nextStep = "RELEASE_EXECUTION" =>
              /\ s \in Succeeded("HUMAN_RELEASE_GATE")'
              /\ steps'[s].metadata = "HUMAN_RELEASE_APPROVAL"
    BY <1>7, <2>1, <2>6, <2>7, <2>8, <2>9, <2>10 DEF Succeeded
  <2> HIDE DEF s, new
  <2>12. ASSUME NEW n, n = new PROVE Link(n)'
    BY <2>7, <2>11, <2>12 DEF Link, ReadyStep, NONE, ReviewVerdict
  <2>13. /\ new = created + 1
         /\ \E u \in Existing : Active(u) /\ rows[u].status \in TerminalStep
         /\ IF out.nextStep = "CORRECTION"
            THEN run'.correctionLoopCount = run.correctionLoopCount + 1
            ELSE run'.correctionLoopCount <= Cardinality(Corrections)
    BY <1>1, <2>2, <2>4 DEF new
  <2>14. ASSUME NEW u \in Existing, rows[u].status \in NONTERMINAL_STEP_STATUSES
         PROVE  Active(u) /\ rows[u].metadata \notin ReviewVerdict
    <3>1. u # s
      BY <2>2, <2>14 DEF TerminalStep, NONTERMINAL_STEP_STATUSES
    <3>2. rows[u] = steps[u]
      BY <1>3, <1>5, <3>1
    <3> QED
      BY <1>3, <2>14, <3>2, RowsStay
  <2> QED
    BY <1>3, <1>5, <1>6, <1>7, <1>8, <1>9, <2>2, <2>3, <2>4, <2>5, <2>6, <2>12, <2>13,
       <2>14, Inserted
<1>10. CASE out.kind # "NEXT_STEP"
  <2>1. steps' = rows /\ created' = created
    BY <1>2, <1>10
  <2>2. run' = IF out.kind = "BLOCKED"
               THEN [run EXCEPT !.status = "BLOCKED", !.blockReasonCode = out.reason,
                                !.currentStepType = IF out.reason = "PROVIDER_BLOCKED"
                                                    THEN t ELSE NONE]
               ELSE [run EXCEPT !.status = out.kind, !.currentStepType = NONE]
    BY <1>2, <1>10 DEF transitionedRun
  <2>3. /\ run' \in RunRow /\ run'.correctionLoopCount = run.correctionLoopCount
        /\ run'.status = out.kind
        /\ out.kind = "BLOCKED" /\ out.reason = "PROVIDER_BLOCKED" => run'.currentStepType = t
    <3>1. CASE out.kind = "BLOCKED"
      BY <1>1, <1>3, <1>7, <2>2, <3>1 DEF RunRow, RunStatus, t
    <3>2. CASE out.kind # "BLOCKED"
      BY <1>3, <1>7, <1>10, <2>2, <3>2 DEF RunRow, RunStatus
    <3> QED
      BY <3>1, <3>2
  <2>4. ASSUME NEW u \in Existing, Active(u)'
        PROVE  Active(u) /\ steps'[u].metadata \notin ReviewVerdict
    <3>1. CASE u = s
      <4>1. in.providerStatus \in BlockingProviderStatus
        BY <1>4, <1>5, <1>8, <2>1, <2>4, <3>1 DEF Active, TerminalStep, NONTERMINAL_STEP_STATUSES
      <4>2. in.metadata \notin ReviewVerdict
        BY <1>1, <4>1, VerdictAssumption DEF BlockingProviderStatus, NONE
      <4>3. Active(u)
        BY <1>1, <3>1 DEF Active, NONTERMINAL_STEP_STATUSES
      <4>4. steps'[u].metadata \notin ReviewVerdict
        BY <1>1, <1>4, <1>5, <2>1, <3>1, <4>2
      <4> QED
        BY <4>3, <4>4
    <3>2. CASE u # s
      <4>1. steps'[u] = steps[u]
        BY <1>3, <1>5, <2>1, <3>2
      <4> QED
        BY <1>3, <2>4, <4>1, RowsStay DEF Active
    <3> QED
      BY <3>1, <3>2
  <2>5. ASSUME StartedOnce, NEW u \in Existing, Active(u)'
        PROVE  /\ run'.currentStepType = steps[u].stepType
               /\ run'.status \in {"RUNNING", "BLOCKED"}
    <3>1. u = s
      BY <1>1, <1>3, <1>5, <2>1, <2>5 DEF Active, TerminalStep, NONTERMINAL_STEP_STATUSES
    <3>2. in.providerStatus \in BlockingProviderStatus
      BY <1>4, <1>5, <1>8, <2>1, <2>5, <3>1 DEF Active, TerminalStep, NONTERMINAL_STEP_STATUSES
    <3> QED
      BY <1>7, <2>3, <3>1, <3>2 DEF t
  <2>6. ASSUME (AwaitsDecision \/ LoopExhausted)'
        PROVE  \E u \in Existing : Active(u) /\ ~Active(u)'
    <3>1. /\ run'.status = "BLOCKED"
          /\ run'.blockReasonCode \in {"HUMAN_DECISION_REQUIRED", "LOOP_EXHAUSTED"}
      BY <2>6 DEF AwaitsDecision, LoopExhausted
    <3>2. out.kind = "BLOCKED" /\ out.reason # "PROVIDER_BLOCKED"
      BY <1>3, <2>2, <2>3, <3>1 DEF RunRow
    <3>3. row.status = in.stepStatus
      BY <1>4, <1>7, <3>2
    <3>4. PICK u \in Existing : u = s
      BY <1>1
    <3>5. Active(u) /\ ~Active(u)'
      BY <1>1, <1>5, <1>8, <2>1, <3>3, <3>4 DEF Active, TerminalStep, NONTERMINAL_STEP_STATUSES
    <3> QED
      BY <3>5
  <2> QED
    BY <1>3, <1>5, <1>6, <1>8, <2>1, <2>3, <2>4, <2>5, <2>6, UpdatedInPlace
<1> QED
  BY <1>9, <1>10

-----------------------------------------------------------------------------
(* The invariant is inductive.                                             *)

\* A transaction commits: the call returns, or has the signal left to give.
Transaction(c) ==
  \/ StartCommit(c) \/ CompleteCommit(c) \/ CancelCommit(c) \/ ResumeCommit(c)
  \/ CorrectionCommit(c) \/ TestRecoveryCommit(c) \/ VerifyRecoveryCommit(c)

\* Every transaction preserves the invariant.
LEMMA TransactionPreserves ==
  ASSUME Inv, NEW c \in Callers, Transaction(c)
  PROVE  Inv' /\ Evolves
<1>1. Core' /\ Evolves
  BY StartCommits, CompleteCommits, CancelCommits, ResumeCommits, CorrectionCommits,
     TestRecoveryCommits, VerifyRecoveryCommits DEF Transaction
<1>2. PICK local \in {Idle, SignalPending} : op' = [op EXCEPT ![c] = local]
  BY DEF Transaction, StartCommit, CompleteCommit, CancelCommit, ResumeCommit,
     CorrectionCommit, TestRecoveryCommit, VerifyRecoveryCommit, CommitWithStep, Commit
<1>3. Rest'
  BY DEF Transaction, StartCommit, CompleteCommit, CancelCommit, ResumeCommit,
     CorrectionCommit, TestRecoveryCommit, VerifyRecoveryCommit, CommitWithStep, Commit,
     Inv, Rest
<1>4. InFlight'
  BY <1>1, <1>2, CallsKeepRelying DEF Inv, Core
<1> QED
  BY <1>1, <1>3, <1>4 DEF Inv

\* A created run satisfies the invariant.
LEMMA InitInv == Init => Inv
<1> SUFFICES ASSUME Init PROVE Inv
  OBVIOUS
<1> USE DEF Init
<1>1. Existing = {} /\ created = 0
  BY DEF Existing
<1>2. NoStep \in Row /\ NoStep.status = NONE /\ NoStep.stepType = NONE
  BY ConstantsAssumption DEF NoStep, Row, Metadata
<1>3. Tables
  <2>1. run \in RunRow
    BY DEF RunRow, RunStatus
  <2>2. steps \in [StepId -> Row] /\ \A s \in StepId : steps[s] = NoStep
    BY <1>2
  <2> QED
    BY <1>1, <1>2, <2>1, <2>2, ConstantsAssumption DEF Tables, RunRow
<1>4. /\ Cardinality(Starts) = 0 /\ Cardinality(Corrections) = 0
      /\ Cardinality(OpenSteps) = 0 /\ OpenSteps = {}
  <2>1. Starts = {} /\ Corrections = {} /\ OpenSteps = {}
    BY <1>1 DEF Starts, Corrections, OpenSteps
  <2> QED
    BY <2>1, FS_EmptySet, Zenon
<1>5. Core
  <2>1. run.correctionLoopCount = 0 /\ run.status = "CREATED"
    OBVIOUS
  <2>2. FirstStepIsPlan /\ \A s \in Existing : Link(s)
    BY <1>1 DEF FirstStepIsPlan
  <2> HIDE DEF Init
  <2>3. LoopAccounting
    BY <1>4, <2>1, ConstantsAssumption DEF LoopAccounting
  <2>4. SingleThread
    BY <1>4, <2>1 DEF SingleThread, Threads, AwaitsDecision, LoopExhausted, OpenStepIsCurrent
  <2> QED
    BY <1>3, <2>2, <2>3, <2>4 DEF Core
<1>6. InFlight
  <2>1. /\ Idle \in Call /\ Idle.call = "idle" /\ Idle.step = 0 /\ Idle.stale = {}
    BY DEF Idle, Call, NONE
  <2>2. op \in [Callers -> Call] /\ \A c \in Callers : op[c] = Idle
    BY <2>1
  <2>3. \A c \in Callers : Relies(op[c])
    BY <1>1, <2>1, <2>2 DEF Relies
  <2> QED
    BY <2>1, <2>2, <2>3 DEF InFlight
<1>7. Rest
  <2>1. issued \in [CallKind -> Nat]
    OBVIOUS
  <2>2. armed \in BOOLEAN
    BY Zenon
  <2> QED
    BY <2>1, <2>2 DEF Rest
<1> QED
  BY <1>5, <1>6, <1>7 DEF Inv

\* Every step preserves the invariant and lets the rows evolve only as allowed.
LEMMA NextInv ==
  ASSUME Inv, [Next]_vars
  PROVE  Inv' /\ Evolves
<1>1. ASSUME NEW c \in Callers, Transaction(c)
      PROVE  Inv' /\ Evolves
  BY <1>1, TransactionPreserves
<1>2. ASSUME NEW c \in Callers,
             \/ StartRead(c) \/ CancelRead(c) \/ ResumeRead(c)
             \/ CompleteCall(c) \/ ApproveRead(c) \/ ApproveCall(c)
             \/ CompleteFreshRead(c) \/ CompleteClaimLost(c)
             \/ CorrectionRead(c) \/ TestRecoveryRead(c) \/ VerifyRecoveryRead(c)
      PROVE  Inv' /\ UNCHANGED <<run, steps, created>>
  <2>1. Inv'
    BY <1>2, LifecycleReads, CompletionReads, RecoveryReads
  <2>2. UNCHANGED <<run, steps, created>>
    BY <1>2 DEF StartRead, CancelRead, ResumeRead, CompleteCall, ApproveRead, ApproveCall,
       CompleteFreshRead, CompleteClaimLost, CorrectionRead, TestRecoveryRead,
       VerifyRecoveryRead, Return, Proceed
  <2> QED
    BY <2>1, <2>2
<1>3. ASSUME \/ \E c \in Callers :
                   CancelAgain(c) \/ CancelClaimLost(c) \/ CancelSignal(c) \/ Abort(c)
             \/ Restart
      PROVE  Inv' /\ UNCHANGED <<run, steps, created>>
  <2>1. Inv'
    BY <1>3, MemorySteps
  <2>2. UNCHANGED <<run, steps, created>>
    BY <1>3 DEF CancelAgain, CancelClaimLost, CancelSignal, Abort, Restart, Return, Proceed
  <2> QED
    BY <2>1, <2>2
<1>4. CASE UNCHANGED vars
  <2>1. Core' /\ UNCHANGED <<run, steps, created>>
    BY <1>4, TablesUnchanged DEF vars, Inv
  <2>2. InFlight' /\ Rest'
    BY <1>4 DEF vars, Inv, InFlight, Rest, Relies, Existing, Active, Corrections, Starts,
       StartedOnce
  <2> QED
    BY <2>1, <2>2, TablesUnchanged DEF Inv
<1>5. CASE Next
  BY <1>1, <1>2, <1>3, <1>5, TablesUnchanged DEF Next, Transaction, Inv
<1> QED
  BY <1>4, <1>5

-----------------------------------------------------------------------------
(* Results.                                                                *)

\* The invariant implies the properties.
LEMMA InvImplies ==
  ASSUME Inv
  PROVE  TypeOK /\ SingleThread /\ LoopAccounting /\ ReleaseLineage
<1>1. TypeOK
  BY DEF Inv, Core, Tables, Row, InFlight, Relies, Rest, TypeOK
<1>2. ReleaseLineage
  <2> SUFFICES ASSUME NEW s \in Existing, steps[s].stepType = "RELEASE_EXECUTION"
               PROVE  LET gate   == steps[s].causationId
                          verify == steps[gate].causationId
                          parse  == steps[verify].causationId IN
                      /\ gate \in Succeeded("HUMAN_RELEASE_GATE")
                      /\ steps[gate].metadata = "HUMAN_RELEASE_APPROVAL"
                      /\ verify \in Succeeded("VERIFY")
                      /\ parse \in Succeeded("PARSE_VERDICT")
                      /\ steps[parse].metadata \notin {"C", "D"}
    BY DEF ReleaseLineage
  <2> DEFINE gate   == steps[s].causationId
             verify == steps[gate].causationId
             parse  == steps[verify].causationId
  <2>1. \A u \in Existing : Link(u)
    BY DEF Inv, Core
  <2>2. /\ gate \in Succeeded("HUMAN_RELEASE_GATE")
        /\ steps[gate].metadata = "HUMAN_RELEASE_APPROVAL"
    BY <2>1 DEF Link
  <2>3. verify \in Succeeded("VERIFY")
    BY <2>1, <2>2 DEF Link, Succeeded
  <2>4. parse \in Succeeded("PARSE_VERDICT") /\ steps[parse].metadata \notin {"C", "D"}
    BY <2>1, <2>3 DEF Link, Succeeded
  <2> QED
    BY <2>2, <2>3, <2>4
<1> QED
  BY <1>1, <1>2 DEF Inv, Core

\* A commit other than cancelRun's never writes the status CANCELLED.
LEMMA CancelledByCancel ==
  ASSUME Inv, NEW c \in Callers, Transaction(c), ~CancelCommit(c), run.status # "CANCELLED"
  PROVE  run'.status # "CANCELLED"
<1>1. run \in RunRow
  BY DEF Inv, Core, Tables, RunRow
<1>2. CASE \/ StartCommit(c) \/ ResumeCommit(c) \/ CorrectionCommit(c)
           \/ TestRecoveryCommit(c) \/ VerifyRecoveryCommit(c)
  BY <1>1, <1>2 DEF StartCommit, ResumeCommit, CorrectionCommit, TestRecoveryCommit,
     VerifyRecoveryCommit, RunRow
<1>3. CASE CompleteCommit(c)
  <2> DEFINE t == steps[op[c].step].stepType
             out == nextEngineeringStep(StateMachineInput(op[c].input, t, op[c].loops))
  <2>1. out.kind \in {"NEXT_STEP", "BLOCKED", "COMPLETED", "FAILED"}
    <3>1. op[c].input \in CompleteStepInput /\ t \in EngineeringStepType /\ op[c].loops \in Nat
      BY <1>3, ClaimFinds DEF CompleteCommit
    <3> QED
      BY <3>1, TransitionFacts
  <2>2. run' = transitionedRun(out, t, op[c].loops)
    BY <1>3 DEF CompleteCommit
  <2> HIDE DEF out, t
  <2> QED
    BY <1>1, <2>1, <2>2 DEF transitionedRun, RunRow
<1> QED
  BY <1>2, <1>3 DEF Transaction

\* A call with the signal left to give gives it, unless the process dies.
LEMMA SignalsStayPending ==
  ASSUME Inv, Next, NEW d \in Callers, op[d].call = "cancelSignal", ~armed'
  PROVE  op'[d].call = "cancelSignal" \/ Restart
<1> SUFFICES ASSUME ~Restart PROVE op'[d].call = "cancelSignal"
  OBVIOUS
<1>1. PICK c \in Callers :
        \/ StartRead(c) \/ CancelRead(c) \/ ResumeRead(c)
        \/ CompleteCall(c) \/ ApproveRead(c) \/ ApproveCall(c)
        \/ CompleteFreshRead(c) \/ CompleteClaimLost(c)
        \/ CorrectionRead(c) \/ TestRecoveryRead(c) \/ VerifyRecoveryRead(c)
        \/ CancelAgain(c) \/ CancelClaimLost(c) \/ CancelSignal(c) \/ Abort(c)
        \/ Transaction(c)
  BY DEF Next, Transaction
<1>2. ~CancelAgain(c) /\ ~CancelSignal(c)
  BY DEF CancelAgain, CancelSignal
<1>3. op[c].call # "cancelSignal"
  BY <1>1, <1>2 DEF StartRead, CancelRead, ResumeRead, CompleteCall, ApproveRead, ApproveCall,
     CompleteFreshRead, CompleteClaimLost, CorrectionRead, TestRecoveryRead,
     VerifyRecoveryRead, CancelClaimLost, Abort, Issue, Transaction, StartCommit,
     CompleteCommit, CancelCommit, ResumeCommit, CorrectionCommit, TestRecoveryCommit,
     VerifyRecoveryCommit
<1>4. \E local : op' = [op EXCEPT ![c] = local]
  BY <1>1, <1>2 DEF StartRead, CancelRead, ResumeRead, CompleteCall, ApproveRead, ApproveCall,
     CompleteFreshRead, CompleteClaimLost, CorrectionRead, TestRecoveryRead,
     VerifyRecoveryRead, CancelClaimLost, Abort, Return, Proceed, Transaction, StartCommit,
     CompleteCommit, CancelCommit, ResumeCommit, CorrectionCommit, TestRecoveryCommit,
     VerifyRecoveryCommit, CommitWithStep, Commit
<1> QED
  BY <1>3, <1>4 DEF Inv, InFlight

\* Only a restart disarms the tombstone, and only it is counted as one.
LEMMA MemoryKept ==
  ASSUME Inv, Next, ~Restart, ~armed', ~(issued'["restart"] > 0)
  PROVE  ~armed /\ ~(issued["restart"] > 0)
<1>1. PICK c \in Callers :
        \/ StartRead(c) \/ CancelRead(c) \/ ResumeRead(c)
        \/ CorrectionRead(c) \/ TestRecoveryRead(c) \/ VerifyRecoveryRead(c)
        \/ CancelAgain(c)
        \/ CompleteCall(c) \/ ApproveRead(c) \/ ApproveCall(c)
        \/ CompleteFreshRead(c) \/ CompleteClaimLost(c)
        \/ CancelClaimLost(c) \/ CancelSignal(c) \/ Abort(c)
        \/ Transaction(c)
  BY DEF Next, Transaction
<1>2. ASSUME NEW kind \in CallKind \ {"restart"}, Issue(c, kind)
      PROVE  issued'["restart"] = issued["restart"]
  BY <1>2 DEF Issue, Inv, Rest, CallKind
<1>3. CASE \/ StartRead(c) \/ CancelRead(c) \/ ResumeRead(c)
           \/ CorrectionRead(c) \/ TestRecoveryRead(c) \/ VerifyRecoveryRead(c)
  <2>1. \E kind \in CallKind \ {"restart"} : Issue(c, kind)
    BY <1>3 DEF StartRead, CancelRead, ResumeRead, CorrectionRead, TestRecoveryRead,
       VerifyRecoveryRead, CallKind
  <2>2. armed' = armed
    BY <1>3 DEF StartRead, CancelRead, ResumeRead, CorrectionRead, TestRecoveryRead,
       VerifyRecoveryRead, Proceed
  <2> QED
    BY <1>2, <2>1, <2>2
<1>4. CASE CancelAgain(c) \/ CancelSignal(c)
  BY <1>4 DEF CancelAgain, CancelSignal
<1>5. CASE \/ CompleteCall(c) \/ ApproveRead(c) \/ ApproveCall(c)
           \/ CompleteFreshRead(c) \/ CompleteClaimLost(c)
           \/ CancelClaimLost(c) \/ Abort(c)
  <2>1. armed' = armed /\ issued' = issued
    BY <1>5 DEF CompleteCall, ApproveRead, ApproveCall, CompleteFreshRead,
       CompleteClaimLost, CancelClaimLost, Abort, Return, Proceed
  <2> QED
    BY <2>1
<1>6. CASE Transaction(c)
  <2>1. armed' = armed /\ issued' = issued
    BY <1>6 DEF Transaction, StartCommit, CompleteCommit, CancelCommit, ResumeCommit,
       CorrectionCommit, TestRecoveryCommit, VerifyRecoveryCommit, CommitWithStep, Commit
  <2> QED
    BY <2>1
<1> QED
  BY <1>1, <1>3, <1>4, <1>5, <1>6

\* Every step preserves CancelSignalled.
LEMMA SignalStep ==
  ASSUME Inv, [Next]_vars, CancelSignalled
  PROVE  CancelSignalled'
<1> SUFFICES ASSUME run'.status = "CANCELLED", ~armed',
                    ~(issued'["restart"] > 0)
             PROVE  \E c \in Callers : op'[c].call = "cancelSignal"
  BY DEF CancelSignalled
<1>1. CASE UNCHANGED vars
  BY <1>1 DEF vars, CancelSignalled
<1>2. CASE Next
  <2>1. ~Restart
    BY DEF Restart, Inv, Rest, CallKind
  <2>2. CASE run.status = "CANCELLED"
    <3>1. ~armed /\ ~(issued["restart"] > 0)
      BY <1>2, <2>1, MemoryKept
    <3>2. PICK d \in Callers : op[d].call = "cancelSignal"
      BY <2>2, <3>1 DEF CancelSignalled
    <3> QED
      BY <1>2, <2>1, <3>2, SignalsStayPending
  <2>3. CASE run.status # "CANCELLED"
    <3>1. PICK c \in Callers : Transaction(c)
      BY <1>2, <2>1, <2>3 DEF Next, Transaction, StartRead, CancelRead, ResumeRead,
         CompleteCall, ApproveRead, ApproveCall, CompleteFreshRead, CompleteClaimLost,
         CorrectionRead, TestRecoveryRead, VerifyRecoveryRead, CancelAgain, CancelClaimLost,
         CancelSignal, Abort, Return, Proceed
    <3>2. CancelCommit(c)
      BY <2>3, <3>1, CancelledByCancel
    <3> QED
      BY <3>2 DEF CancelCommit, SignalPending, Idle, Inv, InFlight
  <2> QED
    BY <2>2, <2>3
<1> QED
  BY <1>1, <1>2

\* Inv holds in every reachable state, whatever calls overlap.
THEOREM Invariance ==
  Spec => []Inv
<1>1. Inv /\ [Next]_vars => Inv'
  BY NextInv
<1> QED
  BY InitInv, <1>1, PTL DEF Spec

\* The rows and the calls in flight keep their types (workflow-runtime.service.ts
\* and the recovery services), for any number of callers, steps and calls.
THEOREM TypeCorrect ==
  Spec => []TypeOK
<1>1. Inv => TypeOK
  BY InvImplies
<1> QED
  BY Invariance, <1>1, PTL

\* However many calls race, starts that overlap included, there are never more threads
\* of work than starts that committed, and a run that was started once has one open
\* step at most, which is the one the run row names (the claim of completeStep, the run
\* row guards of the recoveries).
THEOREM SingleActiveStep ==
  Spec => []SingleThread
<1>1. Inv => SingleThread
  BY InvImplies
<1> QED
  BY Invariance, <1>1, PTL

\* correctionLoopCount never counts a correction that was not entered; in a run that was
\* started once it is exact and within the budget, although completeStep writes a value
\* that it read before its claim.
THEOREM LoopsAccounted ==
  Spec => []LoopAccounting
<1>1. Inv => LoopAccounting
  BY InvImplies
<1> QED
  BY Invariance, <1>1, PTL

\* Every release execution rests on a human approval of a gate behind a
\* verification that succeeded, behind a verdict other than C and D.
THEOREM ReleasesHaveLineage ==
  Spec => []ReleaseLineage
<1>1. Inv => ReleaseLineage
  BY InvImplies
<1> QED
  BY Invariance, <1>1, PTL

\* No call ever rewrites a step that is terminal.
THEOREM TerminalStepsFinal ==
  Spec => StepsFinal
<1>1. Inv /\ [Next]_vars =>
        [\A s \in Existing : steps[s].status \in TerminalStep => steps'[s] = steps[s]]_vars
  BY NextInv DEF Evolves
<1> QED
  BY Invariance, <1>1, PTL DEF Spec, StepsFinal

\* A cancelled run is signalled to its executions, is about to be, or the
\* process restarted (cancelRun's in-memory tombstone).
THEOREM CancellationSignalled ==
  Spec => []CancelSignalled
<1>1. Init => CancelSignalled
  BY DEF Init, CancelSignalled
<1>2. Inv /\ [Next]_vars /\ CancelSignalled => CancelSignalled'
  BY SignalStep
<1> QED
  BY Invariance, <1>1, <1>2, PTL DEF Spec
=============================================================================
