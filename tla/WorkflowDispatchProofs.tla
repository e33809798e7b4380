------------------------ MODULE WorkflowDispatchProofs ------------------------
(***************************************************************************)
(* Proofs about WorkflowDispatch, for any number of workers, steps,        *)
(* providers, approvals and faults: no work is executed twice, a step      *)
(* succeeds only on a success of the provider its metadata names, an AL4   *)
(* verdict rests on two independent reviews, what is verified is the       *)
(* change that was tested and reviewed, and claims and records are those   *)
(* of SingleUse.                                                           *)
(***************************************************************************)
EXTENDS WorkflowDispatch, FiniteSetTheorems, SequenceTheorems, TLAPS

WorkShape(w) ==
  w = [mode |-> w.mode, pc |-> w.pc, step |-> w.step, approval |-> w.approval, provider |-> w.provider,
       status |-> w.status, output |-> w.output, reviews |-> w.reviews, budget |-> w.budget]

CallShape(o) ==
  o = [call |-> o.call, step |-> o.step, input |-> o.input, loops |-> o.loops, stepType |-> o.stepType,
       reason |-> o.reason, stale |-> o.stale]

RowShape(x) ==
  x = [stepType |-> x.stepType, status |-> x.status, causationId |-> x.causationId, metadata |-> x.metadata]

DispatchRows ==
  /\ created \in Nat /\ created \leq MaxSteps
  /\ steps = [s \in StepId |-> steps[s]]
  /\ \A s \in StepId : RowShape(steps[s])

DispatchTypes ==
  /\ DispatchRows
  /\ d = [c \in Callers |-> d[c]] /\ op = [c \in Callers |-> op[c]]
  /\ \A c \in Callers : WorkShape(d[c]) /\ CallShape(op[c])
  /\ consumed \in Seq(Nat)
  /\ lineage = [s \in StepId |-> lineage[s]]

\* The call is in completeStep.
Completing(c) == op[c].call \in {"completeTx", "completeClaim"}

Dispatching == {"route", "consume", "claim", "execute", "result"}

\* An approval was consumed for the step.
ConsumedFor(s) == \E a \in DOMAIN consumed : consumed[a] = s

RecordOf(c) == [step |-> d[c].step, provider |-> d[c].provider, status |-> "SUCCEEDED"]

\* What a worker has done, by how far it is: it knows its step and its approval;
\* a build that is about to be claimed has its approval and no claim; an
\* execution has its claim and no record; a success has its record; and what is
\* reported is what the execution came to.
WorkInv(c) ==
  /\ d[c].pc = "read" => d[c].approval = 0
  /\ d[c].pc = "consume" => d[c].approval # 0
  /\ d[c].pc \in Dispatching =>
       /\ d[c].mode \in {"step", "al4"} /\ d[c].step \in Existing
       /\ d[c].approval # 0 <=> NeedsApproval(d[c].step)
       /\ d[c].approval # 0 => d[c].approval \in DOMAIN consumed
       /\ d[c].mode = "al4" => TypeOf(c) = "RED_TEAM"
  /\ d[c].pc = "claim" /\ NeedsApproval(d[c].step) =>
       ConsumedFor(d[c].step) /\ \A x \in claims : x[1] # d[c].step
  /\ d[c].pc = "execute" =>
       /\ OperationKey(c) \in claims
       /\ \A x \in ledger : <<x.step, Alias[x.provider]>> # OperationKey(c)
  /\ d[c].pc = "result" /\ d[c].status = "SUCCEEDED" => RecordOf(c) \in ledger
  /\ Completing(c) =>
       /\ d[c].pc = "report" /\ d[c].mode \in {"step", "al4", "verdict"}
       /\ op[c].step = d[c].step /\ d[c].step \in Existing
       /\ d[c].mode = "step" => op[c].input = completionOf(TypeOf(c), d[c].status, d[c].output)
       /\ d[c].mode = "al4" => d[c].status = "SUCCEEDED" /\ TypeOf(c) = "RED_TEAM"
       /\ d[c].mode = "verdict" => TypeOf(c) = "PARSE_VERDICT"
       /\ d[c].mode # "verdict" /\ d[c].status = "SUCCEEDED" => RecordOf(c) \in ledger

\* Two workers never build the same step, nor execute the same operation.
Apart(c, e) ==
  /\ d[c].pc = "claim" /\ d[e].pc = "claim" /\ NeedsApproval(d[c].step) => d[c].step # d[e].step
  /\ d[c].pc = "execute" /\ d[e].pc = "execute" => OperationKey(c) # OperationKey(e)

ClaimsInv ==
  \A x \in claims :
    /\ x = <<x[1], x[2]>> /\ x[1] \in Existing
    /\ NeedsApproval(x[1]) => ConsumedFor(x[1])

LedgerInv == \A x \in ledger : <<x.step, Alias[x.provider]>> \in claims

DispatchInv ==
  /\ DispatchTypes
  /\ ClaimsInv /\ LedgerInv
  /\ BuiltOnce /\ CommandOnce
  /\ SuccessIsItsProviders
  /\ \A c \in Callers : WorkInv(c)
  /\ \A c, e \in Callers : c # e => Apart(c, e)

-----------------------------------------------------------------------------
(* The rows of the run.                                                    *)

\* Steps stay, and keep their type.
RowsKept ==
  /\ DispatchRows'
  /\ created \leq created'
  /\ \A s \in Existing : steps'[s].stepType = steps[s].stepType

\* The steps that succeeded had done so before.
NoSuccess ==
  \A s \in Existing' : steps'[s].status = "SUCCEEDED" => s \in Existing /\ steps[s].status = "SUCCEEDED"

\* A call is in completeStep only if it was, with the same report.
NoReport(c) ==
  Completing(c)' => Completing(c) /\ op'[c].step = op[c].step /\ op'[c].input = op[c].input

\* The rows that exist are rows of the table, each of its shape.
LEMMA ExistingRows ==
  ASSUME DispatchInv
  PROVE  /\ MaxSteps \in Nat /\ created \in Nat /\ created \leq MaxSteps /\ Existing \subseteq StepId
         /\ steps = [s \in StepId |-> steps[s]] /\ \A s \in StepId : RowShape(steps[s])
BY ConstantsAssumption DEF DispatchInv, DispatchTypes, DispatchRows, Existing, StepId

\* An untouched table keeps its rows.
LEMMA RowsUnchanged ==
  ASSUME DispatchInv, UNCHANGED <<steps, created>>
  PROVE  RowsKept /\ NoSuccess /\ Existing' = Existing
BY DEF DispatchInv, DispatchTypes, DispatchRows, RowsKept, NoSuccess, Existing, RowShape

\* A step inserted after rows that keep type and shape.
LEMMA RowInserted ==
  ASSUME DispatchInv, NEW c \in Callers, NEW rows, NEW t, NEW cause, CommitWithStep(c, rows, t, cause),
         rows = [s \in StepId |-> rows[s]],
         \A s \in StepId : RowShape(rows[s]) /\ rows[s].stepType = steps[s].stepType
  PROVE  /\ RowsKept
         /\ \A s \in Existing' : steps'[s].status = "SUCCEEDED" => s \in Existing /\ rows[s].status = "SUCCEEDED"
<1>1. MaxSteps \in Nat /\ created \in Nat /\ Existing \subseteq StepId
  BY ExistingRows
<1>2. created < MaxSteps /\ created' = created + 1 /\ steps' = [rows EXCEPT ![created + 1] = ReadyStep(t, cause)]
  BY DEF CommitWithStep
<1>3. created + 1 \in StepId /\ created + 1 \notin Existing /\ Existing' = Existing \cup {created + 1}
  BY <1>1, <1>2 DEF StepId, Existing
<1>4. /\ steps' = [s \in StepId |-> steps'[s]] /\ steps'[created + 1] = ReadyStep(t, cause)
      /\ \A s \in StepId : s # created + 1 => steps'[s] = rows[s]
  BY <1>2, <1>3
<1>5. RowShape(ReadyStep(t, cause)) /\ ReadyStep(t, cause).status = "READY"
  BY DEF RowShape, ReadyStep
<1>6. \A s \in StepId : RowShape(steps'[s])
  BY <1>4, <1>5
<1>7. DispatchRows'
  BY <1>1, <1>2, <1>4, <1>6 DEF DispatchRows, StepId, RowShape
<1> QED
  BY <1>1, <1>2, <1>3, <1>4, <1>5, <1>7 DEF RowsKept

\* Rows rewritten in place, with their type and shape.
LEMMA RowsRewritten ==
  ASSUME DispatchInv, UNCHANGED created, steps' = [s \in StepId |-> steps'[s]],
         \A s \in StepId : RowShape(steps'[s]) /\ steps'[s].stepType = steps[s].stepType
  PROVE  RowsKept /\ Existing' = Existing
<1>1. MaxSteps \in Nat /\ created \in Nat /\ created \leq MaxSteps /\ Existing \subseteq StepId
  BY ExistingRows
<1>2. DispatchRows'
  BY <1>1 DEF DispatchRows, StepId, RowShape
<1> QED
  BY <1>1, <1>2 DEF RowsKept, Existing

\* A row with another status.
LEMMA StatusFacts ==
  ASSUME NEW x, RowShape(x), NEW status, NEW y, y = [x EXCEPT !.status = status]
  PROVE  RowShape(y) /\ y.stepType = x.stepType /\ y.status = status /\ y.causationId = x.causationId
BY DEF RowShape

\* No operation of the run but completeStep makes a step succeed, and none enters
\* completeStep.
LEMMA RunStepRows ==
  ASSUME DispatchInv, NEW c \in Callers, RunStep(c)
  PROVE  /\ RowsKept /\ NoSuccess
         /\ op' = [e \in Callers |-> op'[e]] /\ \A e \in Callers : CallShape(op'[e]) /\ NoReport(e)
<1>1. op = [e \in Callers |-> op[e]] /\ \A e \in Callers : CallShape(op[e])
  BY DEF DispatchInv, DispatchTypes
<1>2. /\ MaxSteps \in Nat /\ created \in Nat /\ created \leq MaxSteps /\ Existing \subseteq StepId
      /\ steps = [s \in StepId |-> steps[s]] /\ \A s \in StepId : RowShape(steps[s])
  BY ExistingRows
<1>3. CallShape(Idle) /\ Idle.call = "idle"
  BY DEF CallShape, Idle
<1>4. ASSUME NEW o, op' = [op EXCEPT ![c] = o], CallShape(o),
             \/ o.call \notin {"completeTx", "completeClaim"}
             \/ Completing(c) /\ o.step = op[c].step /\ o.input = op[c].input
      PROVE  op' = [e \in Callers |-> op'[e]] /\ \A e \in Callers : CallShape(op'[e]) /\ NoReport(e)
  <2>1. op'[c] = o /\ op' = [e \in Callers |-> op'[e]] /\ \A e \in Callers : e # c => op'[e] = op[e]
    BY <1>1, <1>4
  <2> QED
    BY <1>1, <1>4, <2>1 DEF NoReport, Completing
<1>5. CASE CompleteFreshRead(c)
  <2>1. UNCHANGED <<steps, created>>
    BY <1>5 DEF CompleteFreshRead, Proceed, Return
  <2>2. CASE Return(c)
    BY <1>3, <1>4, <2>1, <2>2, RowsUnchanged DEF Return, Proceed
  <2>3. CASE ~Return(c)
    <3>1. PICK o : o = [op[c] EXCEPT !.call = "completeClaim", !.loops = run.correctionLoopCount]
      OBVIOUS
    <3>2. o = [call |-> "completeClaim", step |-> op[c].step, input |-> op[c].input,
               loops |-> run.correctionLoopCount, stepType |-> op[c].stepType, reason |-> op[c].reason,
               stale |-> op[c].stale]
      <4>1. PICK u : u = [op[c] EXCEPT !.call = "completeClaim"]
        OBVIOUS
      <4>2. u = [call |-> "completeClaim", step |-> op[c].step, input |-> op[c].input,
                 loops |-> op[c].loops, stepType |-> op[c].stepType, reason |-> op[c].reason,
                 stale |-> op[c].stale]
        BY <1>1, <4>1 DEF CallShape
      <4>3. o = [u EXCEPT !.loops = run.correctionLoopCount]
        BY <3>1, <4>1
      <4> QED
        BY <4>2, <4>3
    <3>3. CallShape(o) /\ o.step = op[c].step /\ o.input = op[c].input
      BY <3>2 DEF CallShape
    <3>4. op' = [op EXCEPT ![c] = o] /\ Completing(c)
      BY <1>5, <2>3, <3>1 DEF CompleteFreshRead, Proceed, Completing
    <3> QED
      BY <1>4, <2>1, <3>3, <3>4, RowsUnchanged
  <2> QED
    BY <2>2, <2>3
<1>6. CASE CompleteClaimLost(c) \/ Abort(c)
  BY <1>3, <1>4, <1>6, RowsUnchanged DEF CompleteClaimLost, Abort, Return, Proceed
<1>7. CASE CancelRead(c) \/ CancelClaimLost(c) \/ CancelSignal(c) \/ ResumeRead(c) \/ CorrectionRead(c)
  <2>1. UNCHANGED <<steps, created>>
    BY <1>7 DEF CancelRead, CancelClaimLost, CancelSignal, ResumeRead, CorrectionRead, Proceed
  <2>2. PICK o : /\ op' = [op EXCEPT ![c] = o]
                 /\ CallShape(o) /\ o.call \notin {"completeTx", "completeClaim"}
    <3>1. CASE CancelRead(c)
      <4>1. CallShape([Idle EXCEPT !.call = "cancel"]) /\ [Idle EXCEPT !.call = "cancel"].call = "cancel"
        BY DEF CallShape, Idle
      <4> QED
        BY <3>1, <4>1 DEF CancelRead, Proceed
    <3>2. CASE CancelClaimLost(c) \/ CancelSignal(c)
      <4>1. CallShape(SignalPending) /\ SignalPending.call = "cancelSignal"
        BY DEF CallShape, Idle, SignalPending
      <4> QED
        BY <1>3, <3>2, <4>1 DEF CancelClaimLost, CancelSignal, Proceed
    <3>3. CASE ResumeRead(c)
      <4>1. PICK o : o = [Idle EXCEPT !.call = "resume", !.stepType = run.currentStepType, !.reason = run.blockReasonCode]
        OBVIOUS
      <4>2. o = [call |-> "resume", step |-> 0, input |-> NoInput, loops |-> 0,
                 stepType |-> run.currentStepType, reason |-> run.blockReasonCode, stale |-> {}]
        BY <4>1 DEF Idle
      <4>3. CallShape(o) /\ o.call = "resume"
        BY <4>2 DEF CallShape
      <4> QED
        BY <3>3, <4>1, <4>3 DEF ResumeRead, Proceed
    <3>4. CASE CorrectionRead(c)
      <4>1. PICK o : o = [Idle EXCEPT !.call = "correction", !.step = Latest(Succeeded("PARSE_VERDICT")),
                                      !.loops = run.correctionLoopCount]
        OBVIOUS
      <4>2. o = [call |-> "correction", step |-> Latest(Succeeded("PARSE_VERDICT")), input |-> NoInput,
                 loops |-> run.correctionLoopCount, stepType |-> NONE, reason |-> NONE, stale |-> {}]
        BY <4>1 DEF Idle
      <4>3. CallShape(o) /\ o.call = "correction"
        BY <4>2 DEF CallShape
      <4> QED
        BY <3>4, <4>1, <4>3 DEF CorrectionRead, Proceed
    <3> QED
      BY <1>7, <3>1, <3>2, <3>3, <3>4
  <2> QED
    BY <1>4, <2>1, <2>2, RowsUnchanged
<1>8. CASE CancelCommit(c)
  <2>1. CallShape(SignalPending) /\ SignalPending.call = "cancelSignal"
    BY DEF CallShape, Idle, SignalPending
  <2>2. /\ steps' = [s \in StepId |-> steps'[s]] /\ UNCHANGED created
        /\ \A s \in StepId : steps'[s] = steps[s] \/ steps'[s] = [steps[s] EXCEPT !.status = "CANCELLED"]
    BY <1>8 DEF CancelCommit, Cancelled
  <2>3. ASSUME NEW s \in StepId
        PROVE  /\ RowShape(steps'[s]) /\ steps'[s].stepType = steps[s].stepType
               /\ steps'[s].status \in {steps[s].status, "CANCELLED"}
    <3>1. CASE steps'[s] = steps[s]
      BY <1>2, <3>1
    <3>2. CASE steps'[s] = [steps[s] EXCEPT !.status = "CANCELLED"]
      BY <1>2, <3>2, StatusFacts
    <3> QED
      BY <2>2, <3>1, <3>2
  <2>4. RowsKept /\ NoSuccess
    BY <1>2, <2>2, <2>3, RowsRewritten DEF NoSuccess
  <2> QED
    BY <1>4, <1>8, <2>1, <2>4 DEF CancelCommit
<1>9. CASE ResumeCommit(c)
  <2>1. /\ steps' = [s \in StepId |-> steps'[s]] /\ UNCHANGED created
        /\ \A s \in StepId : steps'[s] = steps[s] \/ steps'[s] = [steps[s] EXCEPT !.status = "READY"]
    BY <1>9 DEF ResumeCommit
  <2>2. ASSUME NEW s \in StepId
        PROVE  /\ RowShape(steps'[s]) /\ steps'[s].stepType = steps[s].stepType
               /\ steps'[s].status \in {steps[s].status, "READY"}
    <3>1. CASE steps'[s] = steps[s]
      BY <1>2, <3>1
    <3>2. CASE steps'[s] = [steps[s] EXCEPT !.status = "READY"]
      BY <1>2, <3>2, StatusFacts
    <3> QED
      BY <2>1, <3>1, <3>2
  <2>3. RowsKept /\ NoSuccess
    BY <1>2, <2>1, <2>2, RowsRewritten DEF NoSuccess
  <2> QED
    BY <1>3, <1>4, <1>9, <2>3 DEF ResumeCommit, Commit
<1>10. CASE CorrectionCommit(c)
  <2>1. CommitWithStep(c, steps, "CORRECTION", op[c].step)
    BY <1>10 DEF CorrectionCommit
  <2>2. RowsKept /\ NoSuccess
    BY <1>2, <2>1, RowInserted DEF NoSuccess
  <2> QED
    BY <1>3, <1>4, <2>1, <2>2 DEF CommitWithStep, Commit
<1> QED
  BY <1>5, <1>6, <1>7, <1>8, <1>9, <1>10 DEF RunStep

-----------------------------------------------------------------------------
(* The other workers.                                                      *)

\* Approvals are added, and a consumed one stays consumed for its step.
ConsumedKept == \A a \in DOMAIN consumed : a \in DOMAIN consumed' /\ (consumed[a] # 0 => consumed'[a] = consumed[a])

\* What rows and approvals keep: which steps need an approval, and which have one.
LEMMA KeptFacts ==
  ASSUME DispatchInv, RowsKept, ConsumedKept
  PROVE  /\ Existing \subseteq Existing'
         /\ \A s \in Existing : NeedsApproval(s)' <=> NeedsApproval(s)
         /\ \A s \in Existing : ConsumedFor(s) => ConsumedFor(s)'
<1>1. created \in Nat /\ created' \in Nat /\ created \leq created'
  BY DEF DispatchInv, DispatchTypes, DispatchRows, RowsKept
<1>2. Existing \subseteq Existing' /\ \A s \in Existing : s # 0
  BY <1>1 DEF Existing
<1>3. \A s \in Existing : NeedsApproval(s)' <=> NeedsApproval(s)
  BY DEF NeedsApproval, RowsKept
<1>4. \A s \in Existing : ConsumedFor(s) => ConsumedFor(s)'
  BY <1>2 DEF ConsumedFor, ConsumedKept
<1> QED
  BY <1>2, <1>3, <1>4

\* What a worker knows survives the steps of others.
LEMMA WorkKept ==
  ASSUME DispatchInv, RowsKept, ConsumedKept, claims \subseteq claims', ledger \subseteq ledger',
         NEW e \in Callers, d'[e] = d[e], NoReport(e),
         \A x \in claims' \ claims : d[e].pc = "claim" /\ NeedsApproval(d[e].step) => x[1] # d[e].step,
         \A x \in ledger' \ ledger : d[e].pc = "execute" => <<x.step, Alias[x.provider]>> # OperationKey(e)
  PROVE  WorkInv(e)'
<1>1. WorkInv(e)
  BY DEF DispatchInv
<1>2. /\ Existing \subseteq Existing'
      /\ \A s \in Existing : NeedsApproval(s)' <=> NeedsApproval(s)
      /\ \A s \in Existing : ConsumedFor(s) => ConsumedFor(s)'
      /\ \A s \in Existing : steps'[s].stepType = steps[s].stepType
  BY KeptFacts DEF RowsKept
<1>3. OperationKey(e)' = OperationKey(e) /\ RecordOf(e)' = RecordOf(e)
  BY DEF OperationKey, RecordOf
<1>4. d[e].pc \in Dispatching \/ Completing(e) => d[e].step \in Existing /\ TypeOf(e)' = TypeOf(e)
  BY <1>1, <1>2 DEF WorkInv, TypeOf
<1>5. (d[e].pc \in Dispatching =>
         /\ d[e].mode \in {"step", "al4"} /\ d[e].step \in Existing
         /\ d[e].approval # 0 <=> NeedsApproval(d[e].step)
         /\ d[e].approval # 0 => d[e].approval \in DOMAIN consumed
         /\ d[e].mode = "al4" => TypeOf(e) = "RED_TEAM")'
  BY <1>1, <1>2, <1>4 DEF WorkInv, ConsumedKept
<1>6. (d[e].pc = "claim" /\ NeedsApproval(d[e].step) =>
         ConsumedFor(d[e].step) /\ \A x \in claims : x[1] # d[e].step)'
  BY <1>1, <1>2, <1>4 DEF WorkInv, Dispatching
<1>7. (d[e].pc = "execute" =>
         /\ OperationKey(e) \in claims
         /\ \A x \in ledger : <<x.step, Alias[x.provider]>> # OperationKey(e))'
  BY <1>1, <1>3 DEF WorkInv
<1>8. (d[e].pc = "result" /\ d[e].status = "SUCCEEDED" => RecordOf(e) \in ledger)'
  BY <1>1, <1>3 DEF WorkInv
<1>9. (Completing(e) =>
       /\ d[e].pc = "report" /\ d[e].mode \in {"step", "al4", "verdict"}
       /\ op[e].step = d[e].step /\ d[e].step \in Existing
       /\ d[e].mode = "step" => op[e].input = completionOf(TypeOf(e), d[e].status, d[e].output)
       /\ d[e].mode = "al4" => d[e].status = "SUCCEEDED" /\ TypeOf(e) = "RED_TEAM"
       /\ d[e].mode = "verdict" => TypeOf(e) = "PARSE_VERDICT"
       /\ d[e].mode # "verdict" /\ d[e].status = "SUCCEEDED" => RecordOf(e) \in ledger)'
  <2>1. CASE Completing(e)'
    <3>1. Completing(e) /\ op'[e].step = op[e].step /\ op'[e].input = op[e].input
      BY <2>1 DEF NoReport
    <3> QED
      BY <1>1, <1>2, <1>3, <1>4, <3>1 DEF WorkInv
  <2>2. CASE ~Completing(e)'
    BY <2>2
  <2> QED
    BY <2>1, <2>2
<1>10. ((d[e].pc = "read" => d[e].approval = 0) /\ (d[e].pc = "consume" => d[e].approval # 0))'
  BY <1>1 DEF WorkInv
<1> QED
  BY <1>5, <1>6, <1>7, <1>8, <1>9, <1>10 DEF WorkInv

\* One step of one worker.
LEMMA DispatchStep ==
  ASSUME DispatchInv, NEW c \in Callers, NEW w, Work(c, w), WorkShape(w), RowsKept, ConsumedKept,
         op' = [e \in Callers |-> op'[e]], \A e \in Callers : CallShape(op'[e]) /\ (e # c => NoReport(e)),
         consumed' \in Seq(Nat), lineage' = [s \in StepId |-> lineage'[s]],
         claims \subseteq claims', ledger \subseteq ledger',
         \A x \in claims' \ claims : d[c].pc = "claim" /\ x = OperationKey(c),
         \A x \in ledger' \ ledger : d[c].pc = "execute" /\ <<x.step, Alias[x.provider]>> = OperationKey(c),
         ClaimsInv', LedgerInv', BuiltOnce', CommandOnce', SuccessIsItsProviders', WorkInv(c)',
         \A e \in Callers : e # c => Apart(c, e)'
  PROVE  DispatchInv'
<1>1. /\ d' = [e \in Callers |-> d'[e]] /\ d'[c] = w
      /\ \A e \in Callers : e # c => d'[e] = d[e]
  BY DEF DispatchInv, DispatchTypes, Work
<1>2. DispatchTypes'
  <2>1. \A e \in Callers : WorkShape(d'[e])
    BY <1>1 DEF DispatchInv, DispatchTypes
  <2> QED
    BY <1>1, <2>1 DEF DispatchTypes, RowsKept
<1>3. ASSUME NEW e \in Callers, e # c PROVE WorkInv(e)'
  <2>1. d'[e] = d[e] /\ NoReport(e) /\ Apart(e, c) /\ Apart(c, e)
    BY <1>1, <1>3 DEF DispatchInv
  <2>2. ASSUME NEW x \in claims' \ claims, d[e].pc = "claim", NeedsApproval(d[e].step) PROVE x[1] # d[e].step
    <3>1. d[c].pc = "claim" /\ x = OperationKey(c)
      BY <2>2
    <3>2. d[e].step # d[c].step
      BY <2>1, <2>2, <3>1 DEF Apart
    <3> QED
      BY <3>1, <3>2 DEF OperationKey
  <2>3. ASSUME NEW x \in ledger' \ ledger, d[e].pc = "execute"
        PROVE  <<x.step, Alias[x.provider]>> # OperationKey(e)
    <3>1. d[c].pc = "execute" /\ <<x.step, Alias[x.provider]>> = OperationKey(c)
      BY <2>3
    <3>2. OperationKey(e) # OperationKey(c)
      BY <2>1, <2>3, <3>1 DEF Apart
    <3> QED
      BY <3>1, <3>2
  <2> QED
    BY <2>1, <2>2, <2>3, WorkKept
<1>4. ASSUME NEW e \in Callers, NEW f \in Callers, e # f PROVE Apart(e, f)'
  <2>1. CASE e = c
    BY <1>4, <2>1
  <2>2. CASE f = c
    <3>1. Apart(c, e)'
      BY <1>4, <2>2
    <3>2. \A s \in Existing : NeedsApproval(s)' <=> NeedsApproval(s)
      BY KeptFacts
    <3> QED
      BY <2>2, <3>1 DEF Apart
  <2>3. CASE e # c /\ f # c
    <3>1. d'[e] = d[e] /\ d'[f] = d[f] /\ Apart(e, f) /\ WorkInv(e)
      BY <1>1, <1>4, <2>3 DEF DispatchInv
    <3>2. d[e].pc = "claim" => (NeedsApproval(d[e].step)' <=> NeedsApproval(d[e].step))
      BY <3>1, KeptFacts DEF WorkInv, Dispatching, NeedsApproval, RowsKept
    <3> QED
      BY <3>1, <3>2 DEF Apart, OperationKey
  <2> QED
    BY <2>1, <2>2, <2>3
<1> QED
  BY <1>2, <1>3, <1>4 DEF DispatchInv

\* Where only the rows of the run change, claims, records and approvals still fit.
LEMMA TablesSame ==
  ASSUME DispatchInv, RowsKept, NoSuccess, UNCHANGED <<consumed, claims, ledger, lineage>>
  PROVE  /\ ConsumedKept /\ consumed' \in Seq(Nat) /\ lineage' = [s \in StepId |-> lineage'[s]]
         /\ ClaimsInv' /\ LedgerInv' /\ BuiltOnce' /\ CommandOnce' /\ SuccessIsItsProviders'
<1>1. ConsumedKept /\ consumed' \in Seq(Nat) /\ lineage' = [s \in StepId |-> lineage'[s]]
  BY DEF ConsumedKept, DispatchInv, DispatchTypes
<1>2. /\ Existing \subseteq Existing'
      /\ \A s \in Existing : NeedsApproval(s)' <=> NeedsApproval(s)
      /\ \A s \in Existing : ConsumedFor(s) => ConsumedFor(s)'
      /\ \A s \in Existing : steps'[s].stepType = steps[s].stepType
  BY <1>1, KeptFacts DEF RowsKept
<1>3. ClaimsInv' /\ LedgerInv' /\ CommandOnce'
  BY <1>2 DEF DispatchInv, ClaimsInv, LedgerInv, CommandOnce
<1>4. BuiltOnce'
  BY <1>2 DEF DispatchInv, ClaimsInv, BuiltOnce
<1>5. SuccessIsItsProviders'
  BY <1>2 DEF DispatchInv, SuccessIsItsProviders, NoSuccess
<1> QED
  BY <1>1, <1>3, <1>4, <1>5

\* A step that moves one worker and nothing else.
LEMMA QuietStep ==
  ASSUME DispatchInv, NEW c \in Callers, NEW w, Work(c, w), WorkShape(w),
         UNCHANGED <<steps, created, consumed, claims, ledger, lineage>>,
         op' = [e \in Callers |-> op'[e]], \A e \in Callers : CallShape(op'[e]) /\ (e # c => NoReport(e)),
         w.pc # "execute", w.pc = "claim" => ~NeedsApproval(w.step), WorkInv(c)'
  PROVE  DispatchInv'
<1>1. RowsKept /\ NoSuccess
  BY RowsUnchanged
<1>2. /\ ConsumedKept /\ consumed' \in Seq(Nat) /\ lineage' = [s \in StepId |-> lineage'[s]]
      /\ ClaimsInv' /\ LedgerInv' /\ BuiltOnce' /\ CommandOnce' /\ SuccessIsItsProviders'
  BY <1>1, TablesSame
<1>3. d'[c] = w
  BY DEF DispatchInv, DispatchTypes, Work
<1>4. \A e \in Callers : e # c => Apart(c, e)'
  BY <1>3 DEF Apart, NeedsApproval
<1> QED
  BY <1>1, <1>2, <1>4, DispatchStep

-----------------------------------------------------------------------------
(* The steps of a worker, one field of its state after the other.          *)

\* What an update of a worker leaves of its other fields.
LEMMA SetPc ==
  ASSUME NEW x, WorkShape(x), NEW v, NEW y, y = [x EXCEPT !.pc = v]
  PROVE  y = [mode |-> x.mode, pc |-> v, step |-> x.step, approval |-> x.approval, provider |-> x.provider,
              status |-> x.status, output |-> x.output, reviews |-> x.reviews, budget |-> x.budget]
BY DEF WorkShape

LEMMA SetTaken ==
  ASSUME NEW x, WorkShape(x), NEW v, NEW u, NEW t, NEW y, y = [x EXCEPT !.pc = v, !.step = u, !.approval = t]
  PROVE  y = [mode |-> x.mode, pc |-> v, step |-> u, approval |-> t, provider |-> x.provider,
              status |-> x.status, output |-> x.output, reviews |-> x.reviews, budget |-> x.budget]
<1>1. PICK z : z = [x EXCEPT !.pc = v]
  OBVIOUS
<1>2. z = [mode |-> x.mode, pc |-> v, step |-> x.step, approval |-> x.approval, provider |-> x.provider,
           status |-> x.status, output |-> x.output, reviews |-> x.reviews, budget |-> x.budget]
  BY <1>1, SetPc
<1>3. y = [z EXCEPT !.step = u, !.approval = t]
  BY <1>1
<1> QED
  BY <1>2, <1>3

LEMMA SetStep ==
  ASSUME NEW x, WorkShape(x), NEW v, NEW u, NEW y, y = [x EXCEPT !.pc = v, !.step = u]
  PROVE  y = [mode |-> x.mode, pc |-> v, step |-> u, approval |-> x.approval, provider |-> x.provider,
              status |-> x.status, output |-> x.output, reviews |-> x.reviews, budget |-> x.budget]
<1>1. PICK z : z = [x EXCEPT !.pc = v]
  OBVIOUS
<1>2. z = [mode |-> x.mode, pc |-> v, step |-> x.step, approval |-> x.approval, provider |-> x.provider,
           status |-> x.status, output |-> x.output, reviews |-> x.reviews, budget |-> x.budget]
  BY <1>1, SetPc
<1>3. y = [z EXCEPT !.step = u]
  BY <1>1
<1> QED
  BY <1>2, <1>3

LEMMA SetProvider ==
  ASSUME NEW x, WorkShape(x), NEW v, NEW u, NEW y, y = [x EXCEPT !.pc = v, !.provider = u]
  PROVE  y = [mode |-> x.mode, pc |-> v, step |-> x.step, approval |-> x.approval, provider |-> u,
              status |-> x.status, output |-> x.output, reviews |-> x.reviews, budget |-> x.budget]
<1>1. PICK z : z = [x EXCEPT !.pc = v]
  OBVIOUS
<1>2. z = [mode |-> x.mode, pc |-> v, step |-> x.step, approval |-> x.approval, provider |-> x.provider,
           status |-> x.status, output |-> x.output, reviews |-> x.reviews, budget |-> x.budget]
  BY <1>1, SetPc
<1>3. y = [z EXCEPT !.provider = u]
  BY <1>1
<1> QED
  BY <1>2, <1>3

LEMMA SetStatus ==
  ASSUME NEW x, WorkShape(x), NEW v, NEW u, NEW y, y = [x EXCEPT !.pc = v, !.status = u]
  PROVE  y = [mode |-> x.mode, pc |-> v, step |-> x.step, approval |-> x.approval, provider |-> x.provider,
              status |-> u, output |-> x.output, reviews |-> x.reviews, budget |-> x.budget]
<1>1. PICK z : z = [x EXCEPT !.pc = v]
  OBVIOUS
<1>2. z = [mode |-> x.mode, pc |-> v, step |-> x.step, approval |-> x.approval, provider |-> x.provider,
           status |-> x.status, output |-> x.output, reviews |-> x.reviews, budget |-> x.budget]
  BY <1>1, SetPc
<1>3. y = [z EXCEPT !.status = u]
  BY <1>1
<1> QED
  BY <1>2, <1>3

LEMMA SetResult ==
  ASSUME NEW x, WorkShape(x), NEW v, NEW u, NEW t, NEW y, y = [x EXCEPT !.pc = v, !.status = u, !.output = t]
  PROVE  y = [mode |-> x.mode, pc |-> v, step |-> x.step, approval |-> x.approval, provider |-> x.provider,
              status |-> u, output |-> t, reviews |-> x.reviews, budget |-> x.budget]
<1>1. PICK z : z = [x EXCEPT !.pc = v, !.status = u]
  OBVIOUS
<1>2. z = [mode |-> x.mode, pc |-> v, step |-> x.step, approval |-> x.approval, provider |-> x.provider,
           status |-> u, output |-> x.output, reviews |-> x.reviews, budget |-> x.budget]
  BY <1>1, SetStatus
<1>3. y = [z EXCEPT !.output = t]
  BY <1>1
<1> QED
  BY <1>2, <1>3

LEMMA SetReviews ==
  ASSUME NEW x, WorkShape(x), NEW v, NEW u, NEW y, y = [x EXCEPT !.pc = v, !.reviews = u]
  PROVE  y = [mode |-> x.mode, pc |-> v, step |-> x.step, approval |-> x.approval, provider |-> x.provider,
              status |-> x.status, output |-> x.output, reviews |-> u, budget |-> x.budget]
<1>1. PICK z : z = [x EXCEPT !.pc = v]
  OBVIOUS
<1>2. z = [mode |-> x.mode, pc |-> v, step |-> x.step, approval |-> x.approval, provider |-> x.provider,
           status |-> x.status, output |-> x.output, reviews |-> x.reviews, budget |-> x.budget]
  BY <1>1, SetPc
<1>3. y = [z EXCEPT !.reviews = u]
  BY <1>1
<1> QED
  BY <1>2, <1>3

-----------------------------------------------------------------------------
(* One lemma per action.                                                   *)

\* A worker that makes no call of the runtime leaves all calls alone.
LEMMA CallsSame ==
  ASSUME DispatchInv, UNCHANGED op
  PROVE  op' = [e \in Callers |-> op'[e]] /\ \A e \in Callers : CallShape(op'[e]) /\ NoReport(e)
BY DEF DispatchInv, DispatchTypes, NoReport, Completing

\* A worker that is not reporting is not in completeStep.
LEMMA WorkFacts ==
  ASSUME DispatchInv, NEW c \in Callers
  PROVE  /\ WorkInv(c) /\ WorkShape(d[c]) /\ CallShape(op[c])
         /\ d[c].pc # "report" => ~Completing(c)
         /\ \A w : Work(c, w) => d'[c] = w
BY DEF DispatchInv, DispatchTypes, WorkInv, Work

LEMMA BeginKeeps ==
  ASSUME DispatchInv, NEW c \in Callers, NEW mode, NEW budget, Begin(c, mode, budget)
  PROVE  DispatchInv'
<1>1. PICK w : w = [NoWork EXCEPT !.mode = mode, !.pc = "read", !.budget = budget]
  OBVIOUS
<1>2. w = [mode |-> mode, pc |-> "read", step |-> 0, approval |-> 0, provider |-> NONE,
           status |-> NONE, output |-> NONE, reviews |-> <<>>, budget |-> budget]
  BY <1>1 DEF NoWork
<1>3. /\ Work(c, w) /\ UNCHANGED <<steps, created, consumed, claims, ledger, lineage, op>>
      /\ d[c] = NoWork
  BY <1>1 DEF Begin, vars
<1>4. d'[c] = w /\ ~Completing(c)'
  BY <1>3, WorkFacts DEF NoWork, Completing
<1>5. WorkInv(c)'
  BY <1>2, <1>4 DEF WorkInv, Dispatching
<1> QED
  BY <1>2, <1>3, <1>5, CallsSame, QuietStep DEF WorkShape

\* The only open approval is an open one (resolveForWorkflowDispatch).
LEMMA OneOpen ==
  ASSUME Cardinality(OpenApprovals) = 1
  PROVE  (CHOOSE a \in OpenApprovals : TRUE) \in OpenApprovals
BY FS_EmptySet

LEMMA ExecuteReadKeeps ==
  ASSUME DispatchInv, NEW c \in Callers, ExecuteRead(c)
  PROVE  DispatchInv'
<1>1. /\ d[c].mode = "step" /\ d[c].pc = "read"
      /\ UNCHANGED <<steps, created, consumed, claims, ledger, lineage, op>>
  BY DEF ExecuteRead, vars
<1>2. PICK s \in ReadyCurrent(AgentSteps) :
        /\ HasApproval(s)
        /\ Work(c, [d[c] EXCEPT !.pc = "route", !.step = s,
                      !.approval = IF NeedsApproval(s) THEN CHOOSE a \in OpenApprovals : TRUE ELSE 0])
  BY DEF ExecuteRead
<1>3. PICK a : a = IF NeedsApproval(s) THEN CHOOSE b \in OpenApprovals : TRUE ELSE 0
  OBVIOUS
<1>4. (a # 0 <=> NeedsApproval(s)) /\ (a # 0 => a \in DOMAIN consumed)
  <2>1. CASE NeedsApproval(s)
    <3>1. a \in OpenApprovals
      BY <1>2, <1>3, <2>1, OneOpen DEF HasApproval
    <3>2. consumed \in Seq(Nat)
      BY DEF DispatchInv, DispatchTypes
    <3>3. a \in DOMAIN consumed /\ a # 0
      BY <3>1, <3>2 DEF OpenApprovals
    <3> QED
      BY <2>1, <3>3
  <2>2. CASE ~NeedsApproval(s)
    BY <1>3, <2>2
  <2> QED
    BY <2>1, <2>2
<1>5. PICK w : w = [d[c] EXCEPT !.pc = "route", !.step = s, !.approval = a]
  OBVIOUS
<1>6. w = [mode |-> d[c].mode, pc |-> "route", step |-> s, approval |-> a, provider |-> d[c].provider,
           status |-> d[c].status, output |-> d[c].output, reviews |-> d[c].reviews, budget |-> d[c].budget]
  BY <1>5, WorkFacts, SetTaken
<1>7. Work(c, w)
  BY <1>2, <1>3, <1>5
<1>8. d'[c] = w /\ ~Completing(c)' /\ s \in Existing /\ UNCHANGED Existing
  BY <1>1, <1>2, <1>7, WorkFacts DEF Completing, ReadyCurrent, Existing
<1>9. WorkInv(c)'
  BY <1>1, <1>4, <1>6, <1>8 DEF WorkInv, Dispatching, NeedsApproval
<1> QED
  BY <1>1, <1>6, <1>7, <1>9, CallsSame, QuietStep DEF WorkShape

LEMMA CoordinateReadKeeps ==
  ASSUME DispatchInv, NEW c \in Callers, CoordinateRead(c)
  PROVE  DispatchInv'
<1>1. /\ d[c].mode = "al4" /\ d[c].pc = "read" /\ d[c].approval = 0
      /\ UNCHANGED <<steps, created, consumed, claims, ledger, lineage, op>>
  BY WorkFacts DEF CoordinateRead, vars, WorkInv
<1>2. PICK s \in ReadyCurrent({"RED_TEAM"}) : Work(c, [d[c] EXCEPT !.pc = "route", !.step = s])
  BY DEF CoordinateRead
<1>3. s \in Existing /\ steps[s].stepType = "RED_TEAM" /\ UNCHANGED Existing
  BY <1>1, <1>2 DEF ReadyCurrent, Existing
<1>4. ~NeedsApproval(s)
  BY <1>3 DEF NeedsApproval, capabilityForStep, EngineeringStepType
<1>5. PICK w : w = [d[c] EXCEPT !.pc = "route", !.step = s]
  OBVIOUS
<1>6. w = [mode |-> d[c].mode, pc |-> "route", step |-> s, approval |-> d[c].approval, provider |-> d[c].provider,
           status |-> d[c].status, output |-> d[c].output, reviews |-> d[c].reviews, budget |-> d[c].budget]
  BY <1>5, WorkFacts, SetStep
<1>7. Work(c, w)
  BY <1>2, <1>5
<1>8. d'[c] = w /\ ~Completing(c)'
  BY <1>1, <1>7, WorkFacts DEF Completing
<1>9. WorkInv(c)'
  BY <1>1, <1>3, <1>4, <1>6, <1>8 DEF WorkInv, Dispatching, NeedsApproval, TypeOf
<1> QED
  BY <1>1, <1>6, <1>7, <1>9, CallsSame, QuietStep DEF WorkShape

LEMMA RouteKeeps ==
  ASSUME DispatchInv, NEW c \in Callers, Route(c)
  PROVE  DispatchInv'
<1>1. d[c].pc = "route" /\ UNCHANGED <<steps, created, consumed, claims, ledger, lineage, op>>
  BY DEF Route, vars
<1>2. PICK p \in Providers :
        Work(c, [d[c] EXCEPT !.pc = IF d[c].approval # 0 THEN "consume" ELSE "claim", !.provider = p])
  BY DEF Route
<1>3. PICK pc : pc = IF d[c].approval # 0 THEN "consume" ELSE "claim"
  OBVIOUS
<1>4. PICK w : w = [d[c] EXCEPT !.pc = pc, !.provider = p]
  OBVIOUS
<1>5. w = [mode |-> d[c].mode, pc |-> pc, step |-> d[c].step, approval |-> d[c].approval, provider |-> p,
           status |-> d[c].status, output |-> d[c].output, reviews |-> d[c].reviews, budget |-> d[c].budget]
  BY <1>4, WorkFacts, SetProvider
<1>6. Work(c, w)
  BY <1>2, <1>3, <1>4
<1>7. d'[c] = w /\ ~Completing(c)' /\ UNCHANGED Existing
  BY <1>1, <1>6, WorkFacts DEF Completing, Existing
<1>8. pc \in {"consume", "claim"} /\ (pc = "claim" <=> d[c].approval = 0)
  BY <1>3
<1>9. /\ d[c].mode \in {"step", "al4"} /\ d[c].step \in Existing
      /\ d[c].approval # 0 <=> NeedsApproval(d[c].step)
      /\ d[c].approval # 0 => d[c].approval \in DOMAIN consumed
      /\ d[c].mode = "al4" => TypeOf(c) = "RED_TEAM"
  BY <1>1, WorkFacts DEF WorkInv, Dispatching
<1>10. WorkInv(c)'
  BY <1>1, <1>5, <1>7, <1>8, <1>9 DEF WorkInv, Dispatching, NeedsApproval, TypeOf
<1>11. w.pc # "execute" /\ (w.pc = "claim" => ~NeedsApproval(w.step))
  BY <1>5, <1>8, <1>9
<1> QED
  BY <1>1, <1>5, <1>6, <1>10, <1>11, CallsSame, QuietStep DEF WorkShape

LEMMA ConsumeKeeps ==
  ASSUME DispatchInv, NEW c \in Callers, Consume(c)
  PROVE  DispatchInv'
<1>1. /\ d[c].pc = "consume" /\ UNCHANGED <<steps, created, claims, ledger, lineage, op>>
      /\ Work(c, [d[c] EXCEPT !.pc = "claim"])
      /\ consumed' = [consumed EXCEPT ![d[c].approval] = d[c].step]
      /\ consumed[d[c].approval] = 0 /\ \A b \in DOMAIN consumed : consumed[b] # d[c].step
  BY DEF Consume, vars, consumable
<1>2. /\ d[c].mode \in {"step", "al4"} /\ d[c].step \in Existing /\ d[c].approval # 0
      /\ NeedsApproval(d[c].step) /\ d[c].approval \in DOMAIN consumed
      /\ d[c].mode = "al4" => TypeOf(c) = "RED_TEAM"
  BY <1>1, WorkFacts DEF WorkInv, Dispatching
<1>3. consumed \in Seq(Nat) /\ d[c].step \in Nat /\ d[c].step # 0 /\ d[c].step \in StepId
  BY <1>2, ExistingRows DEF DispatchInv, DispatchTypes, Existing, StepId
<1>4. /\ consumed' \in Seq(Nat) /\ DOMAIN consumed' = DOMAIN consumed
      /\ consumed'[d[c].approval] = d[c].step
      /\ \A a \in DOMAIN consumed : a # d[c].approval => consumed'[a] = consumed[a]
  BY <1>1, <1>2, <1>3
<1>5. RowsKept /\ NoSuccess /\ UNCHANGED Existing
  BY <1>1, RowsUnchanged
<1>6. ConsumedKept
  BY <1>1, <1>4 DEF ConsumedKept
<1>7. \A s \in Existing : (NeedsApproval(s)' <=> NeedsApproval(s)) /\ (ConsumedFor(s) => ConsumedFor(s)')
  BY <1>5, <1>6, KeptFacts
<1>8. \A x \in claims : x[1] # d[c].step
  BY <1>1, <1>2 DEF DispatchInv, ClaimsInv, ConsumedFor
<1>9. PICK w : w = [d[c] EXCEPT !.pc = "claim"]
  OBVIOUS
<1>10. w = [mode |-> d[c].mode, pc |-> "claim", step |-> d[c].step, approval |-> d[c].approval,
            provider |-> d[c].provider, status |-> d[c].status, output |-> d[c].output,
            reviews |-> d[c].reviews, budget |-> d[c].budget]
  BY <1>9, WorkFacts, SetPc
<1>11. Work(c, w) /\ d'[c] = w /\ ~Completing(c)'
  BY <1>1, <1>9, WorkFacts DEF Completing
<1>12. ConsumedFor(w.step)'
  BY <1>2, <1>4, <1>10 DEF ConsumedFor
<1>13. WorkInv(c)'
  BY <1>1, <1>2, <1>4, <1>5, <1>7, <1>8, <1>10, <1>11, <1>12 DEF WorkInv, Dispatching, TypeOf, ConsumedFor
<1>14. ASSUME NEW e \in Callers, e # c PROVE Apart(c, e)'
  <2>1. d'[e] = d[e]
    BY <1>11, <1>14 DEF Work, DispatchInv, DispatchTypes
  <2>2. d[e].pc = "claim" => d[e].step # d[c].step
    <3>1. WorkInv(e)
      BY DEF DispatchInv
    <3> QED
      BY <1>1, <1>2, <3>1 DEF WorkInv, ConsumedFor
  <2> QED
    BY <1>10, <1>11, <2>1, <2>2 DEF Apart
<1>15. ClaimsInv' /\ LedgerInv' /\ CommandOnce' /\ BuiltOnce'
  BY <1>1, <1>5, <1>7 DEF DispatchInv, ClaimsInv, LedgerInv, CommandOnce, BuiltOnce
<1>16. SuccessIsItsProviders'
  BY <1>1 DEF DispatchInv, SuccessIsItsProviders, Existing
<1>17. lineage' = [s \in StepId |-> lineage'[s]]
  BY <1>1 DEF DispatchInv, DispatchTypes
<1>18. op' = [e \in Callers |-> op'[e]] /\ \A e \in Callers : CallShape(op'[e]) /\ NoReport(e)
  BY <1>1, CallsSame
<1> QED
  BY <1>1, <1>4, <1>5, <1>6, <1>10, <1>11, <1>13, <1>14, <1>15, <1>16, <1>17, <1>18, DispatchStep DEF WorkShape

LEMMA ClaimKeyKeeps ==
  ASSUME DispatchInv, NEW c \in Callers, ClaimKey(c)
  PROVE  DispatchInv'
<1>1. /\ d[c].pc = "claim" /\ UNCHANGED <<steps, created, consumed, ledger, lineage, op>>
      /\ OperationKey(c) \notin claims /\ claims' = claims \cup {OperationKey(c)}
      /\ Work(c, [d[c] EXCEPT !.pc = "execute"])
  BY DEF ClaimKey, vars
<1>2. RowsKept /\ NoSuccess /\ UNCHANGED Existing /\ ConsumedKept
  BY <1>1, RowsUnchanged DEF ConsumedKept
<1>3. \A s \in Existing : (NeedsApproval(s)' <=> NeedsApproval(s)) /\ (ConsumedFor(s) => ConsumedFor(s)')
  BY <1>2, KeptFacts
<1>4. PICK w : w = [d[c] EXCEPT !.pc = "execute"]
  OBVIOUS
<1>5. w = [mode |-> d[c].mode, pc |-> "execute", step |-> d[c].step, approval |-> d[c].approval,
           provider |-> d[c].provider, status |-> d[c].status, output |-> d[c].output,
           reviews |-> d[c].reviews, budget |-> d[c].budget]
  BY <1>4, WorkFacts, SetPc
<1>6. Work(c, w) /\ d'[c] = w /\ ~Completing(c)'
  BY <1>1, <1>4, WorkFacts DEF Completing
<1>7. OperationKey(c)' = OperationKey(c) /\ OperationKey(c)[1] = d[c].step
      /\ OperationKey(c) = <<OperationKey(c)[1], OperationKey(c)[2]>>
  BY <1>5, <1>6 DEF OperationKey
<1>8. /\ d[c].mode \in {"step", "al4"} /\ d[c].step \in Existing
      /\ d[c].approval # 0 <=> NeedsApproval(d[c].step)
      /\ d[c].approval # 0 => d[c].approval \in DOMAIN consumed
      /\ d[c].mode = "al4" => TypeOf(c) = "RED_TEAM"
      /\ NeedsApproval(d[c].step) => ConsumedFor(d[c].step) /\ \A x \in claims : x[1] # d[c].step
  BY <1>1, WorkFacts DEF WorkInv, Dispatching
<1>9. \A x \in ledger : <<x.step, Alias[x.provider]>> # OperationKey(c)
  BY <1>1 DEF DispatchInv, LedgerInv
<1>10. WorkInv(c)'
  BY <1>1, <1>2, <1>3, <1>5, <1>6, <1>7, <1>8, <1>9 DEF WorkInv, Dispatching, TypeOf
<1>11. ASSUME NEW e \in Callers, e # c PROVE Apart(c, e)'
  <2>1. d'[e] = d[e] /\ WorkInv(e)
    BY <1>6, <1>11 DEF Work, DispatchInv, DispatchTypes
  <2>2. d[e].pc = "execute" => OperationKey(e) # OperationKey(c) /\ OperationKey(e)' = OperationKey(e)
    BY <1>1, <2>1 DEF WorkInv, OperationKey
  <2> QED
    BY <1>5, <1>6, <1>7, <2>1, <2>2 DEF Apart
<1>12. ClaimsInv'
  BY <1>1, <1>2, <1>3, <1>7, <1>8 DEF DispatchInv, ClaimsInv
<1>13. LedgerInv' /\ CommandOnce'
  BY <1>1 DEF DispatchInv, LedgerInv, CommandOnce
<1>14. BuiltOnce'
  <2>1. ASSUME NEW x \in claims', NEW y \in claims', x[1] = y[1],
               capabilityForStep[steps'[x[1]].stepType] = "CODE_BUILD"
        PROVE  x = y
    <3>1. x[1] \in Existing /\ NeedsApproval(x[1])
      BY <1>1, <1>7, <1>8, <2>1 DEF DispatchInv, ClaimsInv, NeedsApproval
    <3>2. CASE x \in claims /\ y \in claims
      BY <2>1, <3>1, <3>2 DEF DispatchInv, BuiltOnce, NeedsApproval
    <3>3. CASE x = OperationKey(c) \/ y = OperationKey(c)
      BY <1>1, <1>7, <1>8, <2>1, <3>1, <3>3
    <3> QED
      BY <1>1, <3>2, <3>3
  <2> QED
    BY <2>1 DEF BuiltOnce
<1>15. SuccessIsItsProviders'
  BY <1>1 DEF DispatchInv, SuccessIsItsProviders, Existing
<1>16. lineage' = [s \in StepId |-> lineage'[s]] /\ consumed' \in Seq(Nat)
  BY <1>1 DEF DispatchInv, DispatchTypes
<1>17. op' = [e \in Callers |-> op'[e]] /\ \A e \in Callers : CallShape(op'[e]) /\ NoReport(e)
  BY <1>1, CallsSame
<1> QED
  BY <1>1, <1>2, <1>5, <1>6, <1>10, <1>11, <1>12, <1>13, <1>14, <1>15, <1>16, <1>17, DispatchStep DEF WorkShape

LEMMA DuplicateBlockedKeeps ==
  ASSUME DispatchInv, NEW c \in Callers, DuplicateBlocked(c)
  PROVE  DispatchInv'
<1>1. /\ d[c].pc = "claim" /\ UNCHANGED <<steps, created, consumed, claims, ledger, lineage, op>>
      /\ Work(c, [d[c] EXCEPT !.pc = "result", !.status = "POLICY_BLOCKED"])
  BY DEF DuplicateBlocked, vars
<1>2. PICK w : w = [d[c] EXCEPT !.pc = "result", !.status = "POLICY_BLOCKED"]
  OBVIOUS
<1>3. w = [mode |-> d[c].mode, pc |-> "result", step |-> d[c].step, approval |-> d[c].approval,
           provider |-> d[c].provider, status |-> "POLICY_BLOCKED", output |-> d[c].output,
           reviews |-> d[c].reviews, budget |-> d[c].budget]
  BY <1>2, WorkFacts, SetStatus
<1>4. Work(c, w) /\ d'[c] = w /\ ~Completing(c)' /\ UNCHANGED Existing
  BY <1>1, <1>2, WorkFacts DEF Completing, Existing
<1>5. /\ d[c].mode \in {"step", "al4"} /\ d[c].step \in Existing
      /\ d[c].approval # 0 <=> NeedsApproval(d[c].step)
      /\ d[c].approval # 0 => d[c].approval \in DOMAIN consumed
      /\ d[c].mode = "al4" => TypeOf(c) = "RED_TEAM"
  BY <1>1, WorkFacts DEF WorkInv, Dispatching
<1>6. WorkInv(c)'
  BY <1>1, <1>3, <1>4, <1>5 DEF WorkInv, Dispatching, TypeOf, NeedsApproval
<1> QED
  BY <1>1, <1>3, <1>4, <1>6, CallsSame, QuietStep DEF WorkShape

LEMMA ExecutionEndsKeeps ==
  ASSUME DispatchInv, NEW c \in Callers, ExecutionEnds(c)
  PROVE  DispatchInv'
<1>1. /\ d[c].pc = "execute" /\ UNCHANGED <<steps, created, consumed, claims, lineage, op>>
  BY DEF ExecutionEnds, vars
<1>2. PICK status \in {"SUCCEEDED", "FAILED", "QUOTA_BLOCKED"}, output \in Outputs[TypeOf(c)] :
        /\ ledger' = ledger \cup {[step |-> d[c].step, provider |-> d[c].provider, status |-> status]}
        /\ Work(c, [d[c] EXCEPT !.pc = "result", !.status = status, !.output = output])
  BY DEF ExecutionEnds
<1>3. PICK row : row = [step |-> d[c].step, provider |-> d[c].provider, status |-> status]
  OBVIOUS
<1>4. row.step = d[c].step /\ row.provider = d[c].provider /\ ledger' = ledger \cup {row}
  BY <1>2, <1>3
<1>5. <<row.step, Alias[row.provider]>> = OperationKey(c)
  BY <1>4 DEF OperationKey
<1>6. RowsKept /\ NoSuccess /\ UNCHANGED Existing /\ ConsumedKept
  BY <1>1, RowsUnchanged DEF ConsumedKept
<1>7. PICK w : w = [d[c] EXCEPT !.pc = "result", !.status = status, !.output = output]
  OBVIOUS
<1>8. w = [mode |-> d[c].mode, pc |-> "result", step |-> d[c].step, approval |-> d[c].approval,
           provider |-> d[c].provider, status |-> status, output |-> output,
           reviews |-> d[c].reviews, budget |-> d[c].budget]
  BY <1>7, WorkFacts, SetResult
<1>9. Work(c, w) /\ d'[c] = w /\ ~Completing(c)'
  BY <1>1, <1>2, <1>7, WorkFacts DEF Completing
<1>10. /\ d[c].mode \in {"step", "al4"} /\ d[c].step \in Existing
       /\ d[c].approval # 0 <=> NeedsApproval(d[c].step)
       /\ d[c].approval # 0 => d[c].approval \in DOMAIN consumed
       /\ d[c].mode = "al4" => TypeOf(c) = "RED_TEAM"
       /\ OperationKey(c) \in claims
       /\ \A x \in ledger : <<x.step, Alias[x.provider]>> # OperationKey(c)
  BY <1>1, WorkFacts DEF WorkInv, Dispatching
<1>11. status = "SUCCEEDED" => RecordOf(c)' \in ledger'
  BY <1>3, <1>4, <1>8, <1>9 DEF RecordOf
<1>12. WorkInv(c)'
  BY <1>1, <1>6, <1>8, <1>9, <1>10, <1>11 DEF WorkInv, Dispatching, TypeOf, NeedsApproval
<1>13. \A e \in Callers : e # c => Apart(c, e)'
  BY <1>8, <1>9 DEF Apart
<1>14. ClaimsInv' /\ BuiltOnce'
  BY <1>1 DEF DispatchInv, ClaimsInv, BuiltOnce, NeedsApproval, ConsumedFor, Existing
<1>15. LedgerInv'
  BY <1>1, <1>4, <1>5, <1>10 DEF DispatchInv, LedgerInv
<1>16. CommandOnce'
  <2>1. ASSUME NEW x \in ledger', NEW y \in ledger', x.step = y.step, Alias[x.provider] = Alias[y.provider]
        PROVE  x = y
    <3>1. <<x.step, Alias[x.provider]>> = <<y.step, Alias[y.provider]>>
      BY <2>1
    <3>2. CASE x \in ledger /\ y \in ledger
      BY <2>1, <3>2 DEF DispatchInv, CommandOnce
    <3>3. CASE x = row \/ y = row
      BY <1>4, <1>5, <1>10, <2>1, <3>1, <3>3
    <3> QED
      BY <1>4, <3>2, <3>3
  <2> QED
    BY <2>1 DEF CommandOnce
<1>17. SuccessIsItsProviders'
  BY <1>1, <1>4 DEF DispatchInv, SuccessIsItsProviders, Existing
<1>18. lineage' = [s \in StepId |-> lineage'[s]] /\ consumed' \in Seq(Nat)
  BY <1>1 DEF DispatchInv, DispatchTypes
<1>19. op' = [e \in Callers |-> op'[e]] /\ \A e \in Callers : CallShape(op'[e]) /\ NoReport(e)
  BY <1>1, CallsSame
<1> QED
  BY <1>1, <1>4, <1>5, <1>6, <1>8, <1>9, <1>12, <1>13, <1>14, <1>15, <1>16, <1>17, <1>18, <1>19, DispatchStep
     DEF WorkShape

\* The call enters completeStep.
LEMMA ReportCall ==
  ASSUME DispatchInv, NEW c \in Callers, NEW s, NEW in,
         Proceed(c, [Idle EXCEPT !.call = "completeTx", !.step = s, !.input = in])
  PROVE  /\ op' = [e \in Callers |-> op'[e]] /\ \A e \in Callers : CallShape(op'[e]) /\ (e # c => NoReport(e))
         /\ op'[c].step = s /\ op'[c].input = in /\ UNCHANGED <<steps, created>>
<1>1. PICK o : o = [Idle EXCEPT !.call = "completeTx", !.step = s, !.input = in]
  OBVIOUS
<1>2. o = [call |-> "completeTx", step |-> s, input |-> in, loops |-> 0, stepType |-> NONE, reason |-> NONE,
           stale |-> {}]
  BY <1>1 DEF Idle
<1>3. op = [e \in Callers |-> op[e]] /\ \A e \in Callers : CallShape(op[e])
  BY DEF DispatchInv, DispatchTypes
<1>4. op' = [op EXCEPT ![c] = o] /\ UNCHANGED <<steps, created>>
  BY <1>1 DEF Proceed
<1>5. op' = [e \in Callers |-> op'[e]] /\ op'[c] = o /\ \A e \in Callers : e # c => op'[e] = op[e]
  BY <1>3, <1>4
<1>6. CallShape(o)
  BY <1>2 DEF CallShape
<1> QED
  BY <1>2, <1>3, <1>4, <1>5, <1>6 DEF NoReport, Completing

LEMMA ReportStepKeeps ==
  ASSUME DispatchInv, NEW c \in Callers, ReportStep(c)
  PROVE  DispatchInv'
<1>1. /\ d[c].mode = "step" /\ d[c].pc = "result" /\ UNCHANGED <<consumed, claims, ledger, lineage>>
      /\ Work(c, [d[c] EXCEPT !.pc = "report"])
  BY DEF ReportStep
<1>2. /\ op' = [e \in Callers |-> op'[e]] /\ \A e \in Callers : CallShape(op'[e]) /\ (e # c => NoReport(e))
      /\ op'[c].step = d[c].step /\ op'[c].input = completionOf(TypeOf(c), d[c].status, d[c].output)
      /\ UNCHANGED <<steps, created>>
  BY ReportCall DEF ReportStep, Report
<1>3. PICK w : w = [d[c] EXCEPT !.pc = "report"]
  OBVIOUS
<1>4. w = [mode |-> d[c].mode, pc |-> "report", step |-> d[c].step, approval |-> d[c].approval,
           provider |-> d[c].provider, status |-> d[c].status, output |-> d[c].output,
           reviews |-> d[c].reviews, budget |-> d[c].budget]
  BY <1>3, WorkFacts, SetPc
<1>5. Work(c, w) /\ d'[c] = w /\ UNCHANGED Existing
  BY <1>1, <1>2, <1>3, WorkFacts DEF Existing
<1>6. d[c].step \in Existing /\ (d[c].status = "SUCCEEDED" => RecordOf(c) \in ledger)
  BY <1>1, WorkFacts DEF WorkInv, Dispatching
<1>7. RecordOf(c)' = RecordOf(c) /\ TypeOf(c)' = TypeOf(c)
  BY <1>2, <1>4, <1>5 DEF RecordOf, TypeOf
<1>8. WorkInv(c)'
  BY <1>1, <1>2, <1>4, <1>5, <1>6, <1>7 DEF WorkInv, Dispatching
<1> QED
  BY <1>1, <1>2, <1>4, <1>5, <1>8, QuietStep DEF WorkShape

LEMMA ReviewInKeeps ==
  ASSUME DispatchInv, NEW c \in Callers, ReviewIn(c)
  PROVE  DispatchInv'
<1>1. /\ d[c].mode = "al4" /\ d[c].pc = "result"
      /\ UNCHANGED <<steps, created, consumed, claims, ledger, lineage, op>>
  BY DEF ReviewIn, vars
<1>2. PICK r : r = <<[provider |-> d[c].provider, verdict |-> d[c].output]>>
  OBVIOUS
<1>3. PICK w : w = [d[c] EXCEPT !.pc = "route", !.provider = NONE, !.status = NONE, !.output = NONE, !.reviews = r]
  OBVIOUS
<1>4. w = [mode |-> d[c].mode, pc |-> "route", step |-> d[c].step, approval |-> d[c].approval,
           provider |-> NONE, status |-> NONE, output |-> NONE, reviews |-> r, budget |-> d[c].budget]
  <2>1. PICK z : z = [d[c] EXCEPT !.pc = "route", !.provider = NONE]
    OBVIOUS
  <2>2. z = [mode |-> d[c].mode, pc |-> "route", step |-> d[c].step, approval |-> d[c].approval,
             provider |-> NONE, status |-> d[c].status, output |-> d[c].output, reviews |-> d[c].reviews,
             budget |-> d[c].budget]
    BY <2>1, WorkFacts, SetProvider
  <2>3. w = [z EXCEPT !.status = NONE, !.output = NONE, !.reviews = r]
    BY <1>3, <2>1
  <2> QED
    BY <2>2, <2>3
<1>5. Work(c, w)
  BY <1>2, <1>3 DEF ReviewIn
<1>6. d'[c] = w /\ ~Completing(c)' /\ UNCHANGED Existing
  BY <1>1, <1>5, WorkFacts DEF Completing, Existing
<1>7. /\ d[c].step \in Existing /\ TypeOf(c) = "RED_TEAM"
      /\ d[c].approval # 0 <=> NeedsApproval(d[c].step)
      /\ d[c].approval # 0 => d[c].approval \in DOMAIN consumed
  BY <1>1, WorkFacts DEF WorkInv, Dispatching
<1>8. WorkInv(c)'
  BY <1>1, <1>4, <1>6, <1>7 DEF WorkInv, Dispatching, TypeOf, NeedsApproval
<1> QED
  BY <1>1, <1>4, <1>5, <1>8, CallsSame, QuietStep DEF WorkShape

LEMMA ReportReviewsKeeps ==
  ASSUME DispatchInv, NEW c \in Callers, ReportReviews(c)
  PROVE  DispatchInv'
<1>1. /\ d[c].mode = "al4" /\ d[c].pc = "result" /\ d[c].status = "SUCCEEDED"
      /\ UNCHANGED <<consumed, claims, ledger, lineage>>
  BY DEF ReportReviews, Reviewed
<1>2. /\ op' = [e \in Callers |-> op'[e]] /\ \A e \in Callers : CallShape(op'[e]) /\ (e # c => NoReport(e))
      /\ op'[c].step = d[c].step /\ UNCHANGED <<steps, created>>
  BY ReportCall DEF ReportReviews, Report
<1>3. PICK r : r = Append(d[c].reviews, [provider |-> d[c].provider, verdict |-> d[c].output])
  OBVIOUS
<1>4. PICK w : w = [d[c] EXCEPT !.pc = "report", !.reviews = r]
  OBVIOUS
<1>5. w = [mode |-> d[c].mode, pc |-> "report", step |-> d[c].step, approval |-> d[c].approval,
           provider |-> d[c].provider, status |-> d[c].status, output |-> d[c].output,
           reviews |-> r, budget |-> d[c].budget]
  BY <1>4, WorkFacts, SetReviews
<1>6. Work(c, w)
  BY <1>3, <1>4 DEF ReportReviews
<1>7. d'[c] = w /\ UNCHANGED Existing
  BY <1>2, <1>6, WorkFacts DEF Existing
<1>8. d[c].step \in Existing /\ RecordOf(c) \in ledger /\ TypeOf(c) = "RED_TEAM"
  BY <1>1, WorkFacts DEF WorkInv, Dispatching
<1>9. RecordOf(c)' = RecordOf(c) /\ TypeOf(c)' = TypeOf(c)
  BY <1>2, <1>5, <1>7 DEF RecordOf, TypeOf
<1>10. WorkInv(c)'
  BY <1>1, <1>2, <1>5, <1>7, <1>8, <1>9 DEF WorkInv, Dispatching
<1> QED
  BY <1>1, <1>2, <1>5, <1>6, <1>10, QuietStep DEF WorkShape

LEMMA ParseVerdictKeeps ==
  ASSUME DispatchInv, NEW c \in Callers, ParseVerdict(c)
  PROVE  DispatchInv'
<1>1. /\ d[c].mode = "verdict" /\ d[c].pc = "read" /\ UNCHANGED <<consumed, claims, ledger, lineage>>
  BY DEF ParseVerdict
<1>2. PICK s \in ReadyCurrent({"PARSE_VERDICT"}) :
        /\ Proceed(c, [Idle EXCEPT !.call = "completeTx", !.step = s,
                                   !.input = verdictOf(Latest(Succeeded("RED_TEAM")))])
        /\ Work(c, [d[c] EXCEPT !.pc = "report", !.step = s, !.approval = 0])
  BY DEF ParseVerdict
<1>3. /\ op' = [e \in Callers |-> op'[e]] /\ \A e \in Callers : CallShape(op'[e]) /\ (e # c => NoReport(e))
      /\ op'[c].step = s /\ UNCHANGED <<steps, created>>
  BY <1>2, ReportCall
<1>4. s \in Existing /\ steps[s].stepType = "PARSE_VERDICT"
  BY <1>2 DEF ReadyCurrent
<1>5. PICK w : w = [d[c] EXCEPT !.pc = "report", !.step = s, !.approval = 0]
  OBVIOUS
<1>6. w = [mode |-> d[c].mode, pc |-> "report", step |-> s, approval |-> 0, provider |-> d[c].provider,
           status |-> d[c].status, output |-> d[c].output, reviews |-> d[c].reviews, budget |-> d[c].budget]
  BY <1>5, WorkFacts, SetTaken
<1>7. Work(c, w) /\ d'[c] = w /\ UNCHANGED Existing
  BY <1>2, <1>3, <1>5, WorkFacts DEF Existing
<1>8. WorkInv(c)'
  BY <1>1, <1>3, <1>4, <1>6, <1>7 DEF WorkInv, Dispatching, TypeOf
<1> QED
  BY <1>1, <1>3, <1>6, <1>7, <1>8, QuietStep DEF WorkShape

LEMMA QuitKeeps ==
  ASSUME DispatchInv, NEW c \in Callers, Quit(c)
  PROVE  DispatchInv'
<1>1. /\ Work(c, NoWork) /\ op[c] = Idle
      /\ UNCHANGED <<steps, created, consumed, claims, ledger, lineage, op>>
  BY DEF Quit, vars
<1>2. d'[c] = NoWork /\ ~Completing(c)'
  BY <1>1, WorkFacts DEF Completing, Idle
<1>3. WorkShape(NoWork) /\ NoWork.pc = "idle"
  BY DEF WorkShape, NoWork
<1>4. WorkInv(c)'
  BY <1>2, <1>3 DEF WorkInv, Dispatching
<1> QED
  BY <1>1, <1>3, <1>4, CallsSame, QuietStep

\* The row that completeStep writes.
LEMMA CompletedRow ==
  ASSUME NEW x, RowShape(x), NEW in, NEW y, y = completedStep(x, in)
  PROVE  /\ RowShape(y) /\ y.stepType = x.stepType /\ y.causationId = x.causationId
         /\ y.status = IF in.providerStatus \in BlockingProviderStatus THEN "WAITING" ELSE in.stepStatus
         /\ y.status = "SUCCEEDED" => in.providerStatus \notin BlockingProviderStatus /\ in.stepStatus = "SUCCEEDED"
<1>1. PICK v : v = IF in.providerStatus \in BlockingProviderStatus THEN "WAITING" ELSE in.stepStatus
  OBVIOUS
<1>2. PICK z : z = [x EXCEPT !.status = v]
  OBVIOUS
<1>3. z = [stepType |-> x.stepType, status |-> v, causationId |-> x.causationId, metadata |-> x.metadata]
  BY <1>2 DEF RowShape
<1>4. PICK m : m = IF in.metadata = NONE THEN x.metadata ELSE in.metadata
  OBVIOUS
<1>5. y = [z EXCEPT !.metadata = m]
  <2>1. y = [x EXCEPT !.status = v, !.metadata = m]
    BY <1>1, <1>4 DEF completedStep
  <2> QED
    BY <1>2, <2>1
<1>6. y = [stepType |-> x.stepType, status |-> v, causationId |-> x.causationId, metadata |-> m]
  BY <1>3, <1>5
<1> QED
  BY <1>1, <1>6 DEF RowShape

\* What executeCurrentStep reports as a success is an accepted one of its provider.
LEMMA SuccessReported ==
  ASSUME NEW t, NEW status, NEW output, NEW in, in = completionOf(t, status, output),
         in.providerStatus \notin BlockingProviderStatus, in.stepStatus = "SUCCEEDED"
  PROVE  /\ status = "SUCCEEDED"
         /\ t \in {"TEST", "VERIFY", "REMOTE_VERIFY"} => output = "PASS"
         /\ t = "CORRECTION" => output = "CHANGED"
<1>1. CASE status \in BlockingProviderStatus
  <2>1. in.providerStatus = status
    BY <1>1 DEF completionOf, blockedCompletion, Completion
  <2> QED
    BY <1>1, <2>1
<1>2. CASE status \notin BlockingProviderStatus /\ ~(status = "SUCCEEDED" /\ accepted(t, output))
  <2>1. in.stepStatus = "FAILED"
    BY <1>2 DEF completionOf, Completion
  <2> QED
    BY <2>1
<1>3. CASE status = "SUCCEEDED" /\ accepted(t, output)
  BY <1>3 DEF accepted, verificationPassed, correctionChanged, testPassed, projectTest, projectVerification,
     changedFiles, NONE
<1> QED
  BY <1>1, <1>2, <1>3

\* The rows that completeStep writes for a report, and what follows from it.
RowsReported(c) == [steps EXCEPT ![d[c].step] = completedStep(steps[d[c].step], op[c].input)]
OutcomeReported(c) == nextEngineeringStep(StateMachineInput(op[c].input, TypeOf(c), op[c].loops))

\* What completeStep makes of the rows: the reported step is settled, the others stay.
LEMMA ReportedRows ==
  ASSUME DispatchInv, NEW c \in Callers, ReportCommit(c),
         NEW rows, rows = RowsReported(c), NEW out, out = OutcomeReported(c)
  PROVE  /\ Completing(c) /\ d[c].step \in Existing /\ steps[d[c].step].status = "READY"
         /\ rows = [s \in StepId |-> rows[s]]
         /\ \A s \in StepId : /\ RowShape(rows[s]) /\ rows[s].stepType = steps[s].stepType
                              /\ rows[s].causationId = steps[s].causationId
                              /\ s # d[c].step => rows[s] = steps[s]
         /\ rows[d[c].step].status =
              IF op[c].input.providerStatus \in BlockingProviderStatus THEN "WAITING" ELSE op[c].input.stepStatus
         /\ run' = transitionedRun(out, TypeOf(c), op[c].loops)
         /\ out.kind = "NEXT_STEP" => CommitWithStep(c, rows, out.nextStep, d[c].step)
         /\ out.kind # "NEXT_STEP" => steps' = rows /\ UNCHANGED created /\ Commit(c)
<1>1. CompleteCommit(c)
  BY DEF ReportCommit
<1>2. Completing(c)
  BY <1>1 DEF CompleteCommit, Completing
<1>3. op[c].step = d[c].step /\ d[c].step \in Existing
  BY <1>2, WorkFacts DEF WorkInv
<1>4. /\ Existing \subseteq StepId /\ steps = [s \in StepId |-> steps[s]]
      /\ \A s \in StepId : RowShape(steps[s])
  BY ExistingRows
<1>5. /\ rows = [s \in StepId |-> rows[s]]
      /\ rows[d[c].step] = completedStep(steps[d[c].step], op[c].input)
      /\ \A s \in StepId : s # d[c].step => rows[s] = steps[s]
  BY <1>3, <1>4 DEF RowsReported
<1>6. PICK x : x = steps[d[c].step]
  OBVIOUS
<1>7. PICK in : in = op[c].input
  OBVIOUS
<1>8. PICK y : y = rows[d[c].step]
  OBVIOUS
<1>9. RowShape(x) /\ y = completedStep(x, in)
  BY <1>3, <1>4, <1>5, <1>6, <1>7, <1>8
<1>10. /\ RowShape(y) /\ y.stepType = x.stepType /\ y.causationId = x.causationId
       /\ y.status = IF in.providerStatus \in BlockingProviderStatus THEN "WAITING" ELSE in.stepStatus
  BY <1>9, CompletedRow
<1>11. /\ rows[d[c].step].status =
            IF op[c].input.providerStatus \in BlockingProviderStatus THEN "WAITING" ELSE op[c].input.stepStatus
       /\ RowShape(rows[d[c].step]) /\ rows[d[c].step].stepType = steps[d[c].step].stepType
       /\ rows[d[c].step].causationId = steps[d[c].step].causationId
  BY <1>6, <1>7, <1>8, <1>10
<1>12. \A s \in StepId : /\ RowShape(rows[s]) /\ rows[s].stepType = steps[s].stepType
                         /\ rows[s].causationId = steps[s].causationId
                         /\ s # d[c].step => rows[s] = steps[s]
  BY <1>4, <1>5, <1>11
<1>13. /\ steps[d[c].step].status = "READY"
       /\ run' = transitionedRun(out, TypeOf(c), op[c].loops)
       /\ out.kind = "NEXT_STEP" => CommitWithStep(c, rows, out.nextStep, d[c].step)
       /\ out.kind # "NEXT_STEP" => steps' = rows /\ UNCHANGED created /\ Commit(c)
  BY <1>1, <1>3 DEF CompleteCommit, Claimable, TypeOf, RowsReported, OutcomeReported
<1> QED
  BY <1>2, <1>3, <1>5, <1>11, <1>12, <1>13

LEMMA ReportCommitKeeps ==
  ASSUME DispatchInv, NEW c \in Callers, ReportCommit(c)
  PROVE  DispatchInv'
<1>1. /\ d[c].pc = "report" /\ CompleteCommit(c) /\ UNCHANGED <<consumed, claims, ledger>>
      /\ lineage' = [lineage EXCEPT ![d[c].step] = evidenceOf(c)]
  BY DEF ReportCommit
<1>2. PICK w : /\ Work(c, w) /\ WorkShape(w) /\ w.pc \in {"idle", "read"} /\ w.approval = 0
  <2>1. WorkShape(NoWork) /\ NoWork.pc = "idle" /\ NoWork.approval = 0
    BY DEF WorkShape, NoWork
  <2>2. PICK w : w = [NoWork EXCEPT !.mode = "step", !.pc = "read", !.budget = d[c].budget - 1]
    OBVIOUS
  <2>3. w = [mode |-> "step", pc |-> "read", step |-> 0, approval |-> 0, provider |-> NONE,
             status |-> NONE, output |-> NONE, reviews |-> <<>>, budget |-> d[c].budget - 1]
    BY <2>2 DEF NoWork
  <2>4. WorkShape(w) /\ w.pc = "read" /\ w.approval = 0
    BY <2>3 DEF WorkShape
  <2>5. Work(c, w) \/ Work(c, NoWork)
    BY <2>2 DEF ReportCommit
  <2> QED
    BY <2>1, <2>4, <2>5
<1>3. Completing(c) /\ op[c].call = "completeClaim"
  BY <1>1 DEF CompleteCommit, Completing
<1>4. /\ d[c].mode \in {"step", "al4", "verdict"} /\ op[c].step = d[c].step /\ d[c].step \in Existing
      /\ d[c].mode = "step" => op[c].input = completionOf(TypeOf(c), d[c].status, d[c].output)
      /\ d[c].mode = "al4" => d[c].status = "SUCCEEDED" /\ TypeOf(c) = "RED_TEAM"
      /\ d[c].mode = "verdict" => TypeOf(c) = "PARSE_VERDICT"
      /\ d[c].mode # "verdict" /\ d[c].status = "SUCCEEDED" => RecordOf(c) \in ledger
  BY <1>3, WorkFacts DEF WorkInv
<1>5. /\ Existing \subseteq StepId /\ steps = [s \in StepId |-> steps[s]]
      /\ \A s \in StepId : RowShape(steps[s])
  BY ExistingRows
<1>6. PICK rows : rows = RowsReported(c)
  OBVIOUS
<1>7. PICK out : out = OutcomeReported(c)
  OBVIOUS
<1>8. /\ rows = [s \in StepId |-> rows[s]]
      /\ \A s \in StepId : /\ RowShape(rows[s]) /\ rows[s].stepType = steps[s].stepType
                           /\ rows[s].causationId = steps[s].causationId
                           /\ s # d[c].step => rows[s] = steps[s]
      /\ rows[d[c].step].status =
           IF op[c].input.providerStatus \in BlockingProviderStatus THEN "WAITING" ELSE op[c].input.stepStatus
      /\ out.kind = "NEXT_STEP" => CommitWithStep(c, rows, out.nextStep, d[c].step)
      /\ out.kind # "NEXT_STEP" => steps' = rows /\ UNCHANGED created /\ Commit(c)
  BY <1>6, <1>7, ReportedRows
<1>9. /\ RowsKept
      /\ \A s \in Existing' : steps'[s].status = "SUCCEEDED" => s \in Existing /\ rows[s].status = "SUCCEEDED"
  <2>1. CASE out.kind = "NEXT_STEP"
    BY <1>8, <2>1, RowInserted
  <2>2. CASE out.kind # "NEXT_STEP"
    <3>1. RowsKept /\ Existing' = Existing
      BY <1>8, <2>2, RowsRewritten
    <3> QED
      BY <1>8, <2>2, <3>1
  <2> QED
    BY <2>1, <2>2
<1>10. op' = [op EXCEPT ![c] = Idle]
  BY <1>1 DEF CompleteCommit, CommitWithStep, Commit
<1>11. /\ op' = [e \in Callers |-> op'[e]] /\ ~Completing(c)'
       /\ \A e \in Callers : CallShape(op'[e]) /\ (e # c => NoReport(e))
  <2>1. op = [e \in Callers |-> op[e]] /\ \A e \in Callers : CallShape(op[e])
    BY DEF DispatchInv, DispatchTypes
  <2>2. CallShape(Idle) /\ Idle.call = "idle"
    BY DEF CallShape, Idle
  <2>3. op' = [e \in Callers |-> op'[e]] /\ op'[c] = Idle /\ \A e \in Callers : e # c => op'[e] = op[e]
    BY <1>10, <2>1
  <2> QED
    BY <2>1, <2>2, <2>3 DEF NoReport, Completing
<1>12. ConsumedKept /\ consumed' \in Seq(Nat)
  BY <1>1 DEF ConsumedKept, DispatchInv, DispatchTypes
<1>13. /\ Existing \subseteq Existing'
       /\ \A s \in Existing : NeedsApproval(s)' <=> NeedsApproval(s)
       /\ \A s \in Existing : ConsumedFor(s) => ConsumedFor(s)'
       /\ \A s \in Existing : steps'[s].stepType = steps[s].stepType
  BY <1>9, <1>12, KeptFacts DEF RowsKept
<1>14. ClaimsInv' /\ LedgerInv' /\ CommandOnce'
  BY <1>1, <1>13 DEF DispatchInv, ClaimsInv, LedgerInv, CommandOnce
<1>15. BuiltOnce'
  BY <1>1, <1>13 DEF DispatchInv, ClaimsInv, BuiltOnce
<1>16. /\ lineage' = [s \in StepId |-> lineage'[s]] /\ lineage'[d[c].step] = evidenceOf(c)
       /\ \A s \in StepId : s # d[c].step => lineage'[s] = lineage[s]
  BY <1>1, <1>4, <1>5 DEF DispatchInv, DispatchTypes
<1>17. SuccessIsItsProviders'
  <2>1. ASSUME NEW s \in Existing', s > 1, steps'[s].status = "SUCCEEDED", steps'[s].stepType \in AgentSteps
        PROVE  /\ lineage'[s].source \in {"RUNTIME", "COORDINATOR"}
               /\ [step |-> s, provider |-> lineage'[s].provider, status |-> "SUCCEEDED"] \in ledger'
               /\ steps'[s].stepType \in {"TEST", "VERIFY", "REMOTE_VERIFY"} => lineage'[s].output = "PASS"
               /\ steps'[s].stepType = "CORRECTION" => lineage'[s].output = "CHANGED"
    <3>1. s \in Existing /\ s \in StepId /\ rows[s].status = "SUCCEEDED" /\ steps'[s].stepType = steps[s].stepType
      BY <1>5, <1>9, <1>13, <2>1
    <3>2. CASE s # d[c].step
      <4>1. rows[s] = steps[s] /\ lineage'[s] = lineage[s]
        BY <1>8, <1>16, <3>1, <3>2
      <4> QED
        BY <1>1, <2>1, <3>1, <4>1 DEF DispatchInv, SuccessIsItsProviders
    <3>3. CASE s = d[c].step
      <4>1. op[c].input.providerStatus \notin BlockingProviderStatus /\ op[c].input.stepStatus = "SUCCEEDED"
        BY <1>8, <3>1, <3>3
      <4>2. d[c].mode # "verdict" /\ TypeOf(c) = steps[s].stepType
        BY <1>4, <2>1, <3>1, <3>3 DEF TypeOf, AgentSteps, capabilityForStep, EngineeringStepType
      <4>3. /\ lineage'[s].source = IF d[c].mode = "al4" THEN "COORDINATOR" ELSE "RUNTIME"
            /\ lineage'[s].provider = d[c].provider /\ lineage'[s].output = d[c].output
        BY <1>4, <1>16, <3>3, <4>2 DEF evidenceOf
      <4>4. d[c].status = "SUCCEEDED"
        BY <1>4, <4>1, <4>2, SuccessReported
      <4>5. RecordOf(c) \in ledger'
        BY <1>1, <1>4, <4>2, <4>4
      <4>6. CASE d[c].mode = "step"
        <5>1. /\ TypeOf(c) \in {"TEST", "VERIFY", "REMOTE_VERIFY"} => d[c].output = "PASS"
              /\ TypeOf(c) = "CORRECTION" => d[c].output = "CHANGED"
          BY <1>4, <4>1, <4>6, SuccessReported
        <5> QED
          BY <3>1, <3>3, <4>2, <4>3, <4>5, <4>6, <5>1 DEF RecordOf
      <4>7. CASE d[c].mode = "al4"
        BY <1>4, <3>1, <3>3, <4>2, <4>3, <4>5, <4>7 DEF RecordOf
      <4> QED
        BY <1>4, <4>2, <4>6, <4>7
    <3> QED
      BY <3>2, <3>3
  <2> QED
    BY <2>1 DEF SuccessIsItsProviders, AgentSteps
<1>18. d'[c] = w
  BY <1>2, WorkFacts
<1>19. WorkInv(c)' /\ \A e \in Callers : e # c => Apart(c, e)'
  BY <1>2, <1>11, <1>18 DEF WorkInv, Apart, Dispatching
<1> QED
  BY <1>1, <1>2, <1>9, <1>11, <1>12, <1>14, <1>15, <1>16, <1>17, <1>19, DispatchStep

\* A step in which no worker moves.
LEMMA WorkersRest ==
  ASSUME DispatchInv, UNCHANGED <<d, claims, ledger, lineage>>, RowsKept, NoSuccess, ConsumedKept,
         consumed' \in Seq(Nat), op' = [e \in Callers |-> op'[e]],
         \A e \in Callers : CallShape(op'[e]) /\ NoReport(e)
  PROVE  DispatchInv'
<1>1. /\ Existing \subseteq Existing'
      /\ \A s \in Existing : NeedsApproval(s)' <=> NeedsApproval(s)
      /\ \A s \in Existing : ConsumedFor(s) => ConsumedFor(s)'
      /\ \A s \in Existing : steps'[s].stepType = steps[s].stepType
  BY KeptFacts DEF RowsKept
<1>2. DispatchTypes'
  BY DEF DispatchInv, DispatchTypes, RowsKept
<1>3. ClaimsInv' /\ LedgerInv' /\ CommandOnce'
  BY <1>1 DEF DispatchInv, ClaimsInv, LedgerInv, CommandOnce
<1>4. BuiltOnce'
  BY <1>1 DEF DispatchInv, ClaimsInv, BuiltOnce
<1>5. SuccessIsItsProviders'
  BY <1>1 DEF DispatchInv, SuccessIsItsProviders, NoSuccess
<1>6. \A e \in Callers : WorkInv(e)'
  BY WorkKept
<1>7. ASSUME NEW e \in Callers, NEW f \in Callers, e # f PROVE Apart(e, f)'
  <2>1. Apart(e, f) /\ WorkInv(e)
    BY <1>7 DEF DispatchInv
  <2>2. d[e].pc = "claim" => (NeedsApproval(d[e].step)' <=> NeedsApproval(d[e].step))
    BY <1>1, <2>1 DEF WorkInv, Dispatching, NeedsApproval
  <2> QED
    BY <2>1, <2>2 DEF Apart, OperationKey
<1> QED
  BY <1>2, <1>3, <1>4, <1>5, <1>6, <1>7 DEF DispatchInv

\* The other transactions of the runtime: cancel, resume, correct, abort.
LEMMA RunStepKeeps ==
  ASSUME DispatchInv, NEW c \in Callers, RunStep(c)
  PROVE  DispatchInv'
<1>1. UNCHANGED <<d, claims, ledger, lineage, consumed>>
  BY DEF RunStep, dispatchVars
<1>2. ConsumedKept /\ consumed' \in Seq(Nat)
  BY <1>1 DEF ConsumedKept, DispatchInv, DispatchTypes
<1> QED
  BY <1>1, <1>2, RunStepRows, WorkersRest

\* Health probes, grants and steps of the environment.
LEMMA RestKeeps ==
  ASSUME DispatchInv, \/ \E p \in Providers : Probe(p)
                      \/ Grant
                      \/ UNCHANGED allVars
  PROVE  DispatchInv'
<1>1. UNCHANGED <<steps, created, op, d, claims, ledger, lineage>>
  BY DEF Probe, Grant, allVars, vars, dispatchVars
<1>2. consumed' = consumed \/ consumed' = Append(consumed, 0)
  BY DEF Probe, Grant, allVars, dispatchVars
<1>3. consumed \in Seq(Nat)
  BY DEF DispatchInv, DispatchTypes
<1>4. ConsumedKept /\ consumed' \in Seq(Nat)
  <2>1. CASE consumed' = consumed
    BY <1>3, <2>1 DEF ConsumedKept
  <2>2. CASE consumed' = Append(consumed, 0)
    BY <1>3, <2>2, AppendProperties DEF ConsumedKept
  <2> QED
    BY <1>2, <2>1, <2>2
<1> QED
  BY <1>1, <1>4, CallsSame, RowsUnchanged, WorkersRest

\* A restart loses every worker, and none of the tables.
LEMMA DispatchRestartKeeps ==
  ASSUME DispatchInv, DispatchRestart
  PROVE  DispatchInv'
<1>1. /\ UNCHANGED <<steps, created, consumed, claims, ledger, lineage>>
      /\ op' = [c \in Callers |-> Idle] /\ d' = [c \in Callers |-> NoWork]
  BY DEF DispatchRestart, Restart
<1>2. RowsKept /\ NoSuccess
  BY <1>1, RowsUnchanged
<1>3. /\ ConsumedKept /\ consumed' \in Seq(Nat) /\ lineage' = [s \in StepId |-> lineage'[s]]
      /\ ClaimsInv' /\ LedgerInv' /\ BuiltOnce' /\ CommandOnce' /\ SuccessIsItsProviders'
  BY <1>1, <1>2, TablesSame
<1>4. WorkShape(NoWork) /\ NoWork.pc = "idle" /\ CallShape(Idle) /\ Idle.call = "idle"
  BY DEF WorkShape, NoWork, CallShape, Idle
<1>5. \A c \in Callers : d'[c] = NoWork /\ op'[c] = Idle
  BY <1>1
<1>6. DispatchTypes'
  BY <1>1, <1>2, <1>3, <1>4, <1>5 DEF DispatchTypes, RowsKept
<1>7. \A c \in Callers : WorkInv(c)' /\ \A e \in Callers : Apart(c, e)'
  BY <1>4, <1>5 DEF WorkInv, Apart, Dispatching, Completing
<1> QED
  BY <1>3, <1>6, <1>7 DEF DispatchInv

LEMMA DispatchInitHolds ==
  ASSUME DispatchInit
  PROVE  DispatchInv
<1>1. /\ steps = [s \in StepId |-> IF s = 1 THEN [ReadyStep("PLAN", 0) EXCEPT !.status = "SUCCEEDED"]
                                   ELSE IF s = 2 THEN ReadyStep("BUILD", 1) ELSE NoStep]
      /\ created = 2 /\ op = [c \in Callers |-> Idle] /\ d = [c \in Callers |-> NoWork]
      /\ consumed = <<0>> /\ claims = {} /\ ledger = {} /\ lineage = [s \in StepId |-> NoLineage]
  BY DEF DispatchInit
<1>2. /\ WorkShape(NoWork) /\ NoWork.pc = "idle" /\ CallShape(Idle) /\ Idle.call = "idle"
      /\ RowShape([ReadyStep("PLAN", 0) EXCEPT !.status = "SUCCEEDED"]) /\ RowShape(ReadyStep("BUILD", 1))
      /\ RowShape(NoStep) /\ ReadyStep("BUILD", 1).status = "READY"
  BY DEF WorkShape, NoWork, CallShape, Idle, RowShape, ReadyStep, NoStep
<1>3. DispatchRows
  BY <1>1, <1>2, ConstantsAssumption, DispatchAssumption DEF DispatchRows
<1>4. consumed \in Seq(Nat)
  BY <1>1
<1>5. DispatchTypes
  BY <1>1, <1>2, <1>3, <1>4 DEF DispatchTypes
<1>6. \A c \in Callers : d[c] = NoWork /\ op[c] = Idle
  BY <1>1
<1>7. \A c \in Callers : WorkInv(c) /\ \A e \in Callers : Apart(c, e)
  BY <1>2, <1>6 DEF WorkInv, Apart, Dispatching, Completing
<1>8. SuccessIsItsProviders
  <2>1. ASSUME NEW s \in Existing, s > 1 PROVE steps[s].status # "SUCCEEDED"
    <3>1. s = 2 /\ s \in StepId
      BY <1>1, <2>1, ConstantsAssumption, DispatchAssumption DEF Existing, StepId
    <3> QED
      BY <1>1, <1>2, <3>1
  <2> QED
    BY <2>1 DEF SuccessIsItsProviders
<1>9. ClaimsInv /\ LedgerInv /\ BuiltOnce /\ CommandOnce
  BY <1>1 DEF ClaimsInv, LedgerInv, BuiltOnce, CommandOnce
<1> QED
  BY <1>5, <1>7, <1>8, <1>9 DEF DispatchInv

LEMMA DispatchNextKeeps ==
  ASSUME DispatchInv, [DispatchNext]_allVars
  PROVE  DispatchInv'
<1>1. ASSUME NEW c \in Callers, NEW mode, NEW budget, Begin(c, mode, budget) PROVE DispatchInv'
  BY <1>1, BeginKeeps
<1>2. ASSUME NEW c \in Callers, ExecuteRead(c) \/ CoordinateRead(c) \/ Route(c) \/ Consume(c)
      PROVE  DispatchInv'
  BY <1>2, ExecuteReadKeeps, CoordinateReadKeeps, RouteKeeps, ConsumeKeeps
<1>3. ASSUME NEW c \in Callers, ClaimKey(c) \/ DuplicateBlocked(c) \/ ExecutionEnds(c)
      PROVE  DispatchInv'
  BY <1>3, ClaimKeyKeeps, DuplicateBlockedKeeps, ExecutionEndsKeeps
<1>4. ASSUME NEW c \in Callers, ReportStep(c) \/ ReviewIn(c) \/ ReportReviews(c) \/ ParseVerdict(c)
      PROVE  DispatchInv'
  BY <1>4, ReportStepKeeps, ReviewInKeeps, ReportReviewsKeeps, ParseVerdictKeeps
<1>5. ASSUME NEW c \in Callers, ReportCommit(c) \/ Quit(c) \/ RunStep(c)
      PROVE  DispatchInv'
  BY <1>5, ReportCommitKeeps, QuitKeeps, RunStepKeeps
<1>6. CASE (\E p \in Providers : Probe(p)) \/ Grant \/ UNCHANGED allVars
  BY <1>6, RestKeeps
<1>7. CASE DispatchRestart
  BY <1>7, DispatchRestartKeeps
<1> QED
  BY <1>1, <1>2, <1>3, <1>4, <1>5, <1>6, <1>7 DEF DispatchNext

\* The invariant holds throughout: what workers, approvals, claims, records and
\* the rows of the run know of each other never comes apart.
THEOREM DispatchHolds == DispatchSpec => []DispatchInv
<1>1. DispatchInit => DispatchInv
  BY DispatchInitHolds
<1>2. DispatchInv /\ [DispatchNext]_allVars => DispatchInv'
  BY DispatchNextKeeps
<1> QED
  BY <1>1, <1>2, PTL DEF DispatchSpec

\* However many workers are dispatched for a run, race, are answered late, are
\* resumed or restarted: a build or a correction reaches one provider, because
\* its approval is consumed under the step's own key (consumeForDispatch), and a
\* command runs once for a step, because its key is claimed first.
THEOREM NothingTwice == DispatchSpec => []ExecutedOnce
<1>1. DispatchInv => ExecutedOnce
  BY DEF DispatchInv, ExecutedOnce
<1> QED
  BY <1>1, DispatchHolds, PTL

\* A step of agents succeeds only on a success of the provider that its metadata
\* names, recorded for that very step, with an output that executeCurrentStep
\* accepts: no duplicate, lost race or restart completes it on another's result.
THEOREM SuccessesAreEarned == DispatchSpec => []SuccessIsItsProviders
<1>1. DispatchInv => SuccessIsItsProviders
  BY DEF DispatchInv
<1> QED
  BY <1>1, DispatchHolds, PTL

-----------------------------------------------------------------------------
(* The thread of work, for the properties of reviews.                      *)

\* The types of the steps between a change and its verification.
Reviewing == {"TEST", "PACKAGE", "RED_TEAM", "PARSE_VERDICT", "VERIFY"}

PrecededBy(t, u) ==
  \/ t = "TEST" /\ u \in {"BUILD", "CORRECTION"}
  \/ t = "PACKAGE" /\ u = "TEST"
  \/ t = "RED_TEAM" /\ u = "PACKAGE"
  \/ t = "PARSE_VERDICT" /\ u = "RED_TEAM"
  \/ t = "VERIFY" /\ u = "PARSE_VERDICT"

\* Such a step was caused by the step created just before it, which succeeded.
Follows(s) ==
  steps[s].stepType \in Reviewing =>
    /\ s - 1 \in Existing /\ steps[s].causationId = s - 1 /\ steps[s - 1].status = "SUCCEEDED"
    /\ PrecededBy(steps[s].stepType, steps[s - 1].stepType)

\* Only the last step is open, and the run row names it; step 2 is the build.
Thread ==
  /\ run = [status |-> run.status, currentStepType |-> run.currentStepType,
            correctionLoopCount |-> run.correctionLoopCount, blockReasonCode |-> run.blockReasonCode]
  /\ 2 \leq created /\ steps[2].stepType = "BUILD"
  /\ \A s \in Existing :
       /\ steps[s].stepType \in EngineeringStepType
       /\ steps[s].stepType = "PLAN" => s = 1
       /\ steps[s].stepType = "BUILD" => s = 2
       /\ Active(s) => s = created /\ run.currentStepType = steps[s].stepType
       /\ Follows(s)

\* The provider executed the step with success, and is not the builder's.
Reviewer(s, p) ==
  /\ p # lineage[2].provider /\ ModelFamily[p] # ModelFamily[lineage[2].provider]
  /\ [step |-> s, provider |-> p, status |-> "SUCCEEDED"] \in ledger

Entries(reviews) == {reviews[i] : i \in DOMAIN reviews}

ReviewedBy(s, reviews) ==
  \E q, r \in Entries(reviews) :
    /\ reviews = <<q, r>> /\ Reviewer(s, q.provider) /\ Reviewer(s, r.provider)
    /\ q.provider # r.provider /\ ModelFamily[q.provider] # ModelFamily[r.provider]

\* What a worker has of reviews.
ReviewWork(c) ==
  /\ d[c].pc = "read" => d[c].reviews = <<>>
  /\ Completing(c) => op[c].input.stepStatus \in {"SUCCEEDED", "FAILED"}
  /\ d[c].mode = "step" /\ (d[c].pc \in Dispatching \/ Completing(c)) => TypeOf(c) # "PARSE_VERDICT"
  /\ d[c].mode = "al4" /\ d[c].pc \in Dispatching =>
       /\ steps[2].status = "SUCCEEDED"
       /\ \/ d[c].reviews = <<>>
          \/ \E r \in Entries(d[c].reviews) : d[c].reviews = <<r>> /\ Reviewer(d[c].step, r.provider)
  /\ d[c].mode = "al4" /\ Completing(c) =>
       steps[2].status = "SUCCEEDED" /\ ReviewedBy(d[c].step, d[c].reviews)
  /\ d[c].mode = "verdict" /\ Completing(c) /\ AssuranceLevel = "AL4" =>
       lineage[d[c].step - 1].source = "COORDINATOR"

\* What a succeeded step has of reviews.
ReviewRows(s) ==
  steps[s].status = "SUCCEEDED" =>
    /\ lineage[s].source = "COORDINATOR" =>
         /\ steps[s].stepType = "RED_TEAM" /\ steps[2].status = "SUCCEEDED"
         /\ ReviewedBy(s, lineage[s].reviews) /\ lineage[s].builder = lineage[2].provider
    /\ steps[s].stepType = "PARSE_VERDICT" /\ AssuranceLevel = "AL4" =>
         lineage[s - 1].source = "COORDINATOR"

ReviewInv == Thread /\ (\A c \in Callers : ReviewWork(c)) /\ (\A s \in Existing : ReviewRows(s))

\* What a report leads to: a provider block never advances the run, no step
\* leads to a plan, and a step of the review follows the success of the one
\* before it only.
LEMMA OutcomeFacts ==
  ASSUME NEW in, NEW t \in EngineeringStepType, NEW loops,
         NEW out, out = nextEngineeringStep(StateMachineInput(in, t, loops))
  PROVE  /\ in.providerStatus \in BlockingProviderStatus =>
              out.kind = "BLOCKED" /\ out.reason = "PROVIDER_BLOCKED"
         /\ out.kind = "NEXT_STEP" => out.nextStep \in EngineeringStepType \ {"PLAN"}
         /\ out.kind = "NEXT_STEP" /\ out.nextStep = "BUILD" => t = "PLAN"
         /\ out.kind = "NEXT_STEP" /\ out.nextStep \in Reviewing =>
              in.stepStatus = "SUCCEEDED" /\ PrecededBy(out.nextStep, t)
<1>1. PICK i : i = StateMachineInput(in, t, loops)
  OBVIOUS
<1>2. i.completedStep = t /\ i.stepStatus = in.stepStatus /\ i.providerStatus = in.providerStatus
  BY <1>1 DEF StateMachineInput
<1>3. CASE in.providerStatus \in BlockingProviderStatus
  BY <1>1, <1>2, <1>3 DEF nextEngineeringStep, Blocked
<1>4. CASE in.providerStatus \notin BlockingProviderStatus /\ t = "HUMAN_RELEASE_GATE"
  <2>1. out = onGate(i)
    BY <1>1, <1>2, <1>4 DEF nextEngineeringStep
  <2> QED
    BY <1>4, <2>1 DEF onGate, Blocked, NextStep, EngineeringStepType, Reviewing
<1>5. CASE in.providerStatus \notin BlockingProviderStatus /\ t # "HUMAN_RELEASE_GATE" /\ in.stepStatus # "SUCCEEDED"
  <2>1. out = onFailure(i)
    BY <1>1, <1>2, <1>5 DEF nextEngineeringStep
  <2> QED
    BY <1>5, <2>1 DEF onFailure, enterCorrection, Failed, Blocked, NextStep, EngineeringStepType, Reviewing
<1>6. CASE in.providerStatus \notin BlockingProviderStatus /\ t # "HUMAN_RELEASE_GATE" /\ in.stepStatus = "SUCCEEDED"
  <2>1. out = onSuccess(i)
    BY <1>1, <1>2, <1>6 DEF nextEngineeringStep
  <2>2. CASE t = "PARSE_VERDICT"
    <3>1. out = onVerdict(i)
      BY <1>2, <2>1, <2>2 DEF onSuccess
    <3> QED
      BY <1>6, <2>2, <3>1 DEF onVerdict, enterCorrection, Blocked, NextStep, EngineeringStepType, Reviewing,
         PrecededBy
  <2>3. CASE t = "REMOTE_VERIFY"
    BY <1>2, <1>6, <2>1, <2>3 DEF onSuccess, Completed
  <2>4. CASE t \notin {"PARSE_VERDICT", "REMOTE_VERIFY"}
    <3>1. out = NextStep(SuccessorOf[t])
      BY <1>2, <2>1, <2>4 DEF onSuccess
    <3>2. /\ SuccessorOf[t] \in EngineeringStepType \ {"PLAN"} /\ (SuccessorOf[t] = "BUILD" => t = "PLAN")
          /\ SuccessorOf[t] \in Reviewing => PrecededBy(SuccessorOf[t], t)
      BY <1>6, <2>4 DEF SuccessorOf, EngineeringStepType, Reviewing, PrecededBy
    <3> QED
      BY <1>6, <3>1, <3>2 DEF NextStep
  <2> QED
    BY <2>2, <2>3, <2>4
<1> QED
  BY <1>3, <1>4, <1>5, <1>6

\* Rows keep their type and cause, and a success stays one.
Evolved(rows) ==
  \A s \in Existing :
    /\ rows[s].stepType = steps[s].stepType /\ rows[s].causationId = steps[s].causationId
    /\ steps[s].status = "SUCCEEDED" => rows[s].status = "SUCCEEDED"

RunShape(r) ==
  r = [status |-> r.status, currentStepType |-> r.currentStepType,
       correctionLoopCount |-> r.correctionLoopCount, blockReasonCode |-> r.blockReasonCode]

\* Rows rewritten in place: nothing opens, and an open step stays current.
LEMMA ThreadRewritten ==
  ASSUME DispatchInv, Thread, UNCHANGED created, Evolved(steps'), RunShape(run'),
         \A s \in Existing : steps'[s].status \in NONTERMINAL_STEP_STATUSES =>
           Active(s) /\ run'.currentStepType = steps[s].stepType
  PROVE  Thread'
<1>1. Existing' = Existing /\ created \in Nat /\ 2 \in Existing
  BY ExistingRows DEF Existing, Thread
<1>2. ASSUME NEW s \in Existing PROVE Follows(s)'
  BY <1>1, <1>2 DEF Thread, Follows, Evolved
<1>3. \A s \in Existing : Active(s)' => s = created' /\ run'.currentStepType = steps'[s].stepType
  BY DEF Thread, Active, Evolved
<1>4. \A s \in Existing : steps'[s].stepType = steps[s].stepType
  BY DEF Evolved
<1> QED
  BY <1>1, <1>2, <1>3, <1>4 DEF Thread, RunShape

\* A step inserted when nothing is open any more, which becomes current.
LEMMA ThreadInserted ==
  ASSUME DispatchInv, Thread, NEW c \in Callers, NEW rows, NEW t \in EngineeringStepType, NEW cause,
         CommitWithStep(c, rows, t, cause), rows = [s \in StepId |-> rows[s]], Evolved(rows), RunShape(run'),
         run'.currentStepType = t, t \notin {"PLAN", "BUILD"},
         \A s \in Existing : rows[s].status \notin NONTERMINAL_STEP_STATUSES,
         t \in Reviewing => cause = created /\ rows[created].status = "SUCCEEDED"
                            /\ PrecededBy(t, rows[created].stepType)
  PROVE  Thread'
<1>1. MaxSteps \in Nat /\ created \in Nat /\ Existing \subseteq StepId /\ 2 \in Existing
  BY ExistingRows DEF Existing, Thread
<1>2. created < MaxSteps /\ created' = created + 1 /\ steps' = [rows EXCEPT ![created + 1] = ReadyStep(t, cause)]
  BY DEF CommitWithStep
<1>3. /\ created + 1 \in StepId /\ created + 1 \notin Existing /\ Existing' = Existing \cup {created + 1}
      /\ created \in Existing /\ (created + 1) - 1 = created
  BY <1>1, <1>2 DEF StepId, Existing, Thread
<1>4. /\ steps'[created + 1] = ReadyStep(t, cause)
      /\ \A s \in Existing : steps'[s] = rows[s]
  BY <1>1, <1>2, <1>3
<1>5. /\ ReadyStep(t, cause).stepType = t /\ ReadyStep(t, cause).status = "READY"
      /\ ReadyStep(t, cause).causationId = cause
  BY DEF ReadyStep
<1>6. ASSUME NEW s \in Existing PROVE Follows(s)'
  <2>1. Follows(s)
    BY <1>6 DEF Thread
  <2> QED
    BY <1>3, <1>4, <1>6, <2>1 DEF Follows, Evolved
<1>7. ASSUME NEW n, n = created + 1 PROVE Follows(n)'
  BY <1>3, <1>4, <1>5, <1>7 DEF Follows
<1>8. \A s \in Existing : ~Active(s)' /\ steps'[s].stepType = steps[s].stepType
  BY <1>4 DEF Active, Evolved
<1>9. ASSUME NEW s \in Existing'
      PROVE  /\ steps'[s].stepType \in EngineeringStepType
             /\ steps'[s].stepType = "PLAN" => s = 1
             /\ steps'[s].stepType = "BUILD" => s = 2
             /\ Active(s)' => s = created' /\ run'.currentStepType = steps'[s].stepType
             /\ Follows(s)'
  <2>1. CASE s \in Existing
    BY <1>6, <1>8, <2>1 DEF Thread
  <2>2. CASE s = created + 1
    BY <1>2, <1>4, <1>5, <1>7, <2>2
  <2> QED
    BY <1>3, <1>9, <2>1, <2>2
<1>10. 2 \leq created' /\ steps'[2].stepType = "BUILD"
  BY <1>1, <1>2, <1>8 DEF Thread
<1> QED
  BY <1>9, <1>10 DEF Thread, RunShape

\* Only four transactions write the rows of the run.
LEMMA RunWritten ==
  ASSUME [DispatchNext]_allVars
  PROVE  \/ UNCHANGED <<run, steps, created, lineage>>
         \/ \E c \in Callers : ReportCommit(c)
         \/ \E c \in Callers : UNCHANGED lineage /\ (CancelCommit(c) \/ ResumeCommit(c) \/ CorrectionCommit(c))
<1>1. CASE UNCHANGED allVars
  BY <1>1 DEF allVars, vars, dispatchVars
<1>2. ASSUME NEW c \in Callers, NEW mode, NEW budget, Begin(c, mode, budget)
      PROVE  UNCHANGED <<run, steps, created, lineage>>
  BY <1>2 DEF Begin, vars
<1>3. ASSUME NEW c \in Callers,
             \/ ExecuteRead(c) \/ CoordinateRead(c) \/ Route(c) \/ Consume(c)
             \/ ClaimKey(c) \/ DuplicateBlocked(c) \/ ExecutionEnds(c) \/ ReviewIn(c) \/ Quit(c)
      PROVE  UNCHANGED <<run, steps, created, lineage>>
  BY <1>3 DEF ExecuteRead, CoordinateRead, Route, Consume, ClaimKey, DuplicateBlocked, ExecutionEnds, ReviewIn,
     Quit, vars
<1>4. ASSUME NEW c \in Callers, ReportStep(c) \/ ReportReviews(c) \/ ParseVerdict(c)
      PROVE  UNCHANGED <<run, steps, created, lineage>>
  BY <1>4 DEF ReportStep, ReportReviews, ParseVerdict, Report, Proceed
<1>5. ASSUME NEW c \in Callers, RunStep(c)
      PROVE  /\ UNCHANGED lineage
             /\ \/ UNCHANGED <<run, steps, created>>
                \/ CancelCommit(c) \/ ResumeCommit(c) \/ CorrectionCommit(c)
  BY <1>5 DEF RunStep, dispatchVars, CompleteFreshRead, CompleteClaimLost, CancelRead, CancelClaimLost,
     CancelSignal, ResumeRead, CorrectionRead, Abort, Return, Proceed
<1>6. CASE (\E p \in Providers : Probe(p)) \/ Grant \/ DispatchRestart
  BY <1>6 DEF Probe, Grant, DispatchRestart, Restart, vars
<1> QED
  BY <1>1, <1>2, <1>3, <1>4, <1>5, <1>6 DEF DispatchNext

\* What is written once stays.
Stable ==
  /\ Existing \subseteq Existing' /\ Evolved(steps')
  /\ \A s \in Existing : steps[s].status = "SUCCEEDED" => lineage'[s] = lineage[s]

\* Cancel, resume and correction leave at most the last step open.
LEMMA ThreadCommits ==
  ASSUME DispatchInv, Thread, NEW c \in Callers, UNCHANGED lineage,
         CancelCommit(c) \/ ResumeCommit(c) \/ CorrectionCommit(c)
  PROVE  Thread' /\ Stable
<1>1. /\ MaxSteps \in Nat /\ created \in Nat /\ created \leq MaxSteps /\ Existing \subseteq StepId
      /\ steps = [s \in StepId |-> steps[s]] /\ \A s \in StepId : RowShape(steps[s])
  BY ExistingRows
<1>2. RunShape(run)
  BY DEF Thread, RunShape
<1>3. CASE CancelCommit(c)
  <2>1. /\ UNCHANGED created /\ run' = [run EXCEPT !.status = "CANCELLED", !.currentStepType = NONE]
        /\ \A s \in StepId : steps'[s] = IF s \in Existing /\ Active(s)
                                         THEN [steps[s] EXCEPT !.status = "CANCELLED"] ELSE steps[s]
    BY <1>3 DEF CancelCommit, Cancelled
  <2>2. RunShape(run')
    BY <1>2, <2>1 DEF RunShape
  <2>3. ASSUME NEW s \in Existing
        PROVE  /\ steps'[s].stepType = steps[s].stepType /\ steps'[s].causationId = steps[s].causationId
               /\ steps[s].status = "SUCCEEDED" => steps'[s].status = "SUCCEEDED"
               /\ steps'[s].status \notin NONTERMINAL_STEP_STATUSES
    <3>1. CASE Active(s)
      <4>1. steps'[s] = [steps[s] EXCEPT !.status = "CANCELLED"]
        BY <1>1, <2>1, <3>1
      <4> QED
        BY <1>1, <3>1, <4>1, StatusFacts DEF Active, NONTERMINAL_STEP_STATUSES
    <3>2. CASE ~Active(s)
      BY <1>1, <2>1, <3>2 DEF Active
    <3> QED
      BY <3>1, <3>2
  <2>4. Evolved(steps') /\ Existing' = Existing
    BY <2>1, <2>3 DEF Evolved, Existing
  <2> QED
    BY <2>1, <2>2, <2>3, <2>4, ThreadRewritten DEF Stable
<1>4. CASE ResumeCommit(c)
  <2>1. /\ UNCHANGED created /\ run' = [run EXCEPT !.status = "RUNNING", !.blockReasonCode = NONE]
        /\ \A s \in StepId : \/ steps'[s] = steps[s]
                             \/ steps[s].status = "WAITING" /\ steps'[s] = [steps[s] EXCEPT !.status = "READY"]
    BY <1>4 DEF ResumeCommit, ReturnedToReady
  <2>2. RunShape(run') /\ run'.currentStepType = run.currentStepType
    BY <1>2, <2>1 DEF RunShape
  <2>3. ASSUME NEW s \in Existing
        PROVE  /\ steps'[s].stepType = steps[s].stepType /\ steps'[s].causationId = steps[s].causationId
               /\ steps[s].status = "SUCCEEDED" => steps'[s].status = "SUCCEEDED"
               /\ steps'[s].status \in NONTERMINAL_STEP_STATUSES => Active(s)
    <3>1. CASE steps[s].status = "WAITING" /\ steps'[s] = [steps[s] EXCEPT !.status = "READY"]
      BY <1>1, <3>1, StatusFacts DEF Active, NONTERMINAL_STEP_STATUSES
    <3>2. CASE steps'[s] = steps[s]
      BY <3>2 DEF Active
    <3> QED
      BY <1>1, <2>1, <3>1, <3>2
  <2>4. Evolved(steps') /\ Existing' = Existing
    BY <2>1, <2>3 DEF Evolved, Existing
  <2>5. \A s \in Existing : steps'[s].status \in NONTERMINAL_STEP_STATUSES =>
          Active(s) /\ run'.currentStepType = steps[s].stepType
    BY <2>2, <2>3 DEF Thread
  <2> QED
    BY <2>1, <2>2, <2>4, <2>5, ThreadRewritten DEF Stable
<1>5. CASE CorrectionCommit(c)
  <2>1. /\ run.currentStepType = NONE /\ CommitWithStep(c, steps, "CORRECTION", op[c].step)
        /\ run' = [run EXCEPT !.status = "RUNNING", !.currentStepType = "CORRECTION",
                              !.blockReasonCode = NONE, !.correctionLoopCount = @ + 1]
    BY <1>5 DEF CorrectionCommit, AwaitsDecision
  <2>2. RunShape(run') /\ run'.currentStepType = "CORRECTION"
    <3>1. PICK n : n = run.correctionLoopCount + 1
      OBVIOUS
    <3>2. PICK y : y = [run EXCEPT !.status = "RUNNING", !.currentStepType = "CORRECTION"]
      OBVIOUS
    <3>3. y = [status |-> "RUNNING", currentStepType |-> "CORRECTION",
               correctionLoopCount |-> run.correctionLoopCount, blockReasonCode |-> run.blockReasonCode]
      BY <1>2, <3>2 DEF RunShape
    <3>4. run' = [y EXCEPT !.blockReasonCode = NONE, !.correctionLoopCount = n]
      BY <2>1, <3>1, <3>2
    <3>5. run' = [status |-> "RUNNING", currentStepType |-> "CORRECTION",
                  correctionLoopCount |-> n, blockReasonCode |-> NONE]
      BY <3>3, <3>4
    <3> QED
      BY <3>5 DEF RunShape
  <2>3. \A s \in Existing : steps[s].status \notin NONTERMINAL_STEP_STATUSES
    BY <2>1 DEF Thread, Active, EngineeringStepType, NONE
  <2>4. Evolved(steps)
    BY DEF Evolved
  <2>5. "CORRECTION" \in EngineeringStepType /\ "CORRECTION" \notin Reviewing
    BY DEF EngineeringStepType, Reviewing
  <2>6. Thread'
    BY <1>1, <2>1, <2>2, <2>3, <2>4, <2>5, ThreadInserted
  <2>7. Existing \subseteq Existing' /\ \A s \in Existing : steps'[s] = steps[s]
    <3>1. created < MaxSteps /\ created' = created + 1
          /\ steps' = [steps EXCEPT ![created + 1] = ReadyStep("CORRECTION", op[c].step)]
      BY <2>1 DEF CommitWithStep
    <3>2. created + 1 \in StepId /\ created + 1 \notin Existing /\ Existing \subseteq Existing'
      BY <1>1, <3>1 DEF StepId, Existing
    <3> QED
      BY <1>1, <3>1, <3>2
  <2> QED
    BY <2>6, <2>7 DEF Stable, Evolved
<1> QED
  BY <1>3, <1>4, <1>5

\* What a transition makes of the run row.
LEMMA RunTransitioned ==
  ASSUME NEW x, x = run, RunShape(x), NEW out, NEW t, NEW loops, NEW r, r = transitionedRun(out, t, loops)
  PROVE  /\ RunShape(r)
         /\ out.kind = "NEXT_STEP" => r.currentStepType = out.nextStep
         /\ out.kind = "BLOCKED" /\ out.reason = "PROVIDER_BLOCKED" => r.currentStepType = t
<1>1. CASE out.kind = "NEXT_STEP"
  <2>1. PICK n : n = IF out.nextStep = "CORRECTION" THEN x.correctionLoopCount + 1 ELSE loops
    OBVIOUS
  <2>2. PICK y : y = [x EXCEPT !.status = "RUNNING"]
    OBVIOUS
  <2>3. y = [status |-> "RUNNING", currentStepType |-> x.currentStepType,
             correctionLoopCount |-> x.correctionLoopCount, blockReasonCode |-> x.blockReasonCode]
    BY <2>2 DEF RunShape
  <2>4. r = [y EXCEPT !.currentStepType = out.nextStep, !.correctionLoopCount = n]
    BY <1>1, <2>1, <2>2 DEF transitionedRun
  <2>5. r = [status |-> "RUNNING", currentStepType |-> out.nextStep,
             correctionLoopCount |-> n, blockReasonCode |-> x.blockReasonCode]
    BY <2>3, <2>4
  <2> QED
    BY <1>1, <2>5 DEF RunShape
<1>2. CASE out.kind = "BLOCKED"
  <2>1. PICK n : n = IF out.reason = "PROVIDER_BLOCKED" THEN t ELSE NONE
    OBVIOUS
  <2>2. PICK y : y = [x EXCEPT !.status = "BLOCKED"]
    OBVIOUS
  <2>3. y = [status |-> "BLOCKED", currentStepType |-> x.currentStepType,
             correctionLoopCount |-> x.correctionLoopCount, blockReasonCode |-> x.blockReasonCode]
    BY <2>2 DEF RunShape
  <2>4. r = [y EXCEPT !.blockReasonCode = out.reason, !.currentStepType = n]
    BY <1>2, <2>1, <2>2 DEF transitionedRun
  <2>5. r = [status |-> "BLOCKED", currentStepType |-> n,
             correctionLoopCount |-> x.correctionLoopCount, blockReasonCode |-> out.reason]
    BY <2>3, <2>4
  <2> QED
    BY <1>2, <2>1, <2>5 DEF RunShape
<1>3. CASE out.kind \notin {"NEXT_STEP", "BLOCKED"}
  <2>1. r = [x EXCEPT !.status = out.kind, !.currentStepType = NONE]
    BY <1>3 DEF transitionedRun
  <2> QED
    BY <1>3, <2>1 DEF RunShape
<1> QED
  BY <1>1, <1>2, <1>3

\* A report closes the open step before the next is inserted.
LEMMA ThreadReported ==
  ASSUME DispatchInv, Thread, NEW c \in Callers, ReviewWork(c), ReportCommit(c)
  PROVE  Thread' /\ Stable
<1>1. /\ MaxSteps \in Nat /\ created \in Nat /\ created \leq MaxSteps /\ Existing \subseteq StepId
      /\ steps = [s \in StepId |-> steps[s]] /\ \A s \in StepId : RowShape(steps[s])
  BY ExistingRows
<1>2. PICK rows : rows = RowsReported(c)
  OBVIOUS
<1>3. PICK out : out = OutcomeReported(c)
  OBVIOUS
<1>4. /\ Completing(c) /\ d[c].step \in Existing /\ steps[d[c].step].status = "READY"
      /\ rows = [s \in StepId |-> rows[s]]
      /\ \A s \in StepId : /\ RowShape(rows[s]) /\ rows[s].stepType = steps[s].stepType
                           /\ rows[s].causationId = steps[s].causationId
                           /\ s # d[c].step => rows[s] = steps[s]
      /\ rows[d[c].step].status =
           IF op[c].input.providerStatus \in BlockingProviderStatus THEN "WAITING" ELSE op[c].input.stepStatus
      /\ run' = transitionedRun(out, TypeOf(c), op[c].loops)
      /\ out.kind = "NEXT_STEP" => CommitWithStep(c, rows, out.nextStep, d[c].step)
      /\ out.kind # "NEXT_STEP" => steps' = rows /\ UNCHANGED created /\ Commit(c)
  BY <1>2, <1>3, ReportedRows
<1>5. op[c].input.stepStatus \in {"SUCCEEDED", "FAILED"}
  BY <1>4 DEF ReviewWork
<1>6. Active(d[c].step) /\ d[c].step = created /\ TypeOf(c) \in EngineeringStepType /\ TypeOf(c) = steps[created].stepType
  BY <1>4 DEF Active, NONTERMINAL_STEP_STATUSES, Thread, TypeOf
<1>7. TypeOf(c) # "PLAN"
  BY <1>1, <1>4, <1>6 DEF Thread
<1>8. /\ op[c].input.providerStatus \in BlockingProviderStatus => out.kind = "BLOCKED" /\ out.reason = "PROVIDER_BLOCKED"
      /\ out.kind = "NEXT_STEP" => out.nextStep \in EngineeringStepType \ {"PLAN", "BUILD"}
      /\ out.kind = "NEXT_STEP" /\ out.nextStep \in Reviewing =>
           op[c].input.stepStatus = "SUCCEEDED" /\ PrecededBy(out.nextStep, TypeOf(c))
  BY <1>3, <1>6, <1>7, OutcomeFacts DEF OutcomeReported
<1>9. /\ RunShape(run')
      /\ out.kind = "NEXT_STEP" => run'.currentStepType = out.nextStep
      /\ out.kind = "BLOCKED" /\ out.reason = "PROVIDER_BLOCKED" => run'.currentStepType = TypeOf(c)
  <2>1. PICK x : x = run
    OBVIOUS
  <2>2. RunShape(x)
    BY <2>1 DEF RunShape, Thread
  <2>3. PICK r : r = transitionedRun(out, TypeOf(c), op[c].loops)
    OBVIOUS
  <2>4. /\ RunShape(r)
        /\ out.kind = "NEXT_STEP" => r.currentStepType = out.nextStep
        /\ out.kind = "BLOCKED" /\ out.reason = "PROVIDER_BLOCKED" => r.currentStepType = TypeOf(c)
    BY <2>1, <2>2, <2>3, RunTransitioned
  <2>5. run' = r
    BY <1>4, <2>3
  <2> QED
    BY <2>4, <2>5
<1>10. Evolved(rows)
  BY <1>1, <1>4 DEF Evolved
<1>11. ASSUME NEW s \in Existing, rows[s].status \in NONTERMINAL_STEP_STATUSES
       PROVE  s = created /\ op[c].input.providerStatus \in BlockingProviderStatus
  <2>1. CASE s = d[c].step
    BY <1>4, <1>5, <1>6, <1>11, <2>1 DEF NONTERMINAL_STEP_STATUSES
  <2>2. CASE s # d[c].step
    <3>1. Active(s)
      BY <1>1, <1>4, <1>11, <2>2 DEF Active
    <3> QED
      BY <1>6, <2>2, <3>1 DEF Thread
  <2> QED
    BY <2>1, <2>2
<1>12. \A s \in Existing : steps[s].status = "SUCCEEDED" => lineage'[s] = lineage[s]
  <2>1. lineage' = [lineage EXCEPT ![d[c].step] = evidenceOf(c)] /\ lineage = [s \in StepId |-> lineage[s]]
    BY DEF ReportCommit, DispatchInv, DispatchTypes
  <2> QED
    BY <1>1, <1>4, <2>1
<1>13. CASE out.kind = "NEXT_STEP"
  <2>1. CommitWithStep(c, rows, out.nextStep, d[c].step)
    BY <1>4, <1>13
  <2>2. \A s \in Existing : rows[s].status \notin NONTERMINAL_STEP_STATUSES
    BY <1>8, <1>11, <1>13
  <2>3. out.nextStep \in Reviewing =>
          /\ d[c].step = created /\ rows[created].status = "SUCCEEDED"
          /\ PrecededBy(out.nextStep, rows[created].stepType)
    BY <1>1, <1>4, <1>6, <1>8, <1>13
  <2>4. Thread'
    BY <1>4, <1>8, <1>9, <1>10, <1>13, <2>1, <2>2, <2>3, ThreadInserted
  <2>5. Existing \subseteq Existing' /\ \A s \in Existing : steps'[s] = rows[s]
    <3>1. /\ created < MaxSteps /\ created' = created + 1
          /\ steps' = [rows EXCEPT ![created + 1] = ReadyStep(out.nextStep, d[c].step)]
      BY <2>1 DEF CommitWithStep
    <3>2. created + 1 \in StepId /\ created + 1 \notin Existing /\ Existing \subseteq Existing'
      BY <1>1, <3>1 DEF StepId, Existing
    <3> QED
      BY <1>1, <1>4, <3>1, <3>2
  <2> QED
    BY <1>10, <1>12, <2>4, <2>5 DEF Stable, Evolved
<1>14. CASE out.kind # "NEXT_STEP"
  <2>1. steps' = rows /\ UNCHANGED created /\ Existing' = Existing
    BY <1>4, <1>14 DEF Existing
  <2>2. \A s \in Existing : steps'[s].status \in NONTERMINAL_STEP_STATUSES =>
          Active(s) /\ run'.currentStepType = steps[s].stepType
    BY <1>6, <1>8, <1>9, <1>11, <2>1
  <2>3. Evolved(steps')
    BY <1>10, <2>1
  <2>4. Thread'
    BY <1>9, <2>1, <2>2, <2>3, ThreadRewritten
  <2> QED
    BY <1>12, <2>1, <2>3, <2>4 DEF Stable
<1> QED
  BY <1>13, <1>14

\* Every step keeps the thread, and what was settled stays settled.
LEMMA ThreadStep ==
  ASSUME DispatchInv, ReviewInv, [DispatchNext]_allVars
  PROVE  Thread' /\ Stable
<1>1. CASE UNCHANGED <<run, steps, created, lineage>>
  <2>1. Thread'
    BY <1>1 DEF ReviewInv, Thread, Follows, Active, Existing
  <2>2. Stable
    BY <1>1 DEF Stable, Evolved, Existing
  <2> QED
    BY <2>1, <2>2
<1>2. CASE \E c \in Callers : ReportCommit(c)
  BY <1>2, ThreadReported DEF ReviewInv
<1>3. CASE \E c \in Callers : UNCHANGED lineage /\ (CancelCommit(c) \/ ResumeCommit(c) \/ CorrectionCommit(c))
  BY <1>3, ThreadCommits DEF ReviewInv
<1> QED
  BY <1>1, <1>2, <1>3, RunWritten

-----------------------------------------------------------------------------
(* The reviews.                                                            *)

\* The build is step 2.
LEMMA BuildExists ==
  ASSUME DispatchInv, Thread
  PROVE  2 \in Existing /\ created \in Nat /\ Existing \subseteq Nat
BY ExistingRows DEF Thread, Existing

\* An execution that counts as a review keeps counting as one.
LEMMA ReviewersKept ==
  ASSUME DispatchInv, Thread, Stable, ledger \subseteq ledger', steps[2].status = "SUCCEEDED", NEW s, NEW reviews
  PROVE  /\ \A p : Reviewer(s, p) => Reviewer(s, p)'
         /\ ReviewedBy(s, reviews) => ReviewedBy(s, reviews)'
         /\ lineage'[2] = lineage[2] /\ steps'[2].status = "SUCCEEDED"
<1>1. lineage'[2] = lineage[2] /\ steps'[2].status = "SUCCEEDED"
  BY BuildExists DEF Stable, Evolved
<1>2. \A p : Reviewer(s, p) => Reviewer(s, p)'
  BY <1>1 DEF Reviewer
<1> QED
  BY <1>1, <1>2 DEF ReviewedBy

\* A success keeps its reviews.
LEMMA ReviewRowsKept ==
  ASSUME DispatchInv, ReviewInv, Stable, ledger \subseteq ledger', NEW s \in Existing, steps[s].status = "SUCCEEDED"
  PROVE  ReviewRows(s)'
<1>1. Thread /\ ReviewRows(s) /\ Follows(s)
  BY DEF ReviewInv, Thread
<1>2. lineage'[s] = lineage[s] /\ steps'[s].stepType = steps[s].stepType
  BY DEF Stable, Evolved
<1>3. (lineage[s].source = "COORDINATOR" =>
         /\ steps[s].stepType = "RED_TEAM" /\ steps[2].status = "SUCCEEDED"
         /\ ReviewedBy(s, lineage[s].reviews) /\ lineage[s].builder = lineage[2].provider)'
  <2>1. CASE lineage[s].source = "COORDINATOR"
    <3>1. PICK reviews : reviews = lineage[s].reviews
      OBVIOUS
    <3>2. /\ steps[s].stepType = "RED_TEAM" /\ steps[2].status = "SUCCEEDED"
          /\ ReviewedBy(s, reviews) /\ lineage[s].builder = lineage[2].provider
      BY <1>1, <2>1, <3>1 DEF ReviewRows
    <3>3. ReviewedBy(s, reviews)' /\ lineage'[2] = lineage[2] /\ steps'[2].status = "SUCCEEDED"
      BY <1>1, <3>2, ReviewersKept
    <3>4. reviews = lineage'[s].reviews
      BY <1>2, <3>1
    <3> QED
      BY <1>2, <3>2, <3>3, <3>4 DEF ReviewedBy, Entries
  <2>2. CASE lineage[s].source # "COORDINATOR"
    BY <1>2, <2>2
  <2> QED
    BY <2>1, <2>2
<1>4. (steps[s].stepType = "PARSE_VERDICT" /\ AssuranceLevel = "AL4" => lineage[s - 1].source = "COORDINATOR")'
  <2>1. CASE steps[s].stepType = "PARSE_VERDICT"
    <3>1. s - 1 \in Existing /\ steps[s - 1].status = "SUCCEEDED"
      BY <1>1, <2>1 DEF Follows, Reviewing
    <3>2. lineage'[s - 1] = lineage[s - 1]
      BY <3>1 DEF Stable
    <3> QED
      BY <1>1, <2>1, <3>2 DEF ReviewRows
  <2>2. CASE steps[s].stepType # "PARSE_VERDICT"
    BY <1>2, <2>2
  <2> QED
    BY <2>1, <2>2
<1> QED
  BY <1>3, <1>4 DEF ReviewRows

\* The step is under way and the worker keeps its mode, its step and its reviews.
LEMMA ReviewWorkKept ==
  ASSUME DispatchInv, ReviewInv, Stable, ledger \subseteq ledger', NEW e \in Callers,
         d'[e].mode = d[e].mode, d'[e].step = d[e].step, d'[e].reviews = d[e].reviews,
         d'[e].pc = d[e].pc \/ (d[e].pc \in Dispatching /\ d'[e].pc \in Dispatching), NoReport(e)
  PROVE  ReviewWork(e)'
<1>1. ReviewWork(e) /\ WorkInv(e) /\ Thread
  BY DEF ReviewInv, DispatchInv
<1>2. d[e].pc \in Dispatching \/ Completing(e) => d[e].step \in Existing /\ TypeOf(e)' = TypeOf(e)
  BY <1>1 DEF WorkInv, TypeOf, Stable, Evolved
<1>3. (d[e].pc \in Dispatching)' <=> d[e].pc \in Dispatching
  OBVIOUS
<1>4. (d[e].pc = "read" => d[e].reviews = <<>>)'
  BY <1>1 DEF ReviewWork, Dispatching
<1>5. (Completing(e) => op[e].input.stepStatus \in {"SUCCEEDED", "FAILED"})'
  BY <1>1 DEF ReviewWork, NoReport
<1>6. (d[e].mode = "step" /\ (d[e].pc \in Dispatching \/ Completing(e)) => TypeOf(e) # "PARSE_VERDICT")'
  BY <1>1, <1>2, <1>3 DEF ReviewWork, NoReport
<1>7. (d[e].mode = "al4" /\ d[e].pc \in Dispatching =>
         /\ steps[2].status = "SUCCEEDED"
         /\ \/ d[e].reviews = <<>>
            \/ \E r \in Entries(d[e].reviews) : d[e].reviews = <<r>> /\ Reviewer(d[e].step, r.provider))'
  <2>1. CASE d[e].mode = "al4" /\ d[e].pc \in Dispatching
    <3>1. /\ steps[2].status = "SUCCEEDED"
          /\ \/ d[e].reviews = <<>>
             \/ \E r \in Entries(d[e].reviews) : d[e].reviews = <<r>> /\ Reviewer(d[e].step, r.provider)
      BY <1>1, <2>1 DEF ReviewWork
    <3>2. PICK s : s = d[e].step
      OBVIOUS
    <3>3. steps'[2].status = "SUCCEEDED" /\ \A p : Reviewer(s, p) => Reviewer(s, p)'
      BY <1>1, <3>1, ReviewersKept
    <3>4. s = d'[e].step
      BY <3>2
    <3>5. \A p : Reviewer(d[e].step, p) => Reviewer(d[e].step, p)'
      BY <3>2, <3>3, <3>4 DEF Reviewer
    <3> QED
      BY <3>1, <3>3, <3>5 DEF Entries
  <2>2. CASE ~(d[e].mode = "al4" /\ d[e].pc \in Dispatching)
    BY <1>3, <2>2
  <2> QED
    BY <2>1, <2>2
<1>8. (d[e].mode = "al4" /\ Completing(e) =>
         steps[2].status = "SUCCEEDED" /\ ReviewedBy(d[e].step, d[e].reviews))'
  <2>1. CASE d[e].mode = "al4" /\ Completing(e)
    <3>1. steps[2].status = "SUCCEEDED" /\ ReviewedBy(d[e].step, d[e].reviews)
      BY <1>1, <2>1 DEF ReviewWork
    <3>2. PICK s : s = d[e].step
      OBVIOUS
    <3>3. PICK reviews : reviews = d[e].reviews
      OBVIOUS
    <3>4. steps'[2].status = "SUCCEEDED" /\ ReviewedBy(s, reviews)'
      BY <1>1, <3>1, <3>2, <3>3, ReviewersKept
    <3>5. s = d'[e].step /\ reviews = d'[e].reviews
      BY <3>2, <3>3
    <3>6. ReviewedBy(d[e].step, d[e].reviews)'
      <4>1. PICK q \in Entries(reviews), r \in Entries(reviews) :
              /\ reviews = <<q, r>> /\ Reviewer(s, q.provider)' /\ Reviewer(s, r.provider)'
              /\ q.provider # r.provider /\ ModelFamily[q.provider] # ModelFamily[r.provider]
        BY <3>4 DEF ReviewedBy, Entries
      <4>2. Reviewer(d[e].step, q.provider)' /\ Reviewer(d[e].step, r.provider)'
        BY <3>5, <4>1 DEF Reviewer
      <4>3. q \in Entries(d[e].reviews)' /\ r \in Entries(d[e].reviews)'
        BY <3>5, <4>1 DEF Entries
      <4> QED
        BY <3>5, <4>1, <4>2, <4>3 DEF ReviewedBy
    <3> QED
      BY <3>4, <3>6
  <2>2. CASE ~(d[e].mode = "al4" /\ Completing(e))
    BY <2>2 DEF NoReport
  <2> QED
    BY <2>1, <2>2
<1>9. (d[e].mode = "verdict" /\ Completing(e) /\ AssuranceLevel = "AL4" =>
         lineage[d[e].step - 1].source = "COORDINATOR")'
  <2>1. CASE d[e].mode = "verdict" /\ Completing(e)
    <3>1. d[e].step \in Existing /\ TypeOf(e) = "PARSE_VERDICT"
      BY <1>1, <2>1 DEF WorkInv
    <3>2. d[e].step - 1 \in Existing /\ steps[d[e].step - 1].status = "SUCCEEDED"
      BY <1>1, <3>1 DEF Thread, Follows, Reviewing, TypeOf
    <3>3. lineage'[d[e].step - 1] = lineage[d[e].step - 1]
      BY <3>2 DEF Stable
    <3> QED
      BY <1>1, <2>1, <3>3 DEF ReviewWork
  <2>2. CASE ~(d[e].mode = "verdict" /\ Completing(e))
    BY <2>2 DEF NoReport
  <2> QED
    BY <2>1, <2>2
<1> QED
  BY <1>4, <1>5, <1>6, <1>7, <1>8, <1>9 DEF ReviewWork

\* A step of one worker, which leaves the reviews of the others alone.
LEMMA ReviewStep ==
  ASSUME DispatchInv, ReviewInv, Thread', Stable, ledger \subseteq ledger', NEW c \in Callers, NEW w, Work(c, w),
         \A e \in Callers : e # c => NoReport(e), ReviewWork(c)',
         \A s \in Existing' : steps'[s].status = "SUCCEEDED" =>
           ReviewRows(s)' \/ (s \in Existing /\ steps[s].status = "SUCCEEDED")
  PROVE  ReviewInv'
<1>1. \A e \in Callers : e # c => d'[e] = d[e]
  BY DEF Work, DispatchInv, DispatchTypes
<1>2. \A e \in Callers : ReviewWork(e)'
  BY <1>1, ReviewWorkKept
<1>3. \A s \in Existing' : ReviewRows(s)'
  <2>1. ASSUME NEW s \in Existing' PROVE ReviewRows(s)'
    <3>1. CASE steps'[s].status # "SUCCEEDED"
      BY <3>1 DEF ReviewRows
    <3>2. CASE steps'[s].status = "SUCCEEDED"
      BY <2>1, <3>2, ReviewRowsKept
    <3> QED
      BY <3>1, <3>2
  <2> QED
    BY <2>1
<1> QED
  BY <1>2, <1>3 DEF ReviewInv

\* A step of one worker that writes no row of the run.
LEMMA ReviewQuiet ==
  ASSUME DispatchInv, ReviewInv, Thread', Stable, ledger \subseteq ledger', NEW c \in Callers, NEW w, Work(c, w),
         UNCHANGED <<steps, created>>, \A e \in Callers : e # c => NoReport(e), ReviewWork(c)'
  PROVE  ReviewInv'
<1>1. \A s \in Existing' : steps'[s].status = "SUCCEEDED" => s \in Existing /\ steps[s].status = "SUCCEEDED"
  BY DEF Existing
<1> QED
  BY <1>1, ReviewStep

\* The steps of a dispatch, from the route to the result, write no review.
LEMMA DispatchesReview ==
  ASSUME DispatchInv, ReviewInv, Thread', Stable, NEW c \in Callers,
         Route(c) \/ Consume(c) \/ ClaimKey(c) \/ DuplicateBlocked(c) \/ ExecutionEnds(c)
  PROVE  ReviewInv'
<1>1. WorkShape(d[c])
  BY WorkFacts
<1>2. UNCHANGED <<steps, created, op>> /\ ledger \subseteq ledger'
  BY DEF Route, Consume, ClaimKey, DuplicateBlocked, ExecutionEnds, vars
<1>3. PICK w : /\ Work(c, w) /\ w.mode = d[c].mode /\ w.step = d[c].step /\ w.reviews = d[c].reviews
               /\ d[c].pc \in Dispatching /\ w.pc \in Dispatching
  <2>1. CASE Route(c)
    <3>1. PICK p \in Providers :
            Work(c, [d[c] EXCEPT !.pc = IF d[c].approval # 0 THEN "consume" ELSE "claim", !.provider = p])
      BY <2>1 DEF Route
    <3>2. PICK pc : pc = IF d[c].approval # 0 THEN "consume" ELSE "claim"
      OBVIOUS
    <3>3. PICK w : w = [d[c] EXCEPT !.pc = pc, !.provider = p]
      OBVIOUS
    <3>4. w = [mode |-> d[c].mode, pc |-> pc, step |-> d[c].step, approval |-> d[c].approval, provider |-> p,
               status |-> d[c].status, output |-> d[c].output, reviews |-> d[c].reviews, budget |-> d[c].budget]
      BY <1>1, <3>3, SetProvider
    <3>5. Work(c, w) /\ d[c].pc = "route" /\ pc \in {"consume", "claim"}
      BY <2>1, <3>1, <3>2, <3>3 DEF Route
    <3> QED
      BY <3>4, <3>5 DEF Dispatching
  <2>2. CASE Consume(c) \/ ClaimKey(c)
    <3>1. PICK pc : /\ Work(c, [d[c] EXCEPT !.pc = pc]) /\ pc \in Dispatching /\ d[c].pc \in Dispatching
      BY <2>2 DEF Consume, ClaimKey, Dispatching
    <3>2. PICK w : w = [d[c] EXCEPT !.pc = pc]
      OBVIOUS
    <3>3. w = [mode |-> d[c].mode, pc |-> pc, step |-> d[c].step, approval |-> d[c].approval,
               provider |-> d[c].provider, status |-> d[c].status, output |-> d[c].output,
               reviews |-> d[c].reviews, budget |-> d[c].budget]
      BY <1>1, <3>2, SetPc
    <3> QED
      BY <3>1, <3>2, <3>3
  <2>3. CASE DuplicateBlocked(c)
    <3>1. Work(c, [d[c] EXCEPT !.pc = "result", !.status = "POLICY_BLOCKED"]) /\ d[c].pc = "claim"
      BY <2>3 DEF DuplicateBlocked
    <3>2. PICK w : w = [d[c] EXCEPT !.pc = "result", !.status = "POLICY_BLOCKED"]
      OBVIOUS
    <3>3. w = [mode |-> d[c].mode, pc |-> "result", step |-> d[c].step, approval |-> d[c].approval,
               provider |-> d[c].provider, status |-> "POLICY_BLOCKED", output |-> d[c].output,
               reviews |-> d[c].reviews, budget |-> d[c].budget]
      BY <1>1, <3>2, SetStatus
    <3> QED
      BY <3>1, <3>2, <3>3 DEF Dispatching
  <2>4. CASE ExecutionEnds(c)
    <3>1. PICK status \in {"SUCCEEDED", "FAILED", "QUOTA_BLOCKED"}, output \in Outputs[TypeOf(c)] :
            Work(c, [d[c] EXCEPT !.pc = "result", !.status = status, !.output = output])
      BY <2>4 DEF ExecutionEnds
    <3>2. PICK w : w = [d[c] EXCEPT !.pc = "result", !.status = status, !.output = output]
      OBVIOUS
    <3>3. w = [mode |-> d[c].mode, pc |-> "result", step |-> d[c].step, approval |-> d[c].approval,
               provider |-> d[c].provider, status |-> status, output |-> output,
               reviews |-> d[c].reviews, budget |-> d[c].budget]
      BY <1>1, <3>2, SetResult
    <3>4. d[c].pc = "execute" /\ Work(c, w)
      BY <2>4, <3>1, <3>2 DEF ExecutionEnds
    <3> QED
      BY <3>3, <3>4 DEF Dispatching
  <2> QED
    BY <2>1, <2>2, <2>3, <2>4
<1>4. d'[c] = w /\ \A e \in Callers : NoReport(e)
  BY <1>2, <1>3, WorkFacts, CallsSame
<1>5. ReviewWork(c)'
  BY <1>2, <1>3, <1>4, ReviewWorkKept
<1> QED
  BY <1>2, <1>3, <1>4, <1>5, ReviewQuiet

\* A worker that starts or stops has no review yet.
LEMMA StartsReview ==
  ASSUME DispatchInv, ReviewInv, Thread', Stable, NEW c \in Callers,
         NEW w, Work(c, w), w.pc \in {"idle", "read"}, w.reviews = <<>>, op[c] = Idle,
         UNCHANGED <<steps, created, op>>, ledger \subseteq ledger'
  PROVE  ReviewInv'
<1>1. d'[c] = w /\ ~Completing(c)' /\ \A e \in Callers : NoReport(e)
  BY WorkFacts, CallsSame DEF Completing, Idle
<1>2. ReviewWork(c)'
  BY <1>1 DEF ReviewWork, Dispatching
<1> QED
  BY <1>1, <1>2, ReviewQuiet

LEMMA ExecuteReadReview ==
  ASSUME DispatchInv, ReviewInv, Thread', Stable, NEW c \in Callers, ExecuteRead(c)
  PROVE  ReviewInv'
<1>1. d[c].mode = "step" /\ d[c].pc = "read" /\ UNCHANGED <<steps, created, op, ledger>>
  BY DEF ExecuteRead, vars
<1>2. PICK s \in ReadyCurrent(AgentSteps) :
        Work(c, [d[c] EXCEPT !.pc = "route", !.step = s,
                   !.approval = IF NeedsApproval(s) THEN CHOOSE a \in OpenApprovals : TRUE ELSE 0])
  BY DEF ExecuteRead
<1>3. PICK a : a = IF NeedsApproval(s) THEN CHOOSE b \in OpenApprovals : TRUE ELSE 0
  OBVIOUS
<1>4. PICK w : w = [d[c] EXCEPT !.pc = "route", !.step = s, !.approval = a]
  OBVIOUS
<1>5. w = [mode |-> d[c].mode, pc |-> "route", step |-> s, approval |-> a, provider |-> d[c].provider,
           status |-> d[c].status, output |-> d[c].output, reviews |-> d[c].reviews, budget |-> d[c].budget]
  BY <1>4, WorkFacts, SetTaken
<1>6. Work(c, w)
  BY <1>2, <1>3, <1>4
<1>7. d'[c] = w /\ ~Completing(c)' /\ \A e \in Callers : NoReport(e)
  BY <1>1, <1>6, WorkFacts, CallsSame DEF Completing
<1>8. TypeOf(c)' # "PARSE_VERDICT"
  BY <1>1, <1>2, <1>5, <1>7 DEF TypeOf, ReadyCurrent, AgentSteps, capabilityForStep, EngineeringStepType
<1>9. ReviewWork(c)'
  BY <1>1, <1>5, <1>7, <1>8 DEF ReviewWork
<1> QED
  BY <1>1, <1>6, <1>7, <1>9, ReviewQuiet

\* The builder is the provider that the build recorded.
LEMMA BuilderKnown ==
  ASSUME DispatchInv, Thread
  PROVE  /\ builderLineage # NONE => steps[2].status = "SUCCEEDED"
         /\ steps[2].status = "SUCCEEDED" =>
              builderLineage = lineage[2].provider /\ Latest(Succeeded("BUILD")) = 2
<1>1. 2 \in Existing /\ steps[2].stepType = "BUILD" /\ \A s \in Existing : steps[s].stepType = "BUILD" => s = 2
  BY BuildExists DEF Thread
<1>2. steps[2].status = "SUCCEEDED" => Succeeded("BUILD") = {2}
  BY <1>1 DEF Succeeded
<1>3. steps[2].status # "SUCCEEDED" => Succeeded("BUILD") = {}
  BY <1>1 DEF Succeeded
<1>4. Succeeded("BUILD") = {2} => Latest(Succeeded("BUILD")) = 2
  BY DEF Latest
<1> QED
  BY <1>2, <1>3, <1>4 DEF builderLineage

LEMMA CoordinateReadReview ==
  ASSUME DispatchInv, ReviewInv, Thread', Stable, NEW c \in Callers, CoordinateRead(c)
  PROVE  ReviewInv'
<1>1. /\ d[c].mode = "al4" /\ d[c].pc = "read" /\ UNCHANGED <<steps, created, op, ledger>>
      /\ builderLineage # NONE
  BY DEF CoordinateRead, vars
<1>2. steps[2].status = "SUCCEEDED" /\ d[c].reviews = <<>>
  BY <1>1, BuilderKnown DEF ReviewInv, ReviewWork
<1>3. PICK s \in ReadyCurrent({"RED_TEAM"}) : Work(c, [d[c] EXCEPT !.pc = "route", !.step = s])
  BY DEF CoordinateRead
<1>4. PICK w : w = [d[c] EXCEPT !.pc = "route", !.step = s]
  OBVIOUS
<1>5. w = [mode |-> d[c].mode, pc |-> "route", step |-> s, approval |-> d[c].approval, provider |-> d[c].provider,
           status |-> d[c].status, output |-> d[c].output, reviews |-> d[c].reviews, budget |-> d[c].budget]
  BY <1>4, WorkFacts, SetStep
<1>6. Work(c, w)
  BY <1>3, <1>4
<1>7. d'[c] = w /\ ~Completing(c)' /\ \A e \in Callers : NoReport(e)
  BY <1>1, <1>6, WorkFacts, CallsSame DEF Completing
<1>8. ReviewWork(c)'
  BY <1>1, <1>2, <1>5, <1>7 DEF ReviewWork
<1> QED
  BY <1>1, <1>6, <1>7, <1>8, ReviewQuiet

LEMMA ReportStepReview ==
  ASSUME DispatchInv, ReviewInv, Thread', Stable, NEW c \in Callers, ReportStep(c)
  PROVE  ReviewInv'
<1>1. /\ d[c].mode = "step" /\ d[c].pc = "result" /\ UNCHANGED ledger
      /\ Work(c, [d[c] EXCEPT !.pc = "report"])
  BY DEF ReportStep
<1>2. /\ op' = [e \in Callers |-> op'[e]] /\ \A e \in Callers : CallShape(op'[e]) /\ (e # c => NoReport(e))
      /\ op'[c].step = d[c].step /\ op'[c].input = completionOf(TypeOf(c), d[c].status, d[c].output)
      /\ UNCHANGED <<steps, created>>
  BY ReportCall DEF ReportStep, Report
<1>3. PICK w : w = [d[c] EXCEPT !.pc = "report"]
  OBVIOUS
<1>4. w = [mode |-> d[c].mode, pc |-> "report", step |-> d[c].step, approval |-> d[c].approval,
           provider |-> d[c].provider, status |-> d[c].status, output |-> d[c].output,
           reviews |-> d[c].reviews, budget |-> d[c].budget]
  BY <1>3, WorkFacts, SetPc
<1>5. Work(c, w) /\ d'[c] = w
  BY <1>1, <1>3, WorkFacts
<1>6. op'[c].input.stepStatus \in {"SUCCEEDED", "FAILED"}
  BY <1>2 DEF completionOf, blockedCompletion, Completion
<1>7. TypeOf(c)' # "PARSE_VERDICT"
  <2>1. TypeOf(c) # "PARSE_VERDICT"
    BY <1>1 DEF ReviewInv, ReviewWork, Dispatching
  <2> QED
    BY <1>2, <1>4, <1>5, <2>1 DEF TypeOf
<1>8. ReviewWork(c)'
  BY <1>1, <1>4, <1>5, <1>6, <1>7 DEF ReviewWork, Dispatching
<1> QED
  BY <1>1, <1>2, <1>5, <1>8, ReviewQuiet

LEMMA ReviewInReview ==
  ASSUME DispatchInv, ReviewInv, Thread', Stable, NEW c \in Callers, ReviewIn(c)
  PROVE  ReviewInv'
<1>1. /\ d[c].mode = "al4" /\ d[c].pc = "result" /\ d[c].status = "SUCCEEDED"
      /\ checkIndependence(d[c].provider, builderLineage, d[c].reviews)
      /\ UNCHANGED <<steps, created, op, ledger, lineage>>
  BY DEF ReviewIn, Reviewed, vars
<1>2. steps[2].status = "SUCCEEDED" /\ RecordOf(c) \in ledger
  BY <1>1, WorkFacts DEF ReviewInv, ReviewWork, WorkInv, Dispatching
<1>3. Reviewer(d[c].step, d[c].provider)
  <2>1. builderLineage = lineage[2].provider
    BY <1>2, BuilderKnown DEF ReviewInv
  <2> QED
    BY <1>1, <1>2, <2>1 DEF checkIndependence, Reviewer, RecordOf
<1>4. PICK x : x = [provider |-> d[c].provider, verdict |-> d[c].output]
  OBVIOUS
<1>5. PICK r : r = <<x>>
  OBVIOUS
<1>6. PICK w : w = [d[c] EXCEPT !.pc = "route", !.provider = NONE, !.status = NONE, !.output = NONE, !.reviews = r]
  OBVIOUS
<1>7. w = [mode |-> d[c].mode, pc |-> "route", step |-> d[c].step, approval |-> d[c].approval,
           provider |-> NONE, status |-> NONE, output |-> NONE, reviews |-> r, budget |-> d[c].budget]
  <2>1. PICK z : z = [d[c] EXCEPT !.pc = "route", !.provider = NONE]
    OBVIOUS
  <2>2. z = [mode |-> d[c].mode, pc |-> "route", step |-> d[c].step, approval |-> d[c].approval,
             provider |-> NONE, status |-> d[c].status, output |-> d[c].output, reviews |-> d[c].reviews,
             budget |-> d[c].budget]
    BY <2>1, WorkFacts, SetProvider
  <2>3. w = [z EXCEPT !.status = NONE, !.output = NONE, !.reviews = r]
    BY <1>6, <2>1
  <2> QED
    BY <2>2, <2>3
<1>8. Work(c, w)
  BY <1>4, <1>5, <1>6 DEF ReviewIn
<1>9. d'[c] = w /\ ~Completing(c)' /\ \A e \in Callers : NoReport(e)
  BY <1>1, <1>8, WorkFacts, CallsSame DEF Completing
<1>10. x \in Entries(r) /\ r = <<x>> /\ x.provider = d[c].provider
  BY <1>4, <1>5 DEF Entries
<1>11. Reviewer(d[c].step, x.provider)'
  BY <1>1, <1>3, <1>7, <1>9, <1>10 DEF Reviewer
<1>12. ReviewWork(c)'
  BY <1>1, <1>2, <1>7, <1>9, <1>10, <1>11 DEF ReviewWork
<1> QED
  BY <1>1, <1>8, <1>9, <1>12, ReviewQuiet

\* A sequence with an entry is not empty.
LEMMA OneEntry ==
  ASSUME NEW v, Len(v) = 1
  PROVE  v # <<>>
<1>1. Len(<<>>) = 0
  OBVIOUS
<1> QED
  BY <1>1

\* The second review joins the first.
LEMMA TwoEntries ==
  ASSUME NEW q, NEW x
  PROVE  Append(<<q>>, x) = <<q, x>>
<1>1. <<q>> \in Seq({q, x}) /\ Len(<<q>>) = 1 /\ x \in {q, x}
  OBVIOUS
<1>2. /\ Append(<<q>>, x) \in Seq({q, x}) /\ Len(Append(<<q>>, x)) = 2
      /\ Append(<<q>>, x)[1] = q /\ Append(<<q>>, x)[2] = x
  BY <1>1, AppendProperties
<1>3. PICK a : a = Append(<<q>>, x)
  OBVIOUS
<1>4. PICK b : b = <<q, x>>
  OBVIOUS
<1>5. a \in Seq({q, x}) /\ Len(a) = 2 /\ a[1] = q /\ a[2] = x
  BY <1>2, <1>3
<1>6. b \in Seq({q, x}) /\ Len(b) = 2 /\ b[1] = q /\ b[2] = x
  BY <1>4
<1>7. \A i \in 1..2 : a[i] = b[i]
  BY <1>5, <1>6
<1>8. a = b
  BY <1>5, <1>6, <1>7, SeqEqual
<1> QED
  BY <1>3, <1>4, <1>8

LEMMA ReportReviewsReview ==
  ASSUME DispatchInv, ReviewInv, Thread', Stable, NEW c \in Callers, ReportReviews(c)
  PROVE  ReviewInv'
<1>1. /\ d[c].mode = "al4" /\ d[c].pc = "result" /\ d[c].status = "SUCCEEDED" /\ Len(d[c].reviews) = 1
      /\ checkIndependence(d[c].provider, builderLineage, d[c].reviews)
      /\ UNCHANGED <<ledger, lineage>>
  BY DEF ReportReviews, Reviewed
<1>2. /\ \A e \in Callers : e # c => NoReport(e)
      /\ op'[c].input = Completion("RED_TEAM", "SUCCEEDED") /\ UNCHANGED <<steps, created>>
  BY ReportCall DEF ReportReviews, Report
<1>3. /\ steps[2].status = "SUCCEEDED" /\ RecordOf(c) \in ledger
      /\ \/ d[c].reviews = <<>>
         \/ \E r \in Entries(d[c].reviews) : d[c].reviews = <<r>> /\ Reviewer(d[c].step, r.provider)
  BY <1>1, WorkFacts DEF ReviewInv, ReviewWork, WorkInv, Dispatching
<1>4. PICK q : d[c].reviews = <<q>> /\ Reviewer(d[c].step, q.provider)
  <2>1. d[c].reviews # <<>>
    BY <1>1, OneEntry
  <2>2. PICK q \in Entries(d[c].reviews) : d[c].reviews = <<q>> /\ Reviewer(d[c].step, q.provider)
    BY <1>3, <2>1
  <2> QED
    BY <2>2
<1>5. /\ Reviewer(d[c].step, d[c].provider) /\ d[c].provider # q.provider
      /\ ModelFamily[d[c].provider] # ModelFamily[q.provider]
  <2>1. builderLineage = lineage[2].provider
    BY <1>3, BuilderKnown DEF ReviewInv
  <2>2. q.provider \in {d[c].reviews[i].provider : i \in DOMAIN d[c].reviews}
    BY <1>4
  <2> QED
    BY <1>1, <1>3, <2>1, <2>2 DEF checkIndependence, Reviewer, RecordOf
<1>6. PICK x : x = [provider |-> d[c].provider, verdict |-> d[c].output]
  OBVIOUS
<1>7. PICK r : r = Append(d[c].reviews, x)
  OBVIOUS
<1>8. r = <<q, x>> /\ q \in Entries(r) /\ x \in Entries(r) /\ x.provider = d[c].provider
  <2>1. r = Append(<<q>>, x)
    BY <1>4, <1>7
  <2>2. r = <<q, x>>
    BY <2>1, TwoEntries
  <2>3. q \in Entries(r) /\ x \in Entries(r)
    BY <2>2 DEF Entries
  <2> QED
    BY <1>6, <2>2, <2>3
<1>9. PICK w : w = [d[c] EXCEPT !.pc = "report", !.reviews = r]
  OBVIOUS
<1>10. w = [mode |-> d[c].mode, pc |-> "report", step |-> d[c].step, approval |-> d[c].approval,
            provider |-> d[c].provider, status |-> d[c].status, output |-> d[c].output,
            reviews |-> r, budget |-> d[c].budget]
  BY <1>9, WorkFacts, SetReviews
<1>11. Work(c, w)
  BY <1>6, <1>7, <1>9 DEF ReportReviews
<1>12. d'[c] = w
  BY <1>11, WorkFacts
<1>13. op'[c].input.stepStatus = "SUCCEEDED"
  BY <1>2 DEF Completion
<1>14. ReviewedBy(d[c].step, d[c].reviews)'
  <2>1. Reviewer(d[c].step, q.provider)' /\ Reviewer(d[c].step, x.provider)'
    BY <1>1, <1>4, <1>5, <1>8, <1>10, <1>12 DEF Reviewer
  <2>2. d'[c].reviews = r
    BY <1>10, <1>12
  <2>3. q \in Entries(d[c].reviews)' /\ x \in Entries(d[c].reviews)'
    BY <1>8, <2>2 DEF Entries
  <2> QED
    BY <1>5, <1>8, <2>1, <2>2, <2>3 DEF ReviewedBy
<1>15. ReviewWork(c)'
  BY <1>1, <1>2, <1>3, <1>10, <1>12, <1>13, <1>14 DEF ReviewWork, Dispatching
<1> QED
  BY <1>1, <1>2, <1>11, <1>15, ReviewQuiet

\* The latest review is the one that caused the verdict to be due.
LEMMA LatestReview ==
  ASSUME DispatchInv, Thread, NEW s \in Existing, Active(s), steps[s].stepType = "PARSE_VERDICT"
  PROVE  Latest(Succeeded("RED_TEAM")) = s - 1
<1>1. s = created /\ created \in Nat /\ Follows(s)
  BY BuildExists DEF Thread
<1>2. s - 1 \in Existing /\ steps[s - 1].status = "SUCCEEDED" /\ steps[s - 1].stepType = "RED_TEAM"
  BY <1>1 DEF Follows, Reviewing, PrecededBy
<1>3. s - 1 \in Succeeded("RED_TEAM") /\ \A t \in Succeeded("RED_TEAM") : t \in Nat /\ t \leq s - 1
  <2>1. ASSUME NEW t \in Succeeded("RED_TEAM") PROVE t \in Nat /\ t \leq s - 1
    <3>1. t \in Existing /\ t # s
      BY <2>1 DEF Succeeded
    <3> QED
      BY <1>1, <3>1 DEF Existing
  <2> QED
    BY <1>2, <2>1 DEF Succeeded
<1>4. \A t \in Succeeded("RED_TEAM") : (\A u \in Succeeded("RED_TEAM") : u \leq t) => t = s - 1
  BY <1>1, <1>3
<1> QED
  BY <1>3, <1>4 DEF Latest

LEMMA ParseVerdictReview ==
  ASSUME DispatchInv, ReviewInv, Thread', Stable, NEW c \in Callers, ParseVerdict(c)
  PROVE  ReviewInv'
<1>1. d[c].mode = "verdict" /\ d[c].pc = "read" /\ UNCHANGED <<ledger, lineage>> /\ Parsable
  BY DEF ParseVerdict
<1>2. PICK s \in ReadyCurrent({"PARSE_VERDICT"}) :
        /\ Proceed(c, [Idle EXCEPT !.call = "completeTx", !.step = s,
                                   !.input = verdictOf(Latest(Succeeded("RED_TEAM")))])
        /\ Work(c, [d[c] EXCEPT !.pc = "report", !.step = s, !.approval = 0])
  BY DEF ParseVerdict
<1>3. /\ \A e \in Callers : e # c => NoReport(e)
      /\ op'[c].input = verdictOf(Latest(Succeeded("RED_TEAM"))) /\ UNCHANGED <<steps, created>>
  BY <1>2, ReportCall
<1>4. s \in Existing /\ steps[s].stepType = "PARSE_VERDICT" /\ Active(s)
  BY <1>2 DEF ReadyCurrent, Active, NONTERMINAL_STEP_STATUSES
<1>5. AssuranceLevel = "AL4" => lineage[s - 1].source = "COORDINATOR"
  BY <1>1, <1>4, LatestReview DEF Parsable, evidenced, ReviewInv
<1>6. op'[c].input.stepStatus = "SUCCEEDED"
  <2>1. PICK x : x = Completion("PARSE_VERDICT", "SUCCEEDED")
    OBVIOUS
  <2>2. x = [stepType |-> "PARSE_VERDICT", stepStatus |-> "SUCCEEDED", providerStatus |-> NONE, verdict |-> NONE,
             reviewResults |-> <<>>, independenceContext |-> <<>>, humanApproved |-> FALSE, metadata |-> NONE]
    BY <2>1 DEF Completion
  <2>3. \A a, b : [x EXCEPT !.verdict = a, !.metadata = b].stepStatus = "SUCCEEDED"
    BY <2>2
  <2>4. \A a, b : [x EXCEPT !.reviewResults = a, !.independenceContext = b].stepStatus = "SUCCEEDED"
    BY <2>2
  <2> QED
    BY <1>3, <2>1, <2>3, <2>4 DEF verdictOf
<1>7. PICK w : w = [d[c] EXCEPT !.pc = "report", !.step = s, !.approval = 0]
  OBVIOUS
<1>8. w = [mode |-> d[c].mode, pc |-> "report", step |-> s, approval |-> 0, provider |-> d[c].provider,
           status |-> d[c].status, output |-> d[c].output, reviews |-> d[c].reviews, budget |-> d[c].budget]
  BY <1>7, WorkFacts, SetTaken
<1>9. Work(c, w) /\ d'[c] = w
  BY <1>2, <1>7, WorkFacts
<1>10. ReviewWork(c)'
  BY <1>1, <1>5, <1>6, <1>8, <1>9 DEF ReviewWork, Dispatching
<1> QED
  BY <1>1, <1>3, <1>9, <1>10, ReviewQuiet

\* The commit of a report: of the coordinator's it keeps the reviews and the
\* builder, of a verdict that it rests on them.
LEMMA ReportCommitReview ==
  ASSUME DispatchInv, ReviewInv, Thread', Stable, NEW c \in Callers, ReportCommit(c)
  PROVE  ReviewInv'
<1>1. PICK w : Work(c, w) /\ w.pc \in {"idle", "read"} /\ w.reviews = <<>>
  <2>1. NoWork.pc = "idle" /\ NoWork.reviews = <<>>
    BY DEF NoWork
  <2>2. PICK w : w = [NoWork EXCEPT !.mode = "step", !.pc = "read", !.budget = d[c].budget - 1]
    OBVIOUS
  <2>3. w = [mode |-> "step", pc |-> "read", step |-> 0, approval |-> 0, provider |-> NONE,
             status |-> NONE, output |-> NONE, reviews |-> <<>>, budget |-> d[c].budget - 1]
    BY <2>2 DEF NoWork
  <2>4. Work(c, w) \/ Work(c, NoWork)
    BY <2>2 DEF ReportCommit
  <2> QED
    BY <2>1, <2>3, <2>4
<1>2. PICK rows : rows = RowsReported(c)
  OBVIOUS
<1>3. PICK out : out = OutcomeReported(c)
  OBVIOUS
<1>4. /\ Completing(c) /\ d[c].step \in Existing /\ steps[d[c].step].status = "READY"
      /\ rows = [s \in StepId |-> rows[s]]
      /\ \A s \in StepId : /\ RowShape(rows[s]) /\ rows[s].stepType = steps[s].stepType
                           /\ rows[s].causationId = steps[s].causationId
                           /\ s # d[c].step => rows[s] = steps[s]
      /\ rows[d[c].step].status =
           IF op[c].input.providerStatus \in BlockingProviderStatus THEN "WAITING" ELSE op[c].input.stepStatus
      /\ run' = transitionedRun(out, TypeOf(c), op[c].loops)
      /\ out.kind = "NEXT_STEP" => CommitWithStep(c, rows, out.nextStep, d[c].step)
      /\ out.kind # "NEXT_STEP" => steps' = rows /\ UNCHANGED created /\ Commit(c)
  BY <1>2, <1>3, ReportedRows
<1>5. \A s \in Existing' : steps'[s].status = "SUCCEEDED" => s \in Existing /\ rows[s].status = "SUCCEEDED"
  <2>1. CASE out.kind = "NEXT_STEP"
    BY <1>4, <2>1, RowInserted
  <2>2. CASE out.kind # "NEXT_STEP"
    <3>1. Existing' = Existing
      BY <1>4, <2>2 DEF Existing
    <3> QED
      BY <1>4, <2>2, <3>1
  <2> QED
    BY <2>1, <2>2
<1>6. /\ d[c].mode \in {"step", "al4", "verdict"}
      /\ d[c].mode = "al4" => TypeOf(c) = "RED_TEAM"
      /\ d[c].mode = "verdict" => TypeOf(c) = "PARSE_VERDICT"
  BY <1>4, WorkFacts DEF WorkInv
<1>7. ReviewWork(c) /\ Thread
  BY DEF ReviewInv
<1>8. /\ op' = [op EXCEPT ![c] = Idle] /\ UNCHANGED ledger
      /\ lineage' = [lineage EXCEPT ![d[c].step] = evidenceOf(c)] /\ lineage = [s \in StepId |-> lineage[s]]
  BY DEF ReportCommit, CompleteCommit, CommitWithStep, Commit, DispatchInv, DispatchTypes
<1>9. ~Completing(c)' /\ (\A e \in Callers : e # c => NoReport(e))
  <2>1. op = [e \in Callers |-> op[e]]
    BY DEF DispatchInv, DispatchTypes
  <2>2. op'[c] = Idle /\ \A e \in Callers : e # c => op'[e] = op[e]
    BY <1>8, <2>1
  <2> QED
    BY <2>2 DEF NoReport, Completing, Idle
<1>10. lineage'[d[c].step] = evidenceOf(c)
  BY <1>4, <1>8, ExistingRows
<1>11. ASSUME NEW s, s = d[c].step, steps'[s].status = "SUCCEEDED" PROVE ReviewRows(s)'
  <2>1. steps'[s].stepType = TypeOf(c) /\ s \in Existing
    BY <1>4, <1>11 DEF Stable, Evolved, TypeOf
  <2>2. (lineage[s].source = "COORDINATOR" =>
           /\ steps[s].stepType = "RED_TEAM" /\ steps[2].status = "SUCCEEDED"
           /\ ReviewedBy(s, lineage[s].reviews) /\ lineage[s].builder = lineage[2].provider)'
    <3>1. CASE d[c].mode = "al4"
      <4>1. steps[2].status = "SUCCEEDED" /\ ReviewedBy(d[c].step, d[c].reviews)
        BY <1>4, <1>7, <3>1 DEF ReviewWork
      <4>2. lineage'[s].reviews = d[c].reviews /\ lineage'[s].builder = lineage[2].provider
        BY <1>7, <1>10, <1>11, <3>1, <4>1, BuilderKnown DEF evidenceOf
      <4>3. PICK reviews : reviews = d[c].reviews
        OBVIOUS
      <4>4. ReviewedBy(s, reviews)' /\ lineage'[2] = lineage[2] /\ steps'[2].status = "SUCCEEDED"
        BY <1>7, <1>8, <1>11, <4>1, <4>3, ReviewersKept
      <4>5. ReviewedBy(s, lineage[s].reviews)'
        BY <4>2, <4>3, <4>4 DEF ReviewedBy, Entries
      <4> QED
        BY <1>6, <2>1, <3>1, <4>2, <4>4, <4>5
    <3>2. CASE d[c].mode # "al4"
      <4>1. lineage'[s].source # "COORDINATOR"
        BY <1>6, <1>10, <1>11, <3>2 DEF evidenceOf
      <4> QED
        BY <4>1
    <3> QED
      BY <3>1, <3>2
  <2>3. (steps[s].stepType = "PARSE_VERDICT" /\ AssuranceLevel = "AL4" => lineage[s - 1].source = "COORDINATOR")'
    <3>1. CASE TypeOf(c) = "PARSE_VERDICT"
      <4>1. d[c].mode = "verdict"
        BY <1>4, <1>6, <1>7, <3>1 DEF ReviewWork
      <4>2. AssuranceLevel = "AL4" => lineage[s - 1].source = "COORDINATOR"
        BY <1>4, <1>7, <1>11, <4>1 DEF ReviewWork
      <4>3. s - 1 \in Existing /\ steps[s - 1].status = "SUCCEEDED"
        BY <1>7, <1>11, <2>1, <3>1 DEF Thread, Follows, Reviewing, TypeOf
      <4>4. lineage'[s - 1] = lineage[s - 1]
        BY <4>3 DEF Stable
      <4> QED
        BY <4>2, <4>4
    <3>2. CASE TypeOf(c) # "PARSE_VERDICT"
      BY <2>1, <3>2
    <3> QED
      BY <3>1, <3>2
  <2> QED
    BY <2>2, <2>3 DEF ReviewRows
<1>12. \A s \in Existing' : steps'[s].status = "SUCCEEDED" =>
         ReviewRows(s)' \/ (s \in Existing /\ steps[s].status = "SUCCEEDED")
  <2>1. ASSUME NEW s \in Existing', steps'[s].status = "SUCCEEDED"
        PROVE  ReviewRows(s)' \/ (s \in Existing /\ steps[s].status = "SUCCEEDED")
    <3>1. CASE s = d[c].step
      BY <1>11, <2>1, <3>1
    <3>2. CASE s # d[c].step
      BY <1>4, <1>5, <2>1, <3>2, ExistingRows
    <3> QED
      BY <3>1, <3>2
  <2> QED
    BY <2>1
<1>13. d'[c] = w
  BY <1>1, WorkFacts
<1>14. ReviewWork(c)'
  BY <1>1, <1>9, <1>13 DEF ReviewWork, Dispatching
<1> QED
  BY <1>1, <1>8, <1>9, <1>12, <1>14, ReviewStep

\* What is not a step of a worker.
LEMMA ReviewRest ==
  ASSUME DispatchInv, ReviewInv, Thread', Stable, UNCHANGED <<d, ledger>>, NoSuccess,
         \A e \in Callers : NoReport(e)
  PROVE  ReviewInv'
<1>1. \A e \in Callers : ReviewWork(e)'
  BY ReviewWorkKept
<1>2. ASSUME NEW s \in Existing' PROVE ReviewRows(s)'
  <2>1. CASE steps'[s].status # "SUCCEEDED"
    BY <2>1 DEF ReviewRows
  <2>2. CASE steps'[s].status = "SUCCEEDED"
    BY <1>2, <2>2, ReviewRowsKept DEF NoSuccess
  <2> QED
    BY <2>1, <2>2
<1> QED
  BY <1>1, <1>2 DEF ReviewInv

\* The run starts with its plan and its build, and no review.
LEMMA ReviewInitHolds ==
  ASSUME DispatchInit
  PROVE  ReviewInv
<1>1. /\ steps = [s \in StepId |-> IF s = 1 THEN [ReadyStep("PLAN", 0) EXCEPT !.status = "SUCCEEDED"]
                                   ELSE IF s = 2 THEN ReadyStep("BUILD", 1) ELSE NoStep]
      /\ created = 2 /\ op = [c \in Callers |-> Idle] /\ d = [c \in Callers |-> NoWork]
      /\ lineage = [s \in StepId |-> NoLineage]
      /\ run = [status |-> "RUNNING", currentStepType |-> "BUILD", correctionLoopCount |-> 0, blockReasonCode |-> NONE]
  BY DEF DispatchInit
<1>2. Existing = {1, 2} /\ 1 \in StepId /\ 2 \in StepId
  BY <1>1, ConstantsAssumption, DispatchAssumption DEF Existing, StepId
<1>3. /\ steps[1] = [ReadyStep("PLAN", 0) EXCEPT !.status = "SUCCEEDED"] /\ steps[2] = ReadyStep("BUILD", 1)
      /\ lineage[1] = NoLineage
  BY <1>1, <1>2
<1>4. /\ steps[1].stepType = "PLAN" /\ steps[1].status = "SUCCEEDED"
      /\ steps[2].stepType = "BUILD" /\ steps[2].status = "READY"
      /\ lineage[1].source = NONE
  BY <1>3 DEF ReadyStep, NoLineage
<1>5. Thread
  <2>1. ASSUME NEW s \in Existing
        PROVE  /\ steps[s].stepType \in EngineeringStepType
               /\ steps[s].stepType = "PLAN" => s = 1
               /\ steps[s].stepType = "BUILD" => s = 2
               /\ Active(s) => s = created /\ run.currentStepType = steps[s].stepType
               /\ Follows(s)
    <3>1. CASE s = 1
      BY <1>4, <3>1 DEF EngineeringStepType, Active, NONTERMINAL_STEP_STATUSES, Follows, Reviewing
    <3>2. CASE s = 2
      BY <1>1, <1>4, <3>2 DEF EngineeringStepType, Follows, Reviewing
    <3> QED
      BY <1>2, <2>1, <3>1, <3>2
  <2>2. 2 \leq created /\ steps[2].stepType = "BUILD"
    BY <1>1, <1>4
  <2>3. run = [status |-> run.status, currentStepType |-> run.currentStepType,
               correctionLoopCount |-> run.correctionLoopCount, blockReasonCode |-> run.blockReasonCode]
    BY <1>1
  <2> QED
    BY <2>1, <2>2, <2>3 DEF Thread
<1>6. \A c \in Callers : ReviewWork(c)
  <2>1. NoWork.mode = "idle" /\ NoWork.pc = "idle" /\ Idle.call = "idle"
    BY DEF NoWork, Idle
  <2>2. \A c \in Callers : d[c] = NoWork /\ op[c] = Idle
    BY <1>1
  <2> QED
    BY <2>1, <2>2 DEF ReviewWork, Dispatching, Completing
<1>7. \A s \in Existing : ReviewRows(s)
  BY <1>2, <1>4 DEF ReviewRows, NONE
<1> QED
  BY <1>5, <1>6, <1>7 DEF ReviewInv

\* One case per action.
LEMMA ReviewNextKeeps ==
  ASSUME DispatchInv, ReviewInv, [DispatchNext]_allVars
  PROVE  ReviewInv'
<1>1. Thread' /\ Stable
  BY ThreadStep
<1>2. ASSUME NEW c \in Callers, NEW mode, NEW budget, Begin(c, mode, budget) PROVE ReviewInv'
  <2>1. PICK w : w = [NoWork EXCEPT !.mode = mode, !.pc = "read", !.budget = budget]
    OBVIOUS
  <2>2. w.pc = "read" /\ w.reviews = <<>>
    BY <2>1 DEF NoWork
  <2>3. Work(c, w) /\ op[c] = Idle /\ UNCHANGED <<steps, created, op, ledger>>
    BY <1>2, <2>1 DEF Begin, vars
  <2> QED
    BY <1>1, <2>2, <2>3, StartsReview
<1>3. ASSUME NEW c \in Callers, ExecuteRead(c) \/ CoordinateRead(c) PROVE ReviewInv'
  BY <1>1, <1>3, ExecuteReadReview, CoordinateReadReview
<1>4. ASSUME NEW c \in Callers, Route(c) \/ Consume(c) \/ ClaimKey(c) \/ DuplicateBlocked(c) \/ ExecutionEnds(c)
      PROVE  ReviewInv'
  BY <1>1, <1>4, DispatchesReview
<1>5. ASSUME NEW c \in Callers, ReportStep(c) \/ ReviewIn(c) \/ ReportReviews(c) \/ ParseVerdict(c)
      PROVE  ReviewInv'
  BY <1>1, <1>5, ReportStepReview, ReviewInReview, ReportReviewsReview, ParseVerdictReview
<1>6. ASSUME NEW c \in Callers, ReportCommit(c) PROVE ReviewInv'
  BY <1>1, <1>6, ReportCommitReview
<1>7. ASSUME NEW c \in Callers, Quit(c) PROVE ReviewInv'
  <2>1. NoWork.pc = "idle" /\ NoWork.reviews = <<>>
    BY DEF NoWork
  <2>2. Work(c, NoWork) /\ op[c] = Idle /\ UNCHANGED <<steps, created, op, ledger>>
    BY <1>7 DEF Quit, vars
  <2> QED
    BY <1>1, <2>1, <2>2, StartsReview
<1>8. ASSUME NEW c \in Callers, RunStep(c) PROVE ReviewInv'
  <2>1. UNCHANGED <<d, ledger>>
    BY <1>8 DEF RunStep, dispatchVars
  <2>2. NoSuccess /\ \A e \in Callers : NoReport(e)
    BY <1>8, RunStepRows
  <2> QED
    BY <1>1, <2>1, <2>2, ReviewRest
<1>9. CASE (\E p \in Providers : Probe(p)) \/ Grant \/ UNCHANGED allVars
  <2>1. UNCHANGED <<d, ledger, op, steps, created>>
    BY <1>9 DEF Probe, Grant, allVars, vars, dispatchVars
  <2> QED
    BY <1>1, <2>1, CallsSame, RowsUnchanged, ReviewRest
<1>10. CASE DispatchRestart
  <2>1. /\ UNCHANGED <<ledger, steps, created>>
        /\ op' = [c \in Callers |-> Idle] /\ d' = [c \in Callers |-> NoWork]
    BY <1>10 DEF DispatchRestart, Restart
  <2>2. NoWork.mode = "idle" /\ NoWork.pc = "idle" /\ Idle.call = "idle"
    BY DEF NoWork, Idle
  <2>3. \A c \in Callers : d'[c] = NoWork /\ op'[c] = Idle
    BY <2>1
  <2>4. \A c \in Callers : ReviewWork(c)'
    BY <2>2, <2>3 DEF ReviewWork, Dispatching, Completing
  <2>5. ASSUME NEW s \in Existing' PROVE ReviewRows(s)'
    <3>1. s \in Existing /\ steps'[s] = steps[s]
      BY <2>1, <2>5 DEF Existing
    <3>2. CASE steps[s].status = "SUCCEEDED"
      BY <1>1, <2>1, <3>1, <3>2, ReviewRowsKept
    <3>3. CASE steps[s].status # "SUCCEEDED"
      BY <3>1, <3>3 DEF ReviewRows
    <3> QED
      BY <3>2, <3>3
  <2> QED
    BY <1>1, <2>4, <2>5 DEF ReviewInv
<1> QED
  BY <1>2, <1>3, <1>4, <1>5, <1>6, <1>7, <1>8, <1>9, <1>10 DEF DispatchNext

\* The thread of work and its reviews hold throughout.
LEMMA ReviewsHold == DispatchSpec => []ReviewInv
<1>1. DispatchInit => ReviewInv
  BY ReviewInitHolds
<1>2. DispatchInv /\ ReviewInv /\ [DispatchNext]_allVars => ReviewInv'
  BY ReviewNextKeeps
<1> QED
  BY <1>1, <1>2, DispatchHolds, PTL DEF DispatchSpec

\* Three different values are three.
LEMMA ThreeDistinct ==
  ASSUME NEW a, NEW b, NEW e, a # b, a # e, b # e
  PROVE  Cardinality({a, b, e}) = 3
<1>1. IsFiniteSet({a}) /\ Cardinality({a}) = 1
  BY FS_Singleton
<1>2. IsFiniteSet({a} \cup {b}) /\ Cardinality({a} \cup {b}) = 2
  BY <1>1, FS_AddElement
<1>3. Cardinality(({a} \cup {b}) \cup {e}) = 3
  BY <1>2, FS_AddElement
<1>4. ({a} \cup {b}) \cup {e} = {a, b, e}
  OBVIOUS
<1> QED
  BY <1>3, <1>4

\* The coordinator's reviews of a step.
LEMMA ReviewsIndependent ==
  ASSUME DispatchInv, ReviewInv, NEW r \in Existing, steps[r].status = "SUCCEEDED",
         lineage[r].source = "COORDINATOR",
         NEW who, who = {lineage[r].reviews[i].provider : i \in DOMAIN lineage[r].reviews} \cup {lineage[r].builder}
  PROVE  /\ steps[r].stepType = "RED_TEAM" /\ Cardinality(who) = 3
         /\ Cardinality({ModelFamily[p] : p \in who}) = 3
         /\ \A p \in who \ {lineage[r].builder} : [step |-> r, provider |-> p, status |-> "SUCCEEDED"] \in ledger
         /\ lineage[r].builder = lineage[Latest(Succeeded("BUILD"))].provider
<1>1. /\ steps[r].stepType = "RED_TEAM" /\ steps[2].status = "SUCCEEDED"
      /\ ReviewedBy(r, lineage[r].reviews) /\ lineage[r].builder = lineage[2].provider
  BY DEF ReviewInv, ReviewRows
<1>2. Latest(Succeeded("BUILD")) = 2
  BY <1>1, BuilderKnown DEF ReviewInv
<1>3. PICK x, y :
        /\ lineage[r].reviews = <<x, y>> /\ Reviewer(r, x.provider) /\ Reviewer(r, y.provider)
        /\ x.provider # y.provider /\ ModelFamily[x.provider] # ModelFamily[y.provider]
  BY <1>1 DEF ReviewedBy
<1>4. PICK b : b = lineage[2].provider
  OBVIOUS
<1>5. who = {x.provider, y.provider, b}
  <2>1. {lineage[r].reviews[i].provider : i \in DOMAIN lineage[r].reviews} = {x.provider, y.provider}
    BY <1>3
  <2> QED
    BY <1>1, <1>4, <2>1
<1>6. /\ x.provider # b /\ y.provider # b
      /\ ModelFamily[x.provider] # ModelFamily[b] /\ ModelFamily[y.provider] # ModelFamily[b]
  BY <1>3, <1>4 DEF Reviewer
<1>7. Cardinality(who) = 3
  <2>1. PICK p, q : p = x.provider /\ q = y.provider
    OBVIOUS
  <2>2. p # q /\ p # b /\ q # b
    BY <1>3, <1>6, <2>1
  <2>3. Cardinality({p, q, b}) = 3
    BY <2>2, ThreeDistinct
  <2> QED
    BY <1>5, <2>1, <2>3
<1>8. Cardinality({ModelFamily[p] : p \in who}) = 3
  <2>1. PICK f, g, h : f = ModelFamily[x.provider] /\ g = ModelFamily[y.provider] /\ h = ModelFamily[b]
    OBVIOUS
  <2>2. f # g /\ f # h /\ g # h
    BY <1>3, <1>6, <2>1
  <2>3. {ModelFamily[p] : p \in who} = {f, g, h}
    BY <1>5, <2>1
  <2>4. Cardinality({f, g, h}) = 3
    BY <2>2, ThreeDistinct
  <2> QED
    BY <2>3, <2>4
<1>9. \A p \in who \ {lineage[r].builder} : [step |-> r, provider |-> p, status |-> "SUCCEEDED"] \in ledger
  BY <1>1, <1>3, <1>4, <1>5 DEF Reviewer
<1> QED
  BY <1>1, <1>2, <1>7, <1>8, <1>9

\* At AL4 a verdict, and a review of the coordinator's, rests on two succeeded
\* executions of the RED_TEAM step by providers that differ from each other and
\* from the builder, in name and in model family, for the builder that the run
\* still has: whatever calls race with the coordinator, the verdict service reads
\* the reviews of the very step that caused it.
THEOREM ReviewersAreIndependent == DispatchSpec => []Al4Independent
<1>1. ASSUME DispatchInv, ReviewInv PROVE Al4Independent
  <2>1. ASSUME NEW s \in Existing, AssuranceLevel = "AL4", steps[s].status = "SUCCEEDED",
               steps[s].stepType = "PARSE_VERDICT" \/ lineage[s].source = "COORDINATOR",
               NEW r, r = IF steps[s].stepType = "PARSE_VERDICT" THEN steps[s].causationId ELSE s
        PROVE  r \in Existing /\ steps[r].status = "SUCCEEDED" /\ lineage[r].source = "COORDINATOR"
    <3>1. CASE steps[s].stepType = "PARSE_VERDICT"
      <4>1. r = s - 1 /\ s - 1 \in Existing /\ steps[s - 1].status = "SUCCEEDED"
        BY <1>1, <2>1, <3>1 DEF ReviewInv, Thread, Follows, Reviewing
      <4>2. lineage[s - 1].source = "COORDINATOR"
        BY <1>1, <2>1, <3>1 DEF ReviewInv, ReviewRows
      <4> QED
        BY <4>1, <4>2
    <3>2. CASE steps[s].stepType # "PARSE_VERDICT"
      BY <2>1, <3>2
    <3> QED
      BY <3>1, <3>2
  <2> SUFFICES ASSUME NEW s \in Existing, AssuranceLevel = "AL4", steps[s].status = "SUCCEEDED",
                      steps[s].stepType = "PARSE_VERDICT" \/ lineage[s].source = "COORDINATOR"
               PROVE  LET r == IF steps[s].stepType = "PARSE_VERDICT" THEN steps[s].causationId ELSE s
                          who == {lineage[r].reviews[i].provider : i \in DOMAIN lineage[r].reviews}
                                 \cup {lineage[r].builder} IN
                      /\ steps[r].stepType = "RED_TEAM" /\ Cardinality(who) = 3
                      /\ Cardinality({ModelFamily[p] : p \in who}) = 3
                      /\ \A p \in who \ {lineage[r].builder} :
                           [step |-> r, provider |-> p, status |-> "SUCCEEDED"] \in ledger
                      /\ lineage[r].builder = lineage[Latest(Succeeded("BUILD"))].provider
    BY Zenon DEF Al4Independent
  <2>2. PICK r : r = IF steps[s].stepType = "PARSE_VERDICT" THEN steps[s].causationId ELSE s
    OBVIOUS
  <2>3. r \in Existing /\ steps[r].status = "SUCCEEDED" /\ lineage[r].source = "COORDINATOR"
    BY <2>1, <2>2
  <2>4. PICK who : who = {lineage[r].reviews[i].provider : i \in DOMAIN lineage[r].reviews}
                         \cup {lineage[r].builder}
    OBVIOUS
  <2>5. /\ steps[r].stepType = "RED_TEAM" /\ Cardinality(who) = 3
        /\ Cardinality({ModelFamily[p] : p \in who}) = 3
        /\ \A p \in who \ {lineage[r].builder} :
             [step |-> r, provider |-> p, status |-> "SUCCEEDED"] \in ledger
        /\ lineage[r].builder = lineage[Latest(Succeeded("BUILD"))].provider
    BY <1>1, <2>3, <2>4, ReviewsIndependent
  <2> QED
    BY <2>2, <2>4, <2>5, Zenon
<1> QED
  BY <1>1, DispatchHolds, ReviewsHold, PTL

\* What is verified has been reviewed: the five steps before a VERIFY are the
\* verdict, the review, the package, the test and the change, each caused by the
\* one before, so no change can come between the test and the verification.
THEOREM VerifiedIsReviewed == DispatchSpec => []ReviewedChange
<1>1. ASSUME DispatchInv, ReviewInv PROVE ReviewedChange
  <2>1. ASSUME NEW s \in Existing, steps[s].stepType = "VERIFY",
               NEW changes, changes = {x \in Existing : x < s /\ steps[x].status = "SUCCEEDED"
                                                        /\ steps[x].stepType \in {"BUILD", "CORRECTION"}}
        PROVE  /\ steps[s].causationId = s - 1 /\ steps[s - 1].causationId = s - 2
               /\ steps[s - 2].causationId = s - 3 /\ steps[s - 3].causationId = s - 4
               /\ steps[s - 1].stepType = "PARSE_VERDICT" /\ steps[s - 2].stepType = "RED_TEAM"
               /\ steps[s - 4].status = "SUCCEEDED" /\ steps[s - 4].causationId = Latest(changes)
    <3>1. s \in Nat /\ Existing \subseteq Nat
      BY <1>1, <2>1, BuildExists DEF ReviewInv
    <3>2. \A x \in Existing : Follows(x)
      BY <1>1 DEF ReviewInv, Thread
    <3>3. /\ steps[s].causationId = s - 1 /\ s - 1 \in Existing
          /\ steps[s - 1].stepType = "PARSE_VERDICT"
      BY <2>1, <3>2 DEF Follows, Reviewing, PrecededBy
    <3>4. (s - 1) - 1 = s - 2 /\ (s - 2) - 1 = s - 3 /\ (s - 3) - 1 = s - 4 /\ (s - 4) - 1 = s - 5
      BY <3>1
    <3>5. /\ steps[s - 1].causationId = s - 2 /\ s - 2 \in Existing
          /\ steps[s - 2].stepType = "RED_TEAM"
      BY <3>2, <3>3, <3>4 DEF Follows, Reviewing, PrecededBy
    <3>6. /\ steps[s - 2].causationId = s - 3 /\ s - 3 \in Existing
          /\ steps[s - 3].stepType = "PACKAGE"
      BY <3>2, <3>4, <3>5 DEF Follows, Reviewing, PrecededBy
    <3>7. /\ steps[s - 3].causationId = s - 4 /\ s - 4 \in Existing
          /\ steps[s - 4].stepType = "TEST" /\ steps[s - 4].status = "SUCCEEDED"
      BY <3>2, <3>4, <3>6 DEF Follows, Reviewing, PrecededBy
    <3>8. /\ steps[s - 4].causationId = s - 5 /\ s - 5 \in Existing
          /\ steps[s - 5].stepType \in {"BUILD", "CORRECTION"} /\ steps[s - 5].status = "SUCCEEDED"
      BY <3>2, <3>4, <3>7 DEF Follows, Reviewing, PrecededBy
    <3>9. s - 5 \in changes
      BY <2>1, <3>1, <3>8
    <3>10. \A x \in changes : x \in Nat /\ x \leq s - 5
      <4>1. ASSUME NEW x \in changes PROVE x \in Nat /\ x \leq s - 5
        <5>1. x \in Nat /\ x < s /\ x \notin {s - 1, s - 2, s - 3, s - 4}
          BY <2>1, <3>1, <3>3, <3>5, <3>6, <3>7, <4>1
        <5> QED
          BY <3>1, <5>1
      <4> QED
        BY <4>1
    <3>11. \A x \in changes : (\A y \in changes : y \leq x) => x = s - 5
      BY <3>1, <3>8, <3>9, <3>10
    <3>12. Latest(changes) = s - 5
      BY <3>9, <3>10, <3>11 DEF Latest
    <3> QED
      BY <3>3, <3>5, <3>6, <3>7, <3>8, <3>12
  <2>2. ASSUME NEW s \in Existing, steps[s].stepType = "VERIFY"
        PROVE  LET parse  == steps[s].causationId
                   review == steps[parse].causationId
                   test   == steps[steps[review].causationId].causationId
                   changes == {x \in Existing : x < s /\ steps[x].status = "SUCCEEDED"
                                                /\ steps[x].stepType \in {"BUILD", "CORRECTION"}} IN
               /\ steps[parse].stepType = "PARSE_VERDICT" /\ steps[review].stepType = "RED_TEAM"
               /\ steps[test].status = "SUCCEEDED" /\ steps[test].causationId = Latest(changes)
    <3>1. PICK changes : changes = {x \in Existing : x < s /\ steps[x].status = "SUCCEEDED"
                                                    /\ steps[x].stepType \in {"BUILD", "CORRECTION"}}
      OBVIOUS
    <3>2. /\ steps[s].causationId = s - 1 /\ steps[s - 1].causationId = s - 2
          /\ steps[s - 2].causationId = s - 3 /\ steps[s - 3].causationId = s - 4
          /\ steps[s - 1].stepType = "PARSE_VERDICT" /\ steps[s - 2].stepType = "RED_TEAM"
          /\ steps[s - 4].status = "SUCCEEDED" /\ steps[s - 4].causationId = Latest(changes)
      BY <2>1, <2>2, <3>1, Zenon
    <3> QED
      BY <3>1, <3>2, Zenon
  <2> QED
    BY <2>2 DEF ReviewedChange
<1> QED
  BY <1>1, DispatchHolds, ReviewsHold, PTL

-----------------------------------------------------------------------------
(* Types.                                                                  *)

\* The table of steps grows, if at all.
LEMMA RowsGrow ==
  ASSUME DispatchInv, [DispatchNext]_allVars
  PROVE  created \in Nat /\ created' \in Nat /\ created \leq created'
<1>1. created \in Nat
  BY ExistingRows
<1>2. ASSUME NEW c \in Callers, RunStep(c) PROVE created \leq created' /\ created' \in Nat
  BY <1>2, RunStepRows DEF RowsKept, DispatchRows
<1>3. ASSUME NEW c \in Callers, ReportCommit(c) PROVE created' = created \/ created' = created + 1
  BY <1>3 DEF ReportCommit, CompleteCommit, CommitWithStep, Commit
<1>4. ASSUME NEW c \in Callers, ReportStep(c) \/ ReportReviews(c) \/ ParseVerdict(c) PROVE created' = created
  BY <1>4 DEF ReportStep, ReportReviews, ParseVerdict, Report, Proceed
<1>5. ASSUME DispatchRestart PROVE created' = created
  BY <1>5 DEF DispatchRestart, Restart
<1>6. ASSUME UNCHANGED vars PROVE created' = created
  BY <1>6 DEF vars
<1>7. ASSUME NEW c \in Callers,
             \/ \E mode \in {"step", "al4", "verdict"}, budget \in {1, MAX_AUTONOMOUS_STEPS} : Begin(c, mode, budget)
             \/ ExecuteRead(c) \/ CoordinateRead(c) \/ Route(c) \/ Consume(c) \/ ClaimKey(c)
             \/ DuplicateBlocked(c) \/ ExecutionEnds(c) \/ ReviewIn(c) \/ Quit(c)
      PROVE  UNCHANGED vars
  BY <1>7 DEF Begin, ExecuteRead, CoordinateRead, Route, Consume, ClaimKey, DuplicateBlocked, ExecutionEnds,
     ReviewIn, Quit
<1>8. ASSUME (\E p \in Providers : Probe(p)) \/ Grant \/ UNCHANGED allVars PROVE UNCHANGED vars
  BY <1>8 DEF Probe, Grant, allVars
<1> QED
  BY <1>1, <1>2, <1>3, <1>4, <1>5, <1>6, <1>7, <1>8 DEF DispatchNext

\* A worker in a typed place leaves all workers typed.
LEMMA WorkersTyped ==
  ASSUME DispatchInv, DispatchTypeOK, created \in Nat, created' \in Nat, created \leq created',
         NEW c \in Callers, NEW w, Work(c, w), WorkTyped(w)
  PROVE  \A e \in Callers : WorkTyped(d[e])'
<1>1. d = [e \in Callers |-> d[e]]
  BY DEF DispatchInv, DispatchTypes
<1>2. d'[c] = w /\ \A e \in Callers \ {c} : d'[e] = d[e]
  BY <1>1 DEF Work
<1>3. \A e \in Callers : WorkTyped(d'[e])
  BY <1>2 DEF DispatchTypeOK
<1>4. 0..created \subseteq 0..created'
  OBVIOUS
<1> QED
  BY <1>3, <1>4 DEF WorkTyped

\* Each step of a worker puts it in a typed place.
LEMMA ExecuteReadTyped ==
  ASSUME DispatchInv, DispatchTypeOK, NEW c \in Callers, ExecuteRead(c)
  PROVE  \E w : Work(c, w) /\ WorkTyped(w)
<1>1. PICK s \in ReadyCurrent(AgentSteps) :
        Work(c, [d[c] EXCEPT !.pc = "route", !.step = s,
                   !.approval = IF NeedsApproval(s) THEN CHOOSE a \in OpenApprovals : TRUE ELSE 0])
  BY DEF ExecuteRead
<1>2. s \in 0..created
  BY <1>1, ExistingRows DEF ReadyCurrent, Existing
<1>3. PICK a : a = IF NeedsApproval(s) THEN CHOOSE b \in OpenApprovals : TRUE ELSE 0
  OBVIOUS
<1>4. PICK w : w = [d[c] EXCEPT !.pc = "route", !.step = s, !.approval = a]
  OBVIOUS
<1>5. w = [mode |-> d[c].mode, pc |-> "route", step |-> s, approval |-> a, provider |-> d[c].provider,
           status |-> d[c].status, output |-> d[c].output, reviews |-> d[c].reviews, budget |-> d[c].budget]
  BY <1>4, WorkFacts, SetTaken
<1>6. Work(c, w)
  BY <1>1, <1>3, <1>4
<1>7. WorkTyped(d[c])
  BY DEF DispatchTypeOK
<1>8. WorkTyped(w)
  BY <1>5, <1>7, <1>2 DEF WorkTyped
<1> QED
  BY <1>6, <1>8

LEMMA CoordinateReadTyped ==
  ASSUME DispatchInv, DispatchTypeOK, NEW c \in Callers, CoordinateRead(c)
  PROVE  \E w : Work(c, w) /\ WorkTyped(w)
<1>1. PICK s \in ReadyCurrent({"RED_TEAM"}) : Work(c, [d[c] EXCEPT !.pc = "route", !.step = s])
  BY DEF CoordinateRead
<1>2. s \in 0..created
  BY <1>1, ExistingRows DEF ReadyCurrent, Existing
<1>3. PICK w : w = [d[c] EXCEPT !.pc = "route", !.step = s]
  OBVIOUS
<1>4. w = [mode |-> d[c].mode, pc |-> "route", step |-> s, approval |-> d[c].approval, provider |-> d[c].provider,
           status |-> d[c].status, output |-> d[c].output, reviews |-> d[c].reviews, budget |-> d[c].budget]
  BY <1>3, WorkFacts, SetStep
<1>5. Work(c, w)
  BY <1>1, <1>3
<1>6. WorkTyped(d[c])
  BY DEF DispatchTypeOK
<1>7. WorkTyped(w)
  BY <1>4, <1>6, <1>2 DEF WorkTyped
<1> QED
  BY <1>5, <1>7

LEMMA RouteTyped ==
  ASSUME DispatchInv, DispatchTypeOK, NEW c \in Callers, Route(c)
  PROVE  \E w : Work(c, w) /\ WorkTyped(w)
<1>1. PICK p \in Providers :
        Work(c, [d[c] EXCEPT !.pc = IF d[c].approval # 0 THEN "consume" ELSE "claim", !.provider = p])
  BY DEF Route
<1>2. PICK pc : pc = IF d[c].approval # 0 THEN "consume" ELSE "claim"
  OBVIOUS
<1>3. pc \in {"consume", "claim"}
  BY <1>2
<1>4. PICK w : w = [d[c] EXCEPT !.pc = pc, !.provider = p]
  OBVIOUS
<1>5. w = [mode |-> d[c].mode, pc |-> pc, step |-> d[c].step, approval |-> d[c].approval, provider |-> p,
           status |-> d[c].status, output |-> d[c].output, reviews |-> d[c].reviews, budget |-> d[c].budget]
  BY <1>4, WorkFacts, SetProvider
<1>6. Work(c, w)
  BY <1>1, <1>2, <1>4
<1>7. WorkTyped(d[c])
  BY DEF DispatchTypeOK
<1>8. WorkTyped(w)
  BY <1>5, <1>7, <1>3 DEF WorkTyped
<1> QED
  BY <1>6, <1>8

LEMMA ConsumeTyped ==
  ASSUME DispatchInv, DispatchTypeOK, NEW c \in Callers, Consume(c)
  PROVE  \E w : Work(c, w) /\ WorkTyped(w)
<1>1. d[c].pc = "consume" /\ Work(c, [d[c] EXCEPT !.pc = "claim"])
  BY DEF Consume
<1>2. PICK w : w = [d[c] EXCEPT !.pc = "claim"]
  OBVIOUS
<1>3. w = [mode |-> d[c].mode, pc |-> "claim", step |-> d[c].step, approval |-> d[c].approval, provider |-> d[c].provider,
           status |-> d[c].status, output |-> d[c].output, reviews |-> d[c].reviews, budget |-> d[c].budget]
  BY <1>2, WorkFacts, SetPc
<1>4. Work(c, w)
  BY <1>1, <1>2
<1>5. WorkTyped(d[c])
  BY DEF DispatchTypeOK
<1>6. WorkTyped(w)
  BY <1>3, <1>5, <1>1 DEF WorkTyped
<1> QED
  BY <1>4, <1>6

LEMMA ClaimKeyTyped ==
  ASSUME DispatchInv, DispatchTypeOK, NEW c \in Callers, ClaimKey(c)
  PROVE  \E w : Work(c, w) /\ WorkTyped(w)
<1>1. d[c].pc = "claim" /\ Work(c, [d[c] EXCEPT !.pc = "execute"])
  BY DEF ClaimKey
<1>2. PICK w : w = [d[c] EXCEPT !.pc = "execute"]
  OBVIOUS
<1>3. w = [mode |-> d[c].mode, pc |-> "execute", step |-> d[c].step, approval |-> d[c].approval, provider |-> d[c].provider,
           status |-> d[c].status, output |-> d[c].output, reviews |-> d[c].reviews, budget |-> d[c].budget]
  BY <1>2, WorkFacts, SetPc
<1>4. Work(c, w)
  BY <1>1, <1>2
<1>5. WorkTyped(d[c])
  BY DEF DispatchTypeOK
<1>6. WorkTyped(w)
  BY <1>3, <1>5, <1>1 DEF WorkTyped
<1> QED
  BY <1>4, <1>6

LEMMA DuplicateBlockedTyped ==
  ASSUME DispatchInv, DispatchTypeOK, NEW c \in Callers, DuplicateBlocked(c)
  PROVE  \E w : Work(c, w) /\ WorkTyped(w)
<1>1. Work(c, [d[c] EXCEPT !.pc = "result", !.status = "POLICY_BLOCKED"])
  BY DEF DuplicateBlocked
<1>2. PICK w : w = [d[c] EXCEPT !.pc = "result", !.status = "POLICY_BLOCKED"]
  OBVIOUS
<1>3. w = [mode |-> d[c].mode, pc |-> "result", step |-> d[c].step, approval |-> d[c].approval, provider |-> d[c].provider,
           status |-> "POLICY_BLOCKED", output |-> d[c].output, reviews |-> d[c].reviews, budget |-> d[c].budget]
  BY <1>2, WorkFacts, SetStatus
<1>4. Work(c, w)
  BY <1>1, <1>2
<1>5. WorkTyped(d[c])
  BY DEF DispatchTypeOK
<1>6. WorkTyped(w)
  BY <1>3, <1>5 DEF WorkTyped
<1> QED
  BY <1>4, <1>6

LEMMA ExecutionEndsTyped ==
  ASSUME DispatchInv, DispatchTypeOK, NEW c \in Callers, ExecutionEnds(c)
  PROVE  \E w : Work(c, w) /\ WorkTyped(w)
<1>1. PICK status, output : Work(c, [d[c] EXCEPT !.pc = "result", !.status = status, !.output = output])
  BY DEF ExecutionEnds
<1>2. PICK w : w = [d[c] EXCEPT !.pc = "result", !.status = status, !.output = output]
  OBVIOUS
<1>3. w = [mode |-> d[c].mode, pc |-> "result", step |-> d[c].step, approval |-> d[c].approval, provider |-> d[c].provider,
           status |-> status, output |-> output, reviews |-> d[c].reviews, budget |-> d[c].budget]
  BY <1>2, WorkFacts, SetResult
<1>4. Work(c, w)
  BY <1>1, <1>2
<1>5. WorkTyped(d[c])
  BY DEF DispatchTypeOK
<1>6. WorkTyped(w)
  BY <1>3, <1>5 DEF WorkTyped
<1> QED
  BY <1>4, <1>6

LEMMA ReportStepTyped ==
  ASSUME DispatchInv, DispatchTypeOK, NEW c \in Callers, ReportStep(c)
  PROVE  \E w : Work(c, w) /\ WorkTyped(w)
<1>1. Work(c, [d[c] EXCEPT !.pc = "report"])
  BY DEF ReportStep
<1>2. PICK w : w = [d[c] EXCEPT !.pc = "report"]
  OBVIOUS
<1>3. w = [mode |-> d[c].mode, pc |-> "report", step |-> d[c].step, approval |-> d[c].approval, provider |-> d[c].provider,
           status |-> d[c].status, output |-> d[c].output, reviews |-> d[c].reviews, budget |-> d[c].budget]
  BY <1>2, WorkFacts, SetPc
<1>4. Work(c, w)
  BY <1>1, <1>2
<1>5. WorkTyped(d[c])
  BY DEF DispatchTypeOK
<1>6. WorkTyped(w)
  BY <1>3, <1>5 DEF WorkTyped
<1> QED
  BY <1>4, <1>6

LEMMA ReportReviewsTyped ==
  ASSUME DispatchInv, DispatchTypeOK, NEW c \in Callers, ReportReviews(c)
  PROVE  \E w : Work(c, w) /\ WorkTyped(w)
<1>1. Work(c, [d[c] EXCEPT !.pc = "report",
                !.reviews = Append(d[c].reviews, [provider |-> d[c].provider, verdict |-> d[c].output])])
  BY DEF ReportReviews
<1>2. PICK reviews : reviews = Append(d[c].reviews, [provider |-> d[c].provider, verdict |-> d[c].output])
  OBVIOUS
<1>3. PICK w : w = [d[c] EXCEPT !.pc = "report", !.reviews = reviews]
  OBVIOUS
<1>4. w = [mode |-> d[c].mode, pc |-> "report", step |-> d[c].step, approval |-> d[c].approval, provider |-> d[c].provider,
           status |-> d[c].status, output |-> d[c].output, reviews |-> reviews, budget |-> d[c].budget]
  BY <1>3, WorkFacts, SetReviews
<1>5. Work(c, w)
  BY <1>1, <1>2, <1>3
<1>6. WorkTyped(d[c])
  BY DEF DispatchTypeOK
<1>7. WorkTyped(w)
  BY <1>4, <1>6 DEF WorkTyped
<1> QED
  BY <1>5, <1>7

LEMMA ParseVerdictTyped ==
  ASSUME DispatchInv, DispatchTypeOK, NEW c \in Callers, ParseVerdict(c)
  PROVE  \E w : Work(c, w) /\ WorkTyped(w)
<1>1. PICK s \in ReadyCurrent({"PARSE_VERDICT"}) :
        Work(c, [d[c] EXCEPT !.pc = "report", !.step = s, !.approval = 0])
  BY DEF ParseVerdict
<1>2. s \in 0..created
  BY <1>1, ExistingRows DEF ReadyCurrent, Existing
<1>3. PICK w : w = [d[c] EXCEPT !.pc = "report", !.step = s, !.approval = 0]
  OBVIOUS
<1>4. w = [mode |-> d[c].mode, pc |-> "report", step |-> s, approval |-> 0, provider |-> d[c].provider,
           status |-> d[c].status, output |-> d[c].output, reviews |-> d[c].reviews, budget |-> d[c].budget]
  BY <1>3, WorkFacts, SetTaken
<1>5. Work(c, w)
  BY <1>1, <1>3
<1>6. WorkTyped(d[c])
  BY DEF DispatchTypeOK
<1>7. WorkTyped(w)
  BY <1>4, <1>6, <1>2 DEF WorkTyped
<1> QED
  BY <1>5, <1>7

LEMMA ReviewInTyped ==
  ASSUME DispatchInv, DispatchTypeOK, NEW c \in Callers, ReviewIn(c)
  PROVE  \E w : Work(c, w) /\ WorkTyped(w)
<1>1. PICK reviews : reviews = <<[provider |-> d[c].provider, verdict |-> d[c].output]>>
  OBVIOUS
<1>2. PICK w : w = [d[c] EXCEPT !.pc = "route", !.provider = NONE, !.status = NONE, !.output = NONE,
                                !.reviews = reviews]
  OBVIOUS
<1>3. PICK v : v = [d[c] EXCEPT !.pc = "route", !.provider = NONE]
  OBVIOUS
<1>4. v = [mode |-> d[c].mode, pc |-> "route", step |-> d[c].step, approval |-> d[c].approval, provider |-> NONE,
           status |-> d[c].status, output |-> d[c].output, reviews |-> d[c].reviews, budget |-> d[c].budget]
  BY <1>3, WorkFacts, SetProvider
<1>5. w = [v EXCEPT !.status = NONE, !.output = NONE, !.reviews = reviews]
  BY <1>2, <1>3
<1>6. w = [mode |-> d[c].mode, pc |-> "route", step |-> d[c].step, approval |-> d[c].approval, provider |-> NONE,
           status |-> NONE, output |-> NONE, reviews |-> reviews, budget |-> d[c].budget]
  BY <1>4, <1>5
<1>7. Work(c, w)
  BY <1>1, <1>2 DEF ReviewIn
<1>8. WorkTyped(d[c])
  BY DEF DispatchTypeOK
<1>9. WorkTyped(w)
  BY <1>6, <1>8 DEF WorkTyped
<1> QED
  BY <1>7, <1>9

\* A call that begins, goes on with the next step or is over.
LEMMA FreshTyped ==
  ASSUME DispatchInv, NEW mode \in {"step", "al4", "verdict"}, NEW budget
  PROVE  WorkTyped(NoWork) /\ WorkTyped([NoWork EXCEPT !.mode = mode, !.pc = "read", !.budget = budget])
<1>1. created \in Nat
  BY ExistingRows
<1> QED
  BY <1>1 DEF WorkTyped, NoWork

\* Workers stay typed, whichever of them takes a step.
LEMMA WorkStaysTyped ==
  ASSUME DispatchInv, DispatchTypeOK, [DispatchNext]_allVars
  PROVE  \A e \in Callers : WorkTyped(d[e])'
<1>1. created \in Nat /\ created' \in Nat /\ created \leq created'
  BY RowsGrow
<1>2. ASSUME NEW c \in Callers, \E w : Work(c, w) /\ WorkTyped(w)
      PROVE  \A e \in Callers : WorkTyped(d[e])'
  BY <1>1, <1>2, WorkersTyped
<1>3. CASE d' = d
  <2>1. 0..created \subseteq 0..created'
    BY <1>1
  <2> QED
    BY <1>3, <2>1 DEF DispatchTypeOK, WorkTyped
<1>4. ASSUME NEW c \in Callers, NEW mode \in {"step", "al4", "verdict"}, NEW budget, Begin(c, mode, budget)
      PROVE  \E w : Work(c, w) /\ WorkTyped(w)
  BY <1>4, FreshTyped DEF Begin
<1>5. ASSUME NEW c \in Callers, Quit(c) \/ ReportCommit(c)
      PROVE  \E w : Work(c, w) /\ WorkTyped(w)
  <2>1. PICK b : b = d[c].budget - 1
    OBVIOUS
  <2>2. Work(c, NoWork) \/ Work(c, [NoWork EXCEPT !.mode = "step", !.pc = "read", !.budget = b])
    BY <1>5, <2>1, Zenon DEF Quit, ReportCommit
  <2> QED
    BY <2>2, FreshTyped
<1>6. ASSUME NEW c \in Callers, RunStep(c) PROVE d' = d
  BY <1>6 DEF RunStep, dispatchVars
<1>7. CASE DispatchRestart
  <2>1. \A e \in Callers : d'[e] = NoWork
    BY <1>7 DEF DispatchRestart
  <2>2. WorkTyped(NoWork)'
    BY <1>1 DEF WorkTyped, NoWork
  <2> QED
    BY <2>1, <2>2 DEF WorkTyped
<1>8. CASE (\E p \in Providers : Probe(p)) \/ Grant \/ UNCHANGED allVars
  BY <1>3, <1>8 DEF Probe, Grant, allVars, dispatchVars
<1> QED
  BY <1>2, <1>3, <1>4, <1>5, <1>6, <1>7, <1>8, ExecuteReadTyped, CoordinateReadTyped, RouteTyped, ConsumeTyped,
     ClaimKeyTyped, DuplicateBlockedTyped, ExecutionEndsTyped, ReportStepTyped, ReviewInTyped, ReportReviewsTyped,
     ParseVerdictTyped DEF DispatchNext

\* What the steps that write tables write: a claim and a record of the worker's
\* operation, and its step into an approval.
LEMMA TablesStayTyped ==
  ASSUME DispatchInv, DispatchTypeOK, [DispatchNext]_allVars
  PROVE  /\ \A a \in DOMAIN consumed' : consumed'[a] \in 0..created'
         /\ claims' \subseteq StepId \X {Alias[p] : p \in Providers}
         /\ \A x \in ledger' : x.provider \in Providers
         /\ exhausted' \subseteq Providers
<1>1. created \in Nat /\ created' \in Nat /\ created \leq created' /\ consumed \in Seq(Nat)
  BY RowsGrow DEF DispatchInv, DispatchTypes
<1>2. 0..created \subseteq 0..created'
  BY <1>1
<1>3. \A c \in Callers : d[c].pc \in {"claim", "execute"} => d[c].step \in StepId /\ d[c].provider \in Providers
  BY ExistingRows DEF DispatchInv, WorkInv, Dispatching, DispatchTypeOK, WorkTyped
<1>4. \A a \in DOMAIN consumed' : consumed'[a] \in 0..created'
  <2>1. CASE consumed' = consumed
    BY <1>2, <2>1 DEF DispatchTypeOK
  <2>2. CASE Grant
    <3>1. consumed' = Append(consumed, 0)
      BY <2>2 DEF Grant
    <3>2. \A a \in DOMAIN consumed' : consumed'[a] = 0 \/ (a \in DOMAIN consumed /\ consumed'[a] = consumed[a])
      BY <1>1, <3>1, AppendProperties
    <3> QED
      BY <1>1, <1>2, <3>2 DEF DispatchTypeOK
  <2>3. ASSUME NEW c \in Callers, Consume(c) PROVE \A a \in DOMAIN consumed' : consumed'[a] \in 0..created'
    <3>1. consumed' = [consumed EXCEPT ![d[c].approval] = d[c].step]
      BY <2>3 DEF Consume
    <3>2. d[c].step \in 0..created
      BY DEF DispatchTypeOK, WorkTyped
    <3>3. \A a \in DOMAIN consumed' : a \in DOMAIN consumed /\ consumed'[a] \in {consumed[a], d[c].step}
      BY <1>1, <3>1
    <3> QED
      BY <1>2, <3>2, <3>3 DEF DispatchTypeOK
  <2> QED
    BY <2>1, <2>2, <2>3 DEF DispatchNext, allVars, dispatchVars, Begin, ExecuteRead, CoordinateRead, Route,
       ClaimKey, DuplicateBlocked, ExecutionEnds, ReportStep, ReviewIn, ReportReviews, ParseVerdict, ReportCommit,
       Quit, RunStep, Probe, DispatchRestart
<1>5. claims' \subseteq StepId \X {Alias[p] : p \in Providers}
  <2>1. CASE claims' = claims
    BY <2>1 DEF DispatchTypeOK
  <2>2. ASSUME NEW c \in Callers, ClaimKey(c) PROVE claims' \subseteq StepId \X {Alias[p] : p \in Providers}
    <3>1. claims' = claims \cup {OperationKey(c)} /\ d[c].pc = "claim"
      BY <2>2 DEF ClaimKey
    <3>2. OperationKey(c) \in StepId \X {Alias[p] : p \in Providers}
      BY <1>3, <3>1 DEF OperationKey
    <3> QED
      BY <3>1, <3>2 DEF DispatchTypeOK
  <2> QED
    BY <2>1, <2>2 DEF DispatchNext, allVars, dispatchVars, Begin, ExecuteRead, CoordinateRead, Route, Consume,
       DuplicateBlocked, ExecutionEnds, ReportStep, ReviewIn, ReportReviews, ParseVerdict, ReportCommit, Quit,
       RunStep, Probe, Grant, DispatchRestart
<1>6. ASSUME NEW c \in Callers, ExecutionEnds(c)
      PROVE  (\A x \in ledger' : x.provider \in Providers) /\ exhausted' \subseteq Providers
  <2>1. PICK status :
          /\ ledger' = ledger \cup {[step |-> d[c].step, provider |-> d[c].provider, status |-> status]}
          /\ exhausted' = observed(d[c].provider, status)
    BY <1>6 DEF ExecutionEnds
  <2>2. d[c].provider \in Providers
    BY <1>3, <1>6 DEF ExecutionEnds
  <2> QED
    BY <2>1, <2>2 DEF DispatchTypeOK, observed
<1>7. ASSUME ledger' = ledger, exhausted' \subseteq exhausted
      PROVE  (\A x \in ledger' : x.provider \in Providers) /\ exhausted' \subseteq Providers
  BY <1>7 DEF DispatchTypeOK
<1>8. (\A x \in ledger' : x.provider \in Providers) /\ exhausted' \subseteq Providers
  BY <1>6, <1>7 DEF DispatchNext, allVars, dispatchVars, Begin, ExecuteRead, CoordinateRead, Route, Consume,
     ClaimKey, DuplicateBlocked, ReportStep, ReviewIn, ReportReviews, ParseVerdict, ReportCommit, Quit,
     RunStep, Probe, Grant, DispatchRestart
<1> QED
  BY <1>4, <1>5, <1>8

\* Workers and the rows they write keep their declared values for any number of
\* them, and a worker that claims or executes has been routed to a provider.
THEOREM DispatchTypeCorrect == DispatchSpec => []DispatchTypeOK
<1>1. DispatchInit => DispatchTypeOK
  BY DEF DispatchInit, DispatchTypeOK, WorkTyped, NoWork
<1>2. DispatchInv /\ DispatchTypeOK /\ [DispatchNext]_allVars => DispatchTypeOK'
  BY WorkStaysTyped, TablesStayTyped DEF DispatchTypeOK
<1> QED
  BY <1>1, <1>2, DispatchHolds, PTL DEF DispatchSpec

-----------------------------------------------------------------------------
(* Seen from outside: SingleUse.                                           *)

\* A token is the operation of a command for a step, taken by its claim and
\* fired by the record of its execution.
OperationKeys == StepId \X {Alias[p] : p \in Providers}
ClaimHolder == [k \in OperationKeys |-> IF k \in claims THEN "CLAIMED" ELSE NONE]
Recorded == {<<x.step, Alias[x.provider]>> : x \in ledger}

Operations == INSTANCE SingleUse WITH
  Tokens <- OperationKeys, Holders <- {"CLAIMED"}, Nobody <- NONE,
  holder <- ClaimHolder, fired <- Recorded

DispatchImplementsSingleUse == Operations!Spec

\* A claim takes the token of its operation.
LEMMA ClaimTakes ==
  ASSUME DispatchInv, DispatchTypeOK, NEW c \in Callers, ClaimKey(c)
  PROVE  Operations!Next
<1> USE DEF NONE
<1>1. /\ d[c].pc = "claim" /\ OperationKey(c) \notin claims /\ ledger' = ledger
      /\ claims' = claims \cup {OperationKey(c)}
  BY DEF ClaimKey
<1>2. d[c].step \in StepId /\ d[c].provider \in Providers
  BY <1>1, ExistingRows DEF DispatchInv, WorkInv, Dispatching, DispatchTypeOK, WorkTyped
<1>3. PICK k \in OperationKeys : k = OperationKey(c)
  <2>1. OperationKey(c) \in OperationKeys
    BY <1>2 DEF OperationKey, OperationKeys
  <2> QED
    BY <2>1, Zenon
<1>4. ClaimHolder[k] = NONE
  BY <1>1, <1>3 DEF ClaimHolder
<1>5. ClaimHolder' = [ClaimHolder EXCEPT ![k] = "CLAIMED"]
  BY <1>1, <1>3 DEF ClaimHolder
<1>6. Recorded' = Recorded
  BY <1>1 DEF Recorded
<1>7. Operations!Take(k)
  BY <1>4, <1>5, <1>6 DEF Operations!Take
<1> QED
  BY <1>3, <1>7 DEF Operations!Next

\* The end of an execution is the first of its operation, which is claimed.
LEMMA RecordFires ==
  ASSUME DispatchInv, DispatchTypeOK, NEW c \in Callers, ExecutionEnds(c)
  PROVE  Operations!Next
<1> USE DEF NONE
<1>1. d[c].pc = "execute" /\ claims' = claims
  BY DEF ExecutionEnds
<1>2. PICK status : ledger' = ledger \cup {[step |-> d[c].step, provider |-> d[c].provider, status |-> status]}
  BY DEF ExecutionEnds
<1>3. d[c].step \in StepId /\ d[c].provider \in Providers
  BY <1>1, ExistingRows DEF DispatchInv, WorkInv, Dispatching, DispatchTypeOK, WorkTyped
<1>4. PICK k \in OperationKeys : k = OperationKey(c)
  <2>1. OperationKey(c) \in OperationKeys
    BY <1>3 DEF OperationKey, OperationKeys
  <2> QED
    BY <2>1, Zenon
<1>5. k \in claims /\ \A x \in ledger : <<x.step, Alias[x.provider]>> # k
  BY <1>1, <1>4 DEF DispatchInv, WorkInv
<1>6. ClaimHolder[k] # NONE /\ ClaimHolder' = ClaimHolder
  BY <1>1, <1>4, <1>5 DEF ClaimHolder
<1>7. k \notin Recorded
  BY <1>5 DEF Recorded
<1>8. Recorded' = Recorded \cup {k}
  <2>1. k = <<d[c].step, Alias[d[c].provider]>>
    BY <1>4 DEF OperationKey
  <2>2. PICK r : r = [step |-> d[c].step, provider |-> d[c].provider, status |-> status]
    OBVIOUS
  <2>3. <<r.step, Alias[r.provider]>> = k
    BY <2>1, <2>2
  <2>4. ledger' = ledger \cup {r}
    BY <1>2, <2>2
  <2> QED
    BY <2>3, <2>4 DEF Recorded
<1>9. Operations!Fire(k)
  BY <1>6, <1>7, <1>8 DEF Operations!Fire
<1> QED
  BY <1>4, <1>9 DEF Operations!Next

\* No other step touches a claim or a record.
LEMMA DispatchSimulates ==
  ASSUME DispatchInv, DispatchTypeOK, [DispatchNext]_allVars
  PROVE  [Operations!Next]_Operations!vars
<1>1. CASE \E c \in Callers : ClaimKey(c)
  BY <1>1, ClaimTakes
<1>2. CASE \E c \in Callers : ExecutionEnds(c)
  BY <1>2, RecordFires
<1>3. ASSUME \A c \in Callers : ~ClaimKey(c) /\ ~ExecutionEnds(c)
      PROVE  claims' = claims /\ ledger' = ledger
  BY <1>3 DEF DispatchNext, allVars, dispatchVars, Begin, ExecuteRead, CoordinateRead, Route, Consume,
     DuplicateBlocked, ReportStep, ReviewIn, ReportReviews, ParseVerdict, ReportCommit, Quit, RunStep,
     Probe, Grant, DispatchRestart
<1>4. claims' = claims /\ ledger' = ledger => ClaimHolder' = ClaimHolder /\ Recorded' = Recorded
  BY DEF ClaimHolder, Recorded
<1> QED
  BY <1>1, <1>2, <1>3, <1>4 DEF Operations!vars

\* What the workers of a run do to claims and records is a behaviour of SingleUse,
\* which GovernedInvocation is proved to implement: the operation of a command for
\* a step is claimed once and for good, and its execution is recorded once and
\* only under the claim, whatever workers race, resume or die.
THEOREM RefinesSingleUse == DispatchSpec => DispatchImplementsSingleUse
<1> USE DEF NONE
<1>1. DispatchInit => Operations!Init
  <2> SUFFICES ASSUME DispatchInit PROVE Operations!Init
    OBVIOUS
  <2>1. claims = {} /\ ledger = {}
    BY DEF DispatchInit
  <2>2. ClaimHolder = [k \in OperationKeys |-> NONE] /\ Recorded = {}
    BY <2>1 DEF ClaimHolder, Recorded
  <2> QED
    BY <2>2 DEF Operations!Init
<1>2. DispatchInv /\ DispatchTypeOK /\ [DispatchNext]_allVars => [Operations!Next]_Operations!vars
  BY DispatchSimulates
<1> QED
  BY DispatchHolds, DispatchTypeCorrect, <1>1, <1>2, PTL DEF DispatchSpec, DispatchImplementsSingleUse, Operations!Spec
=============================================================================
