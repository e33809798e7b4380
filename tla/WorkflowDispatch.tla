---------------------------- MODULE WorkflowDispatch ----------------------------
(***************************************************************************)
(* The workers of a workflow run, composed with the run itself:            *)
(* WorkflowAgentRuntimeService.executeCurrentStep and its runner, the AL4  *)
(* review coordinator and the verdict service, each of which reads the run *)
(* and its steps, dispatches agents through AgentWorkforceService.dispatch *)
(* (route, consume the CODE_BUILD approval, claim, execute) and reports to *)
(* WorkflowRuntimeService.completeStep.                                    *)
(*                                                                         *)
(* The run's own operations are the actions of WorkflowRuntime.  Of the    *)
(* governed invocation the workers see what SingleUse promises and         *)
(* GovernedInvocation is proved to keep: a key is claimed once, and a      *)
(* duplicate is answered POLICY_BLOCKED.  An approval is a number, open or *)
(* consumed for a step (CodeBuildApproval has its races with revocation,   *)
(* expiry and the public endpoint).  The router's scores are left out: any *)
(* eligible provider may be the best one.                                  *)
(***************************************************************************)
EXTENDS WorkflowRuntime

CONSTANTS
  Providers,      \* the organisation's AgentProvider rows
  Alias,          \* metadata.commandAlias of each
  ModelFamily,    \* modelFamily of each
  Supports,       \* the step types whose capability each has
  Outputs,        \* what an execution of each step type may return
  Cloud,          \* providers whose executions record runtime postconditions
  MaxApprovals,   \* bound on the CODE_BUILD approvals granted for the mission
  MaxDispatches,  \* bound on the worker calls
  MaxFaults,      \* bound on executions that do not succeed
  MAX_AUTONOMOUS_STEPS

VARIABLES
  d,          \* the worker call of each caller
  consumed,   \* the step each granted approval was consumed for, 0 while open
  claims,     \* logical operation keys <<step, alias>> that are claimed
  ledger,     \* GovernedExecutionRecord rows of executions
  lineage,    \* what a worker wrote into the metadata of each step
  exhausted,  \* providers the router rejects for their quota or health
  spent       \* worker calls made and executions failed so far

\* There is room for the plan and the build that the run starts with.
ASSUME DispatchAssumption == MaxSteps \geq 2

dispatchVars == <<d, consumed, claims, ledger, lineage, exhausted, spent>>
allVars == <<vars, dispatchVars>>

NoWork == [mode |-> "idle", pc |-> "idle", step |-> 0, approval |-> 0, provider |-> NONE,
           status |-> NONE, output |-> NONE, reviews |-> <<>>, budget |-> 0]

NoLineage == [source |-> NONE, provider |-> NONE, output |-> NONE, reviews |-> <<>>,
              builder |-> NONE]

\* SERVER_OWNED_CAPABILITY_BY_STEP; the steps without an entry are not for agents.
capabilityForStep ==
  [t \in EngineeringStepType |->
     CASE t = "PLAN" -> "CODE_PLAN"
       [] t \in {"BUILD", "CORRECTION"} -> "CODE_BUILD"
       [] t = "TEST" -> "TEST_EXECUTION"
       [] t = "PACKAGE" -> "REVIEW_PACKAGE"
       [] t = "RED_TEAM" -> "RED_TEAM"
       [] t \in {"VERIFY", "REMOTE_VERIFY"} -> "RELEASE_VERIFICATION"
       [] OTHER -> NONE]

\* A run whose plan is done, whose build is due and whose mission has one approval.
DispatchInit ==
  /\ run = [status |-> "RUNNING", currentStepType |-> "BUILD",
            correctionLoopCount |-> 0, blockReasonCode |-> NONE]
  /\ steps = [s \in StepId |-> IF s = 1 THEN [ReadyStep("PLAN", 0) EXCEPT !.status = "SUCCEEDED"]
                               ELSE IF s = 2 THEN ReadyStep("BUILD", 1) ELSE NoStep]
  /\ created = 2
  /\ armed = FALSE
  /\ op = [c \in Callers |-> Idle]
  /\ issued = [k \in CallKind |-> 0]
  /\ d = [c \in Callers |-> NoWork]
  /\ consumed = <<0>>
  /\ claims = {}
  /\ ledger = {}
  /\ lineage = [s \in StepId |-> NoLineage]
  /\ exhausted = {}
  /\ spent = [dispatches |-> 0, faults |-> 0]

-----------------------------------------------------------------------------
(* A worker call.                                                          *)

TypeOf(c) == steps[d[c].step].stepType

Work(c, local) == d' = [d EXCEPT ![c] = local]

Begin(c, mode, budget) ==
  /\ d[c] = NoWork /\ op[c] = Idle
  /\ spent.dispatches < MaxDispatches
  /\ spent' = [spent EXCEPT !.dispatches = @ + 1]
  /\ Work(c, [NoWork EXCEPT !.mode = mode, !.pc = "read", !.budget = budget])
  /\ UNCHANGED <<vars, consumed, claims, ledger, lineage, exhausted>>

\* The run is RUNNING and its current step is READY, of one of these types.
ReadyCurrent(types) ==
  {s \in Existing : /\ run.status = "RUNNING" /\ steps[s].status = "READY"
                    /\ steps[s].stepType = run.currentStepType /\ steps[s].stepType \in types}

AgentSteps == {t \in EngineeringStepType : capabilityForStep[t] # NONE}

OpenApprovals == {a \in DOMAIN consumed : consumed[a] = 0}

NeedsApproval(s) == capabilityForStep[steps[s].stepType] = "CODE_BUILD"

\* resolveCodeBuildApproval: the mission has exactly one approval to consume.
HasApproval(s) == NeedsApproval(s) => Cardinality(OpenApprovals) = 1

\* The step's metadata is the runtime's, and the ledger has the succeeded
\* execution it names.
ledgerEntry(s) ==
  /\ lineage[s].source = "RUNTIME"
  /\ [step |-> s, provider |-> lineage[s].provider, status |-> "SUCCEEDED"] \in ledger

\* The execution recorded the postconditions of its workspace.
runtimeEvidence(s) == lineage[s].provider \in Cloud

predecessor(s, types) == s # 0 /\ steps[s].status = "SUCCEEDED" /\ steps[s].stepType \in types

\* WorkflowRedTeamEvidenceHandoffService.resolve: what the review is shown is the
\* package it was caused by, the test of that package and the change tested.
\* The base revision of the workspaces does not move within a run.
redTeamEvidence(s) ==
  LET package == steps[s].causationId
      test    == steps[package].causationId
      change  == steps[test].causationId IN
  /\ predecessor(package, {"PACKAGE"}) /\ predecessor(test, {"TEST"})
  /\ predecessor(change, {"BUILD", "CORRECTION"})
  /\ \A e \in {change, test, package} : ledgerEntry(e)
  /\ runtimeEvidence(test) /\ runtimeEvidence(package)

\* WorkflowCorrectionContextHandoffService.resolve: the correction was caused by
\* a verdict D on the single review of a RED_TEAM step, whose blocking findings
\* are the task.
correctionContext(s) ==
  LET parse == steps[s].causationId
      review == steps[parse].causationId IN
  /\ predecessor(parse, {"PARSE_VERDICT"})
  /\ lineage[parse].source = "VERDICT" /\ lineage[parse].output = "D"
  /\ predecessor(review, {"RED_TEAM"})
  /\ lineage[review].output = "D" /\ ledgerEntry(review)

\* What the step must be handed before it is dispatched.
HandedOver(s) ==
  CASE steps[s].stepType = "RED_TEAM" -> redTeamEvidence(s)
    [] steps[s].stepType = "CORRECTION" -> correctionContext(s)
    [] OTHER -> TRUE

\* executeCurrentStep reads the run, its READY step, for CODE_BUILD the one
\* approval the mission has, and the evidence handed to a review or a correction.
\* The reads are one step: whichever READY step is found is the run's current one.
ExecuteRead(c) ==
  /\ d[c].mode = "step" /\ d[c].pc = "read"
  /\ \E s \in ReadyCurrent(AgentSteps) :
       /\ HasApproval(s) /\ HandedOver(s)
       /\ Work(c, [d[c] EXCEPT !.pc = "route", !.step = s,
                     !.approval = IF NeedsApproval(s) THEN CHOOSE a \in OpenApprovals : TRUE ELSE 0])
  /\ UNCHANGED <<vars, consumed, claims, ledger, lineage, exhausted, spent>>

\* The provider that the latest succeeded BUILD recorded.
builderLineage ==
  IF Succeeded("BUILD") = {} THEN NONE ELSE lineage[Latest(Succeeded("BUILD"))].provider

\* WorkflowAl4ReviewCoordinatorService.coordinate up to its first dispatch.
CoordinateRead(c) ==
  /\ d[c].mode = "al4" /\ d[c].pc = "read"
  /\ AssuranceLevel = "AL4" /\ builderLineage # NONE
  /\ \E s \in ReadyCurrent({"RED_TEAM"}) : Work(c, [d[c] EXCEPT !.pc = "route", !.step = s])
  /\ UNCHANGED <<vars, consumed, claims, ledger, lineage, exhausted, spent>>

\* Mutant: a reviewer is only kept apart from the reviewers before it.
independentOfReviewers(p, builder, reviews) ==
  \A i \in DOMAIN reviews : p # reviews[i].provider

\* ProviderRouterService.checkIndependence: neither the builder nor an earlier
\* reviewer, by id and by model family.
checkIndependence(p, builder, reviews) ==
  LET others == {builder} \cup {reviews[i].provider : i \in DOMAIN reviews} IN
  \A q \in others : p # q /\ ModelFamily[p] # ModelFamily[q]

\* routeForExecution: a provider that has the capability, is not limited, and is
\* independent where the request asks for it.
Eligible(c, p) ==
  /\ TypeOf(c) \in Supports[p]
  /\ p \notin exhausted
  /\ d[c].mode = "al4" => checkIndependence(p, builderLineage, d[c].reviews)

Route(c) ==
  /\ d[c].pc = "route"
  /\ \E p \in Providers :
       /\ Eligible(c, p)
       /\ Work(c, [d[c] EXCEPT !.pc = IF d[c].approval # 0 THEN "consume" ELSE "claim",
                               !.provider = p])
  /\ UNCHANGED <<vars, consumed, claims, ledger, lineage, exhausted, spent>>

\* consumeForDispatch: the approval is still open and its key workflow-step:<id>
\* was never used.
consumable(a, s) == consumed[a] = 0 /\ \A b \in DOMAIN consumed : consumed[b] # s

Consume(c) ==
  /\ d[c].pc = "consume"
  /\ consumable(d[c].approval, d[c].step)
  /\ consumed' = [consumed EXCEPT ![d[c].approval] = d[c].step]
  /\ Work(c, [d[c] EXCEPT !.pc = "claim"])
  /\ UNCHANGED <<vars, claims, ledger, lineage, exhausted, spent>>

\* Mutant: the key names the provider instead of its command.
keyByProvider(c) == <<d[c].step, d[c].provider>>

\* buildGovernedLogicalOperationKey of the RUN_COMMAND a dispatch makes.
OperationKey(c) == <<d[c].step, Alias[d[c].provider]>>

ClaimKey(c) ==
  /\ d[c].pc = "claim" /\ OperationKey(c) \notin claims
  /\ claims' = claims \cup {OperationKey(c)}
  /\ Work(c, [d[c] EXCEPT !.pc = "execute"])
  /\ UNCHANGED <<vars, consumed, ledger, lineage, exhausted, spent>>

\* The key is claimed already: the invocation is answered POLICY_BLOCKED.
DuplicateBlocked(c) ==
  /\ d[c].pc = "claim" /\ OperationKey(c) \in claims
  /\ Work(c, [d[c] EXCEPT !.pc = "result", !.status = "POLICY_BLOCKED"])
  /\ UNCHANGED <<vars, consumed, claims, ledger, lineage, exhausted, spent>>

\* How ProviderRuntimeStateService.observeExecution leaves the provider.
observed(p, status) ==
  IF status = "SUCCEEDED" THEN exhausted \ {p}
  ELSE IF status \in {"QUOTA_BLOCKED", "TIMED_OUT"} THEN exhausted \cup {p}
  ELSE exhausted

\* The execution ends and is recorded; what it ended with is up to the agent.
ExecutionEnds(c) ==
  /\ d[c].pc = "execute"
  /\ \E status \in {"SUCCEEDED", "FAILED", "QUOTA_BLOCKED"}, output \in Outputs[TypeOf(c)] :
       /\ status # "SUCCEEDED" => spent.faults < MaxFaults /\ output = NONE
       /\ status = "SUCCEEDED" => output # NONE
       /\ spent' = [spent EXCEPT !.faults = IF status = "SUCCEEDED" THEN @ ELSE @ + 1]
       /\ ledger' = ledger \cup {[step |-> d[c].step, provider |-> d[c].provider,
                                  status |-> status]}
       /\ exhausted' = observed(d[c].provider, status)
       /\ Work(c, [d[c] EXCEPT !.pc = "result", !.status = status, !.output = output])
  /\ UNCHANGED <<vars, consumed, claims, lineage>>

\* A later readiness probe finds the provider usable again.
Probe(p) ==
  /\ p \in exhausted
  /\ exhausted' = exhausted \ {p}
  /\ UNCHANGED <<vars, d, consumed, claims, ledger, lineage, spent>>

\* A human grants the mission another CODE_BUILD approval.
Grant ==
  /\ Len(consumed) < MaxApprovals
  /\ consumed' = Append(consumed, 0)
  /\ UNCHANGED <<vars, d, claims, ledger, lineage, exhausted, spent>>

-----------------------------------------------------------------------------
(* Reports to completeStep.                                                *)

\* Mutant: a process that ended well is a step that succeeded.
acceptedAlways(t, output) == TRUE

\* The projectors of a step's output: what they make of one they accept.
projectReview(output) == IF output \in ReviewVerdict THEN output ELSE NONE
projectTest(output) == IF output \in {"PASS", "FAIL", "BLOCKED"} THEN output ELSE NONE
projectVerification(output) == IF output \in {"PASS", "FAIL", "BLOCKED"} THEN output ELSE NONE

\* The patch of an execution touched a file.
changedFiles(output) == output = "CHANGED"

\* What executeCurrentStep demands of a successful execution's output.
reviewValid(t, output) == t = "RED_TEAM" => projectReview(output) # NONE
verificationPassed(t, output) == t \in {"VERIFY", "REMOTE_VERIFY"} => projectVerification(output) = "PASS"
correctionChanged(t, output) == t = "CORRECTION" => changedFiles(output)
testPassed(t, output) == t = "TEST" => projectTest(output) = "PASS"

accepted(t, output) ==
  /\ reviewValid(t, output) /\ verificationPassed(t, output)
  /\ correctionChanged(t, output) /\ testPassed(t, output)

Completion(t, status) ==
  [stepType |-> t, stepStatus |-> status, providerStatus |-> NONE, verdict |-> NONE,
   reviewResults |-> <<>>, independenceContext |-> <<>>, humanApproved |-> FALSE,
   metadata |-> NONE]

\* A provider that is blocked blocks the run.
blockedCompletion(t, status) == [Completion(t, "FAILED") EXCEPT !.providerStatus = status]

\* The completion executeCurrentStep reports.
completionOf(t, status, output) ==
  IF status \in BlockingProviderStatus THEN blockedCompletion(t, status)
  ELSE IF status = "SUCCEEDED" /\ accepted(t, output) THEN Completion(t, "SUCCEEDED")
  ELSE Completion(t, "FAILED")

\* completeStep's first checks, on which the call goes on or throws.
Report(c, in) ==
  /\ Completable(d[c].step)
  /\ Proceed(c, [Idle EXCEPT !.call = "completeTx", !.step = d[c].step, !.input = in])
  /\ UNCHANGED issued

ReportStep(c) ==
  /\ d[c].mode = "step" /\ d[c].pc = "result"
  /\ Report(c, completionOf(TypeOf(c), d[c].status, d[c].output))
  /\ Work(c, [d[c] EXCEPT !.pc = "report"])
  /\ UNCHANGED <<consumed, claims, ledger, lineage, exhausted, spent>>

\* The coordinator goes on with a succeeded review that has a verdict, a second
\* one independent of the first and of the builder.
Reviewed(c) ==
  /\ d[c].status = "SUCCEEDED" /\ d[c].output \in ReviewVerdict
  /\ checkIndependence(d[c].provider, builderLineage, d[c].reviews)

\* A review of the AL4 coordinator is in: the next one is dispatched.
ReviewIn(c) ==
  /\ d[c].mode = "al4" /\ d[c].pc = "result" /\ d[c].reviews = <<>>
  /\ Reviewed(c)
  /\ Work(c, [d[c] EXCEPT !.pc = "route", !.provider = NONE, !.status = NONE, !.output = NONE,
                          !.reviews = <<[provider |-> d[c].provider, verdict |-> d[c].output]>>])
  /\ UNCHANGED <<vars, consumed, claims, ledger, lineage, exhausted, spent>>

\* Both reviews are in and independent of each other and of the builder.
ReportReviews(c) ==
  /\ d[c].mode = "al4" /\ d[c].pc = "result" /\ Len(d[c].reviews) = 1
  /\ Reviewed(c)
  /\ Report(c, Completion("RED_TEAM", "SUCCEEDED"))
  /\ Work(c, [d[c] EXCEPT !.pc = "report",
                !.reviews = Append(@, [provider |-> d[c].provider, verdict |-> d[c].output])])
  /\ UNCHANGED <<consumed, claims, ledger, lineage, exhausted, spent>>

\* What parseAl4AndTransition demands of the latest RED_TEAM step: evidence of
\* the coordinator, each reviewer with a succeeded execution of that step, and
\* no provider or family twice among the reviewers and the builder.
evidenced(r) ==
  LET l == lineage[r]
      who == {l.reviews[i].provider : i \in DOMAIN l.reviews} IN
  /\ l.source = "COORDINATOR" /\ Len(l.reviews) = 2
  /\ \A p \in who : [step |-> r, provider |-> p, status |-> "SUCCEEDED"] \in ledger
  /\ Cardinality(who) = 2 /\ l.builder \notin who
  /\ Cardinality({ModelFamily[p] : p \in who \cup {l.builder}}) = 3

\* The completion the verdict service reports for the reviews of step r.
verdictOf(r) ==
  LET l == lineage[r] IN
  IF AssuranceLevel = "AL4"
  THEN [Completion("PARSE_VERDICT", "SUCCEEDED") EXCEPT
          !.reviewResults = [i \in DOMAIN l.reviews |->
             [verdict |-> l.reviews[i].verdict, reviewerExecutionId |-> l.reviews[i].provider]],
          !.independenceContext = <<[builderModelFamily |-> ModelFamily[l.builder],
             previousReviewerProviderIds |-> [i \in DOMAIN l.reviews |-> l.reviews[i].provider],
             previousReviewerModelFamilies |->
               [i \in DOMAIN l.reviews |-> ModelFamily[l.reviews[i].provider]]]>>]
  ELSE [Completion("PARSE_VERDICT", "SUCCEEDED") EXCEPT !.verdict = l.output,
                                                        !.metadata = l.output]

\* The latest succeeded RED_TEAM step has what the verdict service asks for.
Parsable ==
  /\ Succeeded("RED_TEAM") # {}
  /\ LET r == Latest(Succeeded("RED_TEAM")) IN
     IF AssuranceLevel = "AL4" THEN evidenced(r)
     ELSE /\ lineage[r].output \in ReviewVerdict
          /\ [step |-> r, provider |-> lineage[r].provider, status |-> "SUCCEEDED"] \in ledger

\* parseAndTransition: from the latest succeeded RED_TEAM step of the run.
ParseVerdict(c) ==
  /\ d[c].mode = "verdict" /\ d[c].pc = "read"
  /\ Parsable
  /\ \E s \in ReadyCurrent({"PARSE_VERDICT"}) :
       /\ Proceed(c, [Idle EXCEPT !.call = "completeTx", !.step = s,
                                  !.input = verdictOf(Latest(Succeeded("RED_TEAM")))])
       /\ Work(c, [d[c] EXCEPT !.pc = "report", !.step = s, !.approval = 0])
  /\ UNCHANGED <<issued, consumed, claims, ledger, lineage, exhausted, spent>>

\* Where the call cannot go on it throws, or is answered without a report: there
\* is no step for it to take, no provider, no approval, nothing to report.
Refused(c) ==
  LET w == d[c]
      read == CASE w.mode = "step" -> \E s \in ReadyCurrent(AgentSteps) : HasApproval(s) /\ HandedOver(s)
                [] w.mode = "al4" -> ReadyCurrent({"RED_TEAM"}) # {} /\ builderLineage # NONE
                [] OTHER -> ReadyCurrent({"PARSE_VERDICT"}) # {} /\ Parsable IN
  CASE w.pc = "read" -> ~read
    [] w.pc = "route" -> \A p \in Providers : ~Eligible(c, p)
    [] w.pc = "consume" -> ~consumable(w.approval, w.step)
    [] w.pc = "result" -> ~Completable(w.step) \/ (w.mode = "al4" /\ ~Reviewed(c))
    [] w.pc = "report" -> TRUE
    [] OTHER -> FALSE

Quit(c) ==
  /\ op[c] = Idle /\ Refused(c)
  /\ Work(c, NoWork)
  /\ UNCHANGED <<vars, consumed, claims, ledger, lineage, exhausted, spent>>

\* What the report writes into the step's metadata.
evidenceOf(c) ==
  [source   |-> CASE d[c].mode = "al4" -> "COORDINATOR" [] d[c].mode = "step" -> "RUNTIME"
                  [] OTHER -> "VERDICT",
   provider |-> d[c].provider, reviews |-> d[c].reviews,
   output   |-> IF d[c].mode = "verdict" THEN op[c].input.verdict ELSE d[c].output,
   builder  |-> IF d[c].mode = "al4" THEN builderLineage ELSE NONE]

\* completeStep commits the report.  executeUntilBoundary goes on with the next
\* step while the outcome is a next step and its budget lasts.
ReportCommit(c) ==
  LET in  == op[c].input
      out == nextEngineeringStep(StateMachineInput(in, TypeOf(c), op[c].loops))
      goesOn == /\ d[c].mode = "step" /\ d[c].budget > 1 /\ out.kind = "NEXT_STEP"
                /\ in.stepStatus = d[c].status IN
  /\ d[c].pc = "report"
  /\ CompleteCommit(c)
  /\ lineage' = [lineage EXCEPT ![d[c].step] = evidenceOf(c)]
  /\ Work(c, IF goesOn THEN [NoWork EXCEPT !.mode = "step", !.pc = "read",
                                           !.budget = d[c].budget - 1]
             ELSE NoWork)
  /\ UNCHANGED <<consumed, claims, ledger, exhausted, spent>>

\* Steps of the run's own operations.
RunStep(c) ==
  /\ \/ CompleteFreshRead(c) \/ CompleteClaimLost(c)
     \/ CancelRead(c) \/ CancelCommit(c) \/ CancelClaimLost(c) \/ CancelSignal(c)
     \/ ResumeRead(c) \/ ResumeCommit(c) \/ CorrectionRead(c) \/ CorrectionCommit(c)
     \/ Abort(c)
  /\ d[c].pc \in {"idle", "report"}
  /\ UNCHANGED dispatchVars

\* The process dies: calls are lost, and with them an execution's end.
DispatchRestart ==
  /\ Restart
  /\ d' = [c \in Callers |-> NoWork]
  /\ UNCHANGED <<consumed, claims, ledger, lineage, exhausted, spent>>

DispatchNext ==
  \/ \E c \in Callers :
       \/ \E mode \in {"step", "al4", "verdict"}, budget \in {1, MAX_AUTONOMOUS_STEPS} :
            (mode # "step" => budget = 1) /\ Begin(c, mode, budget)
       \/ ExecuteRead(c) \/ CoordinateRead(c) \/ Route(c) \/ Consume(c)
       \/ ClaimKey(c) \/ DuplicateBlocked(c) \/ ExecutionEnds(c)
       \/ ReportStep(c) \/ ReviewIn(c) \/ ReportReviews(c) \/ ParseVerdict(c)
       \/ ReportCommit(c) \/ Quit(c) \/ RunStep(c)
  \/ \E p \in Providers : Probe(p)
  \/ Grant \/ DispatchRestart

DispatchSpec == DispatchInit /\ [][DispatchNext]_allVars

-----------------------------------------------------------------------------
(* Properties.                                                             *)

\* A worker call has its declared values, works on a step that exists, and is
\* past the router with a provider only.
WorkTyped(w) ==
  /\ w.mode \in {"idle", "step", "al4", "verdict"}
  /\ w.pc \in {"idle", "read", "route", "consume", "claim", "execute", "result", "report"}
  /\ w.step \in 0..created /\ w.provider \in Providers \cup {NONE}
  /\ w.pc \in {"consume", "claim", "execute"} => w.provider \in Providers

\* Worker calls and the rows they write have their declared values (the rows of
\* the run are WorkflowRuntime's).
DispatchTypeOK ==
  /\ \A c \in Callers : WorkTyped(d[c])
  /\ \A a \in DOMAIN consumed : consumed[a] \in 0..created
  /\ claims \subseteq StepId \X {Alias[p] : p \in Providers}
  /\ \A x \in ledger : x.provider \in Providers
  /\ exhausted \subseteq Providers

\* A step of agents that succeeded was executed with success by the very
\* provider its metadata names, which is the one the AL4 rules and the ledger
\* checks go by, and its output was a pass or a change: no duplicate, race, resume or
\* restart completes a step on someone else's result.
SuccessIsItsProviders ==
  \A s \in Existing : s > 1 /\ steps[s].status = "SUCCEEDED" /\ steps[s].stepType \in AgentSteps =>
    LET l == lineage[s] IN
    /\ l.source \in {"RUNTIME", "COORDINATOR"}
    /\ [step |-> s, provider |-> l.provider, status |-> "SUCCEEDED"] \in ledger
    /\ steps[s].stepType \in {"TEST", "VERIFY", "REMOTE_VERIFY"} => l.output = "PASS"
    /\ steps[s].stepType = "CORRECTION" => l.output = "CHANGED"

\* A CODE_BUILD step reaches one provider at most, although the idempotency key
\* of a dispatch differs between providers: the approval's consumption key does
\* not (consumeForDispatch, workflow-step:<id>).
BuiltOnce ==
  \A x, y \in claims :
    x[1] = y[1] /\ capabilityForStep[steps[x[1]].stepType] = "CODE_BUILD" => x = y

\* One command is run once for a step, whichever of the providers that share it
\* is routed to, whatever workers race and however often the step is resumed.
CommandOnce ==
  \A x, y \in ledger :
    x.step = y.step /\ Alias[x.provider] = Alias[y.provider] => x = y

\* No work is done twice, although the step is not claimed before the dispatch: a
\* build reaches one provider, and a command runs once for a step.
ExecutedOnce == BuiltOnce /\ CommandOnce

\* At AL4 a verdict moves the run only on the coordinator's reviews, and those
\* are by two providers whose executions the ledger holds and which, with the
\* recorded builder, are three of three model families: what the transition
\* function alone does not check of the second reviewer.
Al4Independent ==
  \A s \in Existing :
    LET verdict == steps[s].stepType = "PARSE_VERDICT"
        r == IF verdict THEN steps[s].causationId ELSE s
        l == lineage[r]
        who == {l.reviews[i].provider : i \in DOMAIN l.reviews} \cup {l.builder} IN
    AssuranceLevel = "AL4" /\ steps[s].status = "SUCCEEDED"
      /\ (verdict \/ lineage[s].source = "COORDINATOR")
    => /\ steps[r].stepType = "RED_TEAM" /\ Cardinality(who) = 3
       /\ Cardinality({ModelFamily[p] : p \in who}) = 3
       /\ \A p \in who \ {l.builder} :
            [step |-> r, provider |-> p, status |-> "SUCCEEDED"] \in ledger
       /\ l.builder = lineage[Latest(Succeeded("BUILD"))].provider

\* A change reaches VERIFY only reviewed: the verdict that led there, through its
\* review and package, is about the test of the last change of the run, whatever
\* corrections, resumes and races came in between.
ReviewedChange ==
  \A s \in Existing : steps[s].stepType = "VERIFY" =>
    LET parse  == steps[s].causationId
        review == steps[parse].causationId
        test   == steps[steps[review].causationId].causationId
        changes == {x \in Existing : x < s /\ steps[x].status = "SUCCEEDED"
                                     /\ steps[x].stepType \in {"BUILD", "CORRECTION"}} IN
    /\ steps[parse].stepType = "PARSE_VERDICT" /\ steps[review].stepType = "RED_TEAM"
    /\ steps[test].status = "SUCCEEDED" /\ steps[test].causationId = Latest(changes)

\* "C -> CORRECTION -> TEST -> PACKAGE -> RED_TEAM -> PARSE_VERDICT": a correction
\* that is due can be handed to an agent, as it must to get to its TEST.
CorrectionDispatchable ==
  \A s \in ReadyCurrent({"CORRECTION"}) : HandedOver(s)
=============================================================================
