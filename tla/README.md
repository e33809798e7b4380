# A TLA+ verification of the VITO platform

VITO is an API (NestJS over PostgreSQL through Prisma) that runs governed
engineering work: a workflow of steps is planned, built, tested, reviewed and
released by AI providers, and humans hold the decisions that matter. This
directory models the parts of it whose correctness depends on the order in which
concurrent requests, crashes, timeouts and retries happen, and the pure decisions
they rest on; it checks them with TLC on small instances and proves the central
properties with TLAPS for all sizes.

## 1. The system

| Component | State | Operations | What is hard |
|---|---|---|---|
| Engineering state machine (`packages/contracts/src/engineering/state-machine.ts`, `review.ts`, `human-decision.ts`) | none, a pure function | `nextEngineeringStep`, `resolveVerdict`, `enforceAl4Requirements`, `nextEngineeringHumanDecision` | a loop budget compared in three places; rules on independent reviewers that exist three times |
| Workflow runtime (`modules/workflow-runtime`) | `WorkflowRun`, `WorkflowStepRun` rows | create, start, complete a step, cancel, resume; human correction, release approval, two recoveries | reads without locks, then writes: every call may act on a row that has changed |
| Governed invocation (`modules/governed-invocation`, `modules/governed-runtime`) | claims, envelopes, execution records; a timer per call | `executeWorkspaceFileOperation`, `invoke`, `claim`, `markCompleted` | retries, a timer racing a late adapter, a store failing after its write, a crash between ledgers |
| CODE_BUILD approvals (`modules/engineering-release`) | `CodeBuildApproval` rows | create, revoke, resolve, consume for a dispatch, public consume | check, then use; an approval must be worth one invocation |
| Workflow agent runtime and agent workforce (`modules/workflow-agent-runtime`, `modules/agent-workforce`) | metadata of steps, execution plans, assignments | execute the current step or up to a boundary, coordinate AL4 reviews, parse verdicts, hand over evidence and corrections; route, consume, invoke | no claim on the step before the dispatch; a step's evidence is written by one call and trusted by another |
| Provider registry and gate (`modules/provider-registry`, resolvers, `code-build-execution-target.ts`) | `AgentProvider` and capability rows, runtime states, cloud profiles | create, update, activate, assign; route, resolve policy and credential | one row read by four services while an administrator edits it |
| Remote execution worker, cloud executor, cancellation registry | in-memory registrations and tombstones; a directory per run, a session per cloud execution | register, provision by git, run, time out, kill, capture, tear down, clean up | each await may be the last; the directory is shared by executions of a run |
| Operator bridge (`modules/operator-bridge`, `scripts/operator-bridge-real-flow.js`) | `OperatorTask` rows | submit once per request id, store the result, expire payloads; the harness that submits, polls, replays | a crash between commit and dispatch; a client that loses its connection |
| Users, auth (`modules/users`, `modules/auth`) | `User` rows, token versions | create, update, soft delete, change password, log in, authorise | the last OWNER under a lock; a login racing a change of role |
| Tasks, digital employees, capabilities | tenant-scoped rows | assign, grant, revoke, activate | who executes is read in several steps |
| Provisioning bootstraps | rows of the registry and of the employees | provision provider, agent, release verification | retries of what is half done, beside administration |
| Learning, skill promotion | experiences, outcomes, reflections, candidates, promotions, skills, reviews | capture, evaluate, reflect, promote, revert, propose, decide | no transactions: every statement may be the last |
| Execution policy (`execution-policy.ts`), workspace file tool (`workspace-file.adapter.ts`) | none; the files and links of the host | `evaluatePolicy`; read, write, create a file | paths and commands in many spellings; links, dangling ones too |
| Organization structure, memory, mission context, goal planner, source vault, command bus, Custos, control center, scripts | rows with one writer per request; user interface | | no protocol between requests |

How they interact: a request to execute the current step reads the run, resolves
an approval if the step is a CODE_BUILD, and asks the agent workforce, which
selects a provider, consumes the approval, and calls the governed runtime. That
one writes an envelope and invokes; the invocation claims the logical operation,
runs the adapter against a timer, settles the claim and returns; the record and
the envelope follow. The adapter has the worker provision a workspace and run the
agent. Its status comes back to the workflow as a `completeStep`, which asks the
state machine what is next. A cancellation goes the other way, from the run row to
the executions through an in-memory registry. The operator bridge enters at the
agent workforce with a task of its own instead of a workflow step.

`PROJECT.json` lists all components with their status, the hazards at their
lines, and for each definition the source lines it stands for.

## 2. The modules

| Module | Models |
|---|---|
| `EngineeringStateMachine` | the transition function and the reviewer rules, as operators |
| `WorkflowRuntime` | one workflow run and all services that write it |
| `WorkflowDispatch` | `WorkflowRuntime` composed with the workers that execute its steps, the approvals they consume, the claims they make and the providers they use |
| `GovernedInvocation` | a set of governed calls, the claim table, the ledgers |
| `CodeBuildApproval` | approvals, dispatches and the public endpoint |
| `ExecutionWorker` | executions from the adapter to the cleanup, with the cancellation registry and the workspaces |
| `OperatorBridge` | tasks, their submissions and the harness |
| `ProviderGate` | one provider's row under administration, and the dispatch that passes the router, the invocation's checks, the policy and the credential broker |
| `AgentIdentity` | execution plan, assignment, task and the resolution of who executes a step |
| `Provisioning` | the three bootstraps beside administration |
| `Users` | users, tokens and the requests that change them |
| `Learning` | the pipeline from experience to skill, statement by statement |
| `ExecutionPolicy`, `WorkspaceFileTool`, `Decisions` | the policy and the workspace file tool as operators; the pure decisions evaluated over small inputs |
| `SingleUse` | the abstract promise: a token is taken once and for good, its effect happens at most once and only after |
| `Absent` | the missing value that the services share |
| `MC...` | the instances that TLC checks |
| `WorkflowRuntimeProofs`, `WorkflowDispatchProofs`, `GovernedInvocationProofs`, `CodeBuildApprovalProofs`, `ExecutionWorkerProofs`, `OperatorBridgeProofs` | theorems and proofs about the module of that name |
| `ServicesProofs` | theorems and proofs about `AgentIdentity`, `Provisioning`, `Learning` and `Users` |
| `PolicyProofs` | theorems and proofs about `ExecutionPolicy`, `WorkspaceFileTool`, `Decisions`, the reviewer rules and `ProviderGate` |

### WorkflowRuntime

`run`, `steps` and `created` are the two tables; `armed` is the cancellation
tombstone in memory; `op` holds, for every call in flight, what it has read;
`issued` counts calls so that each kind can be bounded. A call is a sequence of
steps, cut where the code reads something that a later write depends on:
`StartRead`/`StartCommit`, `CompleteCall`/`CompleteFreshRead`/`CompleteCommit`,
and so on. The writes of a transaction are one step with its commit, because at
READ COMMITTED each write re-evaluates its WHERE clause on the latest row and
holds the lock to the commit; where the code claims a row conditionally the guard
is in the commit, where it updates by id alone (`startRun`, `resumeRun`) there is
none. `Abort` is any rollback (a lost claim, a deadlock between the two lock
orders, a failed audit insert) and `Restart` the end of the process. The model
keeps of a step's metadata only what a later guard reads. `WAITING_FOR_HUMAN` is
never written by the code, so the branch of `resumeRun` for it is not an action.

`Completions` is the set of reports that the callers of `completeStep` make. The
instances give the successes of all steps, verdicts A, C and D, failures and
provider blocks, a verification with a structured PASS and one as earlier releases
stored it (LEGACY), the human approval, and a success of the gate without an
approval, which no caller reports today and which the state machine must refuse.
Starts may overlap, as the code lets them: `startRun` reads the status and updates
by id, so both commit and each inserts a PLAN step (`WorkflowStarts` shows it). The
properties say what is left then. `SingleThread` counts threads of work, which are
the open steps and the one a human may open, against the starts that committed: no
other call begins a thread, and in a run that was started once there is one open
step and the run row names it. `LoopAccounting` says that the stored count never
exceeds the corrections entered, and equals them within the budget in a run that
was started once; with two threads a count written back as it was read may undo an
increment. `StartedOnce` is a condition on the rows, not on the calls: overlapping
starts of which one rolls back are in.

### WorkflowDispatch

Extends `WorkflowRuntime` with the calls that work on a run. `d` is the call of
each worker: its mode (one step or up to a boundary, the AL4 coordinator, the
verdict service), how far it is, and what it holds. `consumed` are the approvals
of the mission, `claims` and `ledger` the tables of the governed runtime,
`lineage` the evidence the workers write into step metadata and later read back,
`exhausted` what the router rejects. Here `completeStep` is called only by
workers, with the reports the code makes of an execution (`completionOf`,
`verdictOf`), so `Completions` is empty; the calls of `WorkflowRuntime`
interleave. Of the invocation the module uses what `SingleUse` promises, which
`GovernedInvocationProofs` proves of the detailed one. A call that cannot go on
throws (`Quit`), and `DispatchRestart` loses all of them.

### GovernedInvocation

Each element of `Calls` is one call with a fixed request. `pc` follows it through
`executeWorkspaceFileOperation` and `invoke`; `claims`, `envelope` and `records`
are tables; `adapter` is what the execution does in the world, which goes on when
the call has timed out or the process has died. The store may throw with its
insert done or not done, `markCompleted` may fail, and so may each later write.
The checks before the claim write nothing and are here a choice between passing,
refusing and throwing; `ProviderGate` has them in detail. In `MixedRequests` one
call reuses an attempt identity for another operation: today's caller draws a
fresh UUID, but the store guards against it and the instance exercises that guard.

### CodeBuildApproval

Rows, in-flight calls and a flag per approval for the passing of its expiry. A
dispatch resolves the only available approval of the step's mission, takes its
time stamp, consumes the approval under the key of the step, and then invokes.
The public endpoint consumes under any key, also one that looks like a step's.

### ExecutionWorker

An execution goes through the adapter's checks, registration, validation, the git
commands of the provisioning, the sandbox, capture, session teardown and cleanup;
each may fail. `dir` is how far a run's directory is set up and decides which git
command can succeed in it (a remote is added once); `written` is whose agents
wrote to the tree. Signals are those of the code: SIGTERM on timeout and on
cancellation, SIGKILL after the grace period. A crash loses registrations and
tombstones; a cloud agent, which has a process group of its own, stays as an
orphan that writes on.

### OperatorBridge, ProviderGate, AgentIdentity, Provisioning, Users, Learning

Each has its rows, the calls in flight with what they have read, and counters
that bound the calls. The cuts follow the code: `submitTask` is a transaction, a
dispatch and another transaction; the calls of the registry read a row and write
it in a later transaction; `update` and `softDelete` of a user hold the
organization's lock; in learning every statement is a step of its own, an
operation has an input of the form its service accepts (`InputTypes`), and the
tables to start from are any that earlier operations may have left (`Learned`). In
`AgentIdentity` each process has the step mapping of its version, since a rolling
deployment runs two. The harness is a client among others in `OperatorBridge`,
with its polls, replay, conflicting probe and final judgement.

### ExecutionPolicy, WorkspaceFileTool and Decisions

A path is a sequence of segments, percent-encoded or not; a command is a sequence
of words that may be quoted. A host has symbolic links, each with the path at which
following it ends, and the paths that are there: a link to a path that is not there
is dangling. `path.resolve` and `canonicalizePath` walk the segments of a path one
by one (`Entered`, `Followed`), a chain is split into the longest runs of words that
are no operators (`PartsBetween`). `canonicalizePath` asks `existsSync`, for which a
dangling link does not exist, and keeps its name; the host itself follows every link
(`hostLookup`, external), and that is the file a request is compared with.

`WorkspaceFileTool` is the adapter that carries out an admitted file action, with
its checks in their order: the base, the target, the nearest ancestor that `lstat`
finds, the refusal of links, the directories a creation makes and the file it opens.
It works in the directory of an organization below the policy's root and takes the
path as requested, where the policy judges the decoded path from the root, so the
two may name different files. `SpellingGainsNothing` therefore has two parts: what
the policy admits is judged as the file the host has for it, unless a dangling link
is on the way, of which `existsSync` tells the policy nothing (`JudgedAsReached`);
and whatever the tool then makes or opens lies in the real directory of the
organization, with dangling links or without (`ToolConfined`). That the file a tool
opens is one the policy would admit by name is not claimed.

`Decisions` evaluates the policy and the verdict step over all small inputs and
compares the outcome with what the file, the parts of the chain and the evidence
warrant. Names are compared whole: the policy's string prefix for the home directory
also takes a sibling whose name begins like it, and a name that contains a sensitive
one, which changes a refusal's reason or refuses more. A segment is a name without a
percent sign or one of the `Spellings`; a name with an encoding in it exists for the
tool only.

## 3. The runs

All bounds are constants of the instance.

| Run | Bounds | Shows |
|---|---|---|
| `WorkflowRaces` | 2 callers, 7 steps, 1 loop, 2 starts, 2 cancels, 2 resumes, 1 correction, 1 test recovery, 1 restart | `SingleThread`: no more threads of work than starts, and after one start one open step, the one the run row names; `LoopAccounting`: the loop count never exceeds the corrections, and after one start equals them within the budget; `StepsFinal`: a terminal step is never rewritten; `CancelSignalled`: a committed cancellation is signalled unless the process died |
| `WorkflowRelease` | 2 callers, 18 steps, 1 loop, 1 start, each human call once | `ReleaseLineage`: a release rests on an approved gate, a verification and a verdict |
| `SingleUseLedgers` | invocation: 3 calls, 1 restart; approval: 2 approvals, 2 missions with a step each, 2 callers, 6 calls | `AtMostOneExecution` per logical operation; `LedgersTruthful`: claims settled by their owner, no untrue success; `AuthorisedOnce`: one invocation per approval and per step, in scope; `RevokedStaysUnused`; both refine `SingleUse` |
| `Progress` | invocation: a push and a read, 1 restart; bridge: 1 key, 2 bodies, 2 clients and the harness, 1 fault | `CallReturns`, `TaskSettles` under fairness; `DispatchedOnce`, `HarnessVerdict`; the claim of a task refines `SingleUse` |
| `DispatchRaces` | AL4, 2 workers, 3 dispatches of up to 3 steps, 7 steps, 4 providers, 2 approvals, 1 fault, 1 resume, 1 restart | `SuccessIsItsProviders`: no step succeeds on another's result; `ExecutedOnce`; `Al4Independent` |
| `DispatchCorrection` | AL2, 2 workers, 4 dispatches of up to 8 steps, 12 steps, 1 human correction | `ReviewedChange`: what is verified is the last change, tested and reviewed |
| `Worker` | a local and a cloud execution of one run, 2 cancels, 1 tombstone, 2 faults, 1 crash | `CancelledIsSignalled`, `WorkspaceExclusive`, `ResultIsTrue`, `EveryExecutionEnds` |
| `Services` | see below | fifteen properties of the services beside the workflow |

`Services`, `Progress` and `SingleUseLedgers` are sums: their variable `part`
chooses in the initial state which service a behaviour is about, and the others
stay in one initial state. The services share no rows at the granularity of their modules, so that a
product of them would only repeat each one's states; the sum explores all of each.
The properties are those of the components' modules, which the sums extend and the
theorems of section 4 are about. The parts of `Services`:

| Part | Bounds | Properties |
|---|---|---|
| users | 2 owners and the bridge's identity, 2 requests at a time, 4 in all, token versions to 2 | `LastOwner`, `TokenCurrent` |
| learning | 2 operations at a time, 4 in all, from nothing and from a candidate that became a pattern, 1 failing statement | `LearnedFromEvidence`, `LedgerExplainsMaturity`, `ReviewFinal` |
| gate | 2 administrators with 2 calls, 6 capabilities, 4 aliases, 5 cloud profiles, one dispatch | `GateIsExact`, `CodeBuildInItsTier`, `CloudHasCredential` |
| identity | 1 agent, 2 capabilities, 2 resolutions and 2 approvals of two versions, 2 edits of the task, 2 changes | `ExecutedAsPlanned`, `OneAssignee` |
| provisioning | 2 provider, 2 agent, 1 release bootstrap, 1 change, 1 fault | `BootstrapCompletes`, `AuthorityUntouched` |
| decisions | evidence with 2 families, providers, executions and up to 2 reviews; paths of 3 segments over 8 hosts; chains of 18 commands | `VerdictEarned`, `SpellingGainsNothing`, `ChainIsItsParts` |

Why the bounds suffice: the races are between two calls on one row, a third call
adds no new kind of staleness; 7 steps reach a second thread of work beside a
correction, its test and a blocked run, 18 the release after a correction, a test
recovery and a verification recovery; three invocations give a retry and a
conflict of identities; six approval calls let both approvals be created, one
revoked and both steps dispatched; 7 steps with batches reach the AL4 verdict, 12
the verification after a correction; two executions meet in one directory, and
one tombstone of two runs is evicted; four user requests let two owners act on
each other and a third change come between. Two of the providers share a command
and two families exist for the builders, so that a retry can go to either kind.
Callers and approvals are symmetric sets. `CHECK_DEADLOCK FALSE` because calls are
bounded and a finished run, task or execution stops.

Four runs show that the code does not keep what it, or a document, says. Each is
a finding in `PROJECT.json` with the quotation:

- `WorkflowTerminal`: a start or resume that read before a cancellation revives
  the cancelled run, since both update by id alone.
- `WorkflowStarts`: two starts that both read CREATED both commit, and the run has
  two PLAN steps.
- `CorrectionStuck`: a correction entered by verdict C or by a failed test cannot
  be dispatched, since the handoff is written for a human decision on verdict D.
- `WorkspaceLeft`: a provisioning that fails half way leaves its directory, and
  the next execution of the run fails in it.

The model shows more of the kind, of which no run is kept: a late resume also releases a run that meanwhile waits for
a human decision; the transition function by itself compares only the first AL4
reviewer's family with the builder's (the coordinator compares both, which is why
`Al4Independent` holds in the composition); another provider's command alias makes
another logical operation, so that a retry on another provider executes again
where no approval stands in the way; an approval can be both consumed and revoked;
a step whose operation was claimed before a provider block is READY after the
resume but answered as a duplicate for ever.

Each property of a passing run has a mutant: an operator beside the definition it
replaces, marked as such, that changes the code's behaviour the way a plausible
mistake would and under which TLC finds the property violated.

Fairness. `Progress` assumes weak fairness of `Advance(c)`, the next step of an
invocation that began, and of `Serve(c)`, the next step of a bridge call: the
promises of the database settle or reject and `setTimeout` fires. Nothing is
assumed of the adapter, and a restart may end a call; `TaskSettles` allows for a
crash or a failing transaction, after which the code leaves the task DISPATCHING.
`Worker` assumes it of each execution's own steps, of its two timers (the timeout,
and the SIGKILL that follows a SIGTERM) and of the end of an agent that was sent
SIGKILL, which the kernel guarantees; nothing is assumed of an agent that was not. No liveness is claimed of workflows, which wait for humans.

## 4. The proofs

| Theorem | Statement |
|---|---|
| `WorkflowRuntimeProofs`: `TypeCorrect`, `SingleActiveStep`, `LoopsAccounted`, `ReleasesHaveLineage`, `CancellationSignalled`, `TerminalStepsFinal` | the safety properties of both passing workflow runs, for every set of callers, bound, budget and set of completions, overlapping starts included |
| `WorkflowDispatchProofs`: `DispatchHolds`, `DispatchTypeCorrect`, `NothingTwice`, `SuccessesAreEarned`, `ReviewersAreIndependent`, `VerifiedIsReviewed`, `RefinesSingleUse` | `DispatchTypeOK`, `ExecutedOnce`, `SuccessIsItsProviders`, `Al4Independent`, `ReviewedChange` and the refinement of `SingleUse`, for any number of workers, dispatches, steps, providers, approvals, faults and restarts, at every assurance level |
| `GovernedInvocationProofs`: `TypeCorrect`, `OneExecution`, `LedgersTrue`, `RefinesSingleUse` | the safety properties of the invocations in `SingleUseLedgers`, for every set of calls and requests |
| `CodeBuildApprovalProofs`: `TypeCorrect`, `AuthorisationHolds`, `RevocationHolds`, `RefinesSingleUse` | the properties of the approvals in `SingleUseLedgers`, for every set of approvals, steps and callers |
| `ExecutionWorkerProofs`: `TypeCorrect`, `CancellationReaches`, `OneInTheWorkspace`, `ResultsAreTrue` | the safety properties of `Worker`, for any runs, executions, requests and tombstone limit |
| `OperatorBridgeProofs`: `TypeCorrect`, `OneDispatch`, `VerdictIsRight`, `RefinesSingleUse` | the safety properties of the bridge in `Progress`, for any keys, bodies, clients, outcomes and faults |
| `ServicesProofs`: `UsersTypeCorrect`, `OwnerIsLeft`, `TokensAreCurrent` | `LastOwner` and `TokenCurrent`, for any users, owners, passwords and requests |
| `ServicesProofs`: `IdentityTypeCorrect`, `ExecutionFollowsPlan`, `TaskHasOneAssignee` | `ExecutedAsPlanned` and `OneAssignee`, for any agents, capabilities, mappings and processes |
| `ServicesProofs`: `ProvisioningTypeCorrect`, `BootstrapsComplete`, `AuthorityStays` | `BootstrapCompletes` and `AuthorityUntouched`, for any capabilities and overlapping bootstraps |
| `ServicesProofs`: `LearningTypeCorrect`, `LearningIsGrounded`, `PromotionsAddUp`, `ReviewsAreFinal` | `LearnedFromEvidence`, `LedgerExplainsMaturity` and `ReviewFinal`, for any operations, inputs, failures and earlier tables |
| `PolicyProofs`: `BuildsInTheirTier`, `CloudNeedsCredential`, `TheGateIsExact` | `CodeBuildInItsTier`, `CloudHasCredential` and `GateIsExact`, for any capabilities, aliases, profiles and administrators |
| `PolicyProofs`: `VerdictsEarned` | `VerdictEarned`, for any families, providers and executions and any number of reviews |
| `PolicyProofs`: `ChainAdmitted`, `ChainsAreTheirParts` | `ChainIsItsParts`, for any set of single commands; `ChainAdmitted` is the same of `classifyCommand` itself, for commands of any length with any number of operators |
| `PolicyProofs`: `SpellingsGainNothing` | `SpellingGainsNothing`, for any workspace, host with files and symbolic links (dangling ones included), and requested path of any length |

Assumptions. `ConstantsAssumption`, `ApprovalAssumption` and `VerdictAssumption`
(the types of completions; only the human approval says `humanApproved`; a verdict
stored in metadata is the one reported), `DispatchAssumption` (room for the plan
and the build a dispatched run starts with), `RequestAssumption` (an attempt has an
identity), `ApprovalConstants` (a step has one mission; NONE is no identifier),
`WorkerAssumption` (the registry keeps at least one tombstone, an execution has a
run and a tier), `BridgeAssumption` (the probe of the harness differs from its
request), `UsersAssumption` (the organization starts with an owner),
`IdentityAssumption` (each process maps the step to one capability),
`ProvisioningAssumption` (a call is of one bootstrap) and `LearningAssumption`
(inputs have the form the services require; the tables to start from are grounded
themselves, and their ledgers add up), `GateAssumption` (an alias is a word without
shell operators, which `providerCommandAlias` enforces), `CommandAssumption` (a
single command has a word and no operator) and `PathAssumption` (names are no
spellings, the workspace and the ends of links consist of names, and the end of a
link that leads somewhere is what `realpathSync` returns: no directory on the way is
itself a link). All say in addition that the missing value is no identifier and that bounds are numbers. TLC
evaluates each in a run. The
theorems of `WorkflowDispatchProofs` are about a run that has been started once.

Arguments.

- *Workflow.* `SingleThread` is not inductive: a call in flight may hold anything
  it read. The invariant adds what each kind of call may still rely on when it
  commits (`Relies`): a step it read has the type it read, and a completion holds a
  loop count that the corrections have reached. PLAN steps are only ever added, so
  `StartedOnce` can become false and never true again, and what is said of a run
  started once is inductive although starts overlap: a second start makes it vacuous,
  and adds one thread and one start to the rest (`CountsGrow`, `OneOpen`). The
  invariant also links each step to the
  step that caused it (a gate to a succeeded verification, a verification to a
  succeeded verdict), which gives `ReleaseLineage`. The loop count needs the one
  non-obvious fact of this code: `completeStep` writes a count it read earlier,
  and in a run started once this is harmless because, while the claimed step is
  still READY, no other step can have been entered, so the count has not moved
  (`ClaimFinds`); with two threads what was read is still no more than the
  corrections entered (`RowsStay`). The
  transactions share two lemmas, one for rows updated in place and one for an
  inserted step.
- *Dispatch.* Two invariants, the second resting on the first. `DispatchInv` says
  what a worker has done by how far it is (`WorkInv`): a build that is about to be
  claimed has consumed an approval for its step and finds no claim for it, an
  execution has its claim and no record yet, a success has its record, and the
  report in `completeStep` is what that execution came to. Two workers are never
  at the same place with the same step or key (`Apart`), which is what a
  consumption under the step's own key and a unique claim give; it is the part
  that `ExecutedOnce` cannot do without. `ReviewInv` adds the thread of work
  (`Thread`): only the last step is open, so every step from TEST to VERIFY was
  caused by the step created just before it, which had succeeded (`Follows`).
  `ReviewedChange` follows by going back five steps: there is no room for a change
  between the test and the verification. For `Al4Independent` it adds what the
  coordinator holds while the second review is still out (`ReviewWork`) and what it
  has written (`ReviewRows`), both relative to the builder of step 2, which cannot
  change any more once it has succeeded (`Stable`). All other steps of the runtime
  are quiet: only four transactions write the rows of the run (`RunWritten`).
  In the refinement a claimed operation is a taken token and a recorded execution
  a fired one: the guarantee that `GovernedInvocation` gives for its keys reaches
  the workers that race for a step. It is stated in the proof module only, since
  `ExecutedOnce` is what the runs check of it, and rests on `DispatchTypeOK`: a
  worker past the router has a provider, so its operation is one of the tokens.
- *Invocation.* The invariant says who holds a claim: a call past the gate holds
  the claim of its key, two calls never hold the same, a settled claim has a
  witness. `SameRequestSameKey` turns equal requests into equal keys. The
  refinement maps a claim row to a taken token and a started adapter to a fired
  one; every step takes, fires or stutters.
- *Approvals.* A call between consumption and invocation is the only one for its
  approval, which has not been invoked under yet, and consumption keys are unique.
- *Worker.* The invariant (`ExecInv`, `Flags`) adds what the flags of an execution
  are at each point of its way: which executions are registered, that one asked to
  stop has its signal aborted and, if its process runs, killed, and where a session
  may still be open. For the workspace it says that an execution past
  `git remote add` leaves the directory with a remote, in which a second
  `git remote add` fails. Eviction and expiry only take tombstones away
  (`DeleteFacts` and its neighbours), so the claim about registered executions
  survives them.
- *Bridge.* A row has the client that inserted it as its owner, and at most one
  dispatch, with the row's own request (`RowInv`); a call that dispatches or stores
  a result owns the row of its key, which is DISPATCHING (`Owns`). A row keeps id,
  owner and request, and a terminal row keeps everything (`Stays`), so what the
  harness has seen of its task is still so when it judges (`HarnessInv`).
  `Explained` carries the converse: a harness that reports failure without a fault
  or a deadline saw a task that did not end well. In the refinement an existing row
  is a taken token and a dispatch a fired one.
- *Users.* Neither property is inductive, since a request may hold a user as it
  read it. `Relies` says what it may count on: under the lock, the rows as they
  are; outside, a `Snapshot`, of no later version than the user has and equal to
  the user where the versions are equal. Every step raises the version with
  whatever a token is issued from (`UserGrows`), and every step outside the lock
  leaves the owners (`UserKeeps`).
- *Identity.* The plan is written once and approvals are never taken back, so the
  capability and the assignment a lookup holds are those of the plan and of an
  approval (`LookupInv`).
- *Bootstraps.* Rows and links are never removed, so what a call holds as still to
  be linked contains what is missing (`CallHolds`); and nothing is active without
  administration (`Quiet`), so that the checks of the next bootstrap accept what a
  failed one has left.
- *Gate.* The tier, the alias and the credential are compared with what the
  dispatch itself has read, in its last step before the start: the theorems hold
  whatever the rows have become. Both properties are inductive with the shape of
  the dispatch record (`GateInv`). `GateIsExact` is about a dispatch that no
  administrator disturbed (`moved` is false), so its invariant (`ExactInv`) says at
  each place of the dispatch what has been established of the row as it still is
  (`Established`), and for a refusal that the provider is not usable. The step of
  the policy needs what `evaluatePolicy` says of a command of one word under each
  policy the resolvers can build: it is admitted if it is listed or is the trusted
  alias of its profile (`WordAdmitted`, `GateDecision`).
- *Verdicts.* The outcome is that of the input (`DecisionsInv`), so the property is
  one of `resolveVerdict` and `enforceAl4Requirements`. Both count distinct values
  (`Cardinality` of a range against a length); `AllDifferent` and `SomeDifferent`
  turn the counts into what they say of two positions.
- *Chains.* A part is a longest run without operators: every word that is no
  operator is in exactly one, and a part holds no operator, so splitting a part
  gives the part (`PartOfCommand`, `WordInPart`, `OnePart`). A dangerous word or a
  wrapper is then found in the part it is in. An alias is one word that no policy
  lists, so a chain is none, and a part that is one is not admitted as a part.
- *Spellings.* Three walks along a sequence (decoding, `path.resolve`,
  `canonicalizePath`) and one rule for them: a walk exists (`WalkExists`), and what
  holds at its start and survives a step holds at its end (`WalkInduction`). What
  `canonicalizePath` returns is `Canonical` and spelled with names, because each step
  adds a name that is no link or jumps to a target that is canonical; on such a path
  all three walks return the path itself, so the second decision sees the same file
  and the same checks. The host's lookup and `canonicalizePath` walk alike as long as
  no dangling link is met (`SeenLookup`). For the tool: below the deepest directory
  that it has found nothing exists, so no link leads away from there (`BelowAnchor`),
  and what it found lies inside (`Confined`).
- *Induction.* The library's rule of induction has a predicate as parameter. Where
  the proofs above need one, the lemma is about a set: a set of numbers that holds 0
  and every successor holds all (`SetInduction`, from the well-foundedness of the
  order), and the recursive functions are defined over a position in a sequence.
- *Learning.* `WorkHolds` says what an operation has read and relies on when it
  writes; it survives because rows are only added and a pattern on record stays so
  (`Grows`). `LedgerExplainsMaturity` counts the promotions on record together with
  those about to be recorded: `ChangeMaturity` adds one to the second set where
  the maturity crosses the same boundary (`BeyondMoves`), `CreatePromotion` moves
  one from the second set to the first, and a new candidate has none in either. A
  mature candidate has crossed into PATTERN more often than back, so a promotion
  shows it (`PatternIsExplained`).

Only model-checked. Liveness under fairness (`CallReturns`, `TaskSettles`,
`EveryExecutionEnds`) is out of the prover's reach. Every invariant and action
property of the passing runs has a theorem. The four violations are
counterexamples.

## 5. Not modelled

Payloads, prompts (their length limit too), redaction, cost, audit texts and
timestamps; tenancy (one organization); the ranking among eligible providers; the
artifact stores; a change of the host's files while the workspace file tool is at
work (its lookups and its write see one state of the host); the container's network rules and the
acceptance evidence of flight 001. Which files a failed removal leaves behind, and
what an orphaned cloud agent does to files, is only as much as `written` says.

The remaining components have status `not_modelled`: their requests write rows
with one statement or transaction, no later request acts on what an earlier one
read, and what is left is text processing (source vault, knowledge harvester), tree
algorithms over one read (organization structure), scores that decide nothing here
(Custos, provider intelligence), I/O (server credentials, imports, scripts,
migrations) or a user interface. Modelled as state machines they would have no
property beyond their own assignments.

## 6. What could follow

A refinement of `WorkflowDispatch` by `GovernedInvocation` and `CodeBuildApproval`
in place of the two abstractions it uses; several cloud executions with crashes that
lose only one of two API processes.
