--------------------------- MODULE ExecutionWorker ---------------------------
(***************************************************************************)
(* The execution of agents: HeadlessLocalAgentAdapter and                  *)
(* CloudGovernedAgentAdapter on RemoteExecutionWorkerService.              *)
(* executeSandboxed, which registers with ExecutionCancellationRegistry,   *)
(* provisions a git workspace, runs the agent in a sandbox under a timeout *)
(* and a cancellation signal, captures the change set and cleans up.       *)
(*                                                                         *)
(* Every await of executeSandboxed ends an action, so other executions,    *)
(* cancelWorkflow and the death of the process come between.  A workspace  *)
(* is the directory of its workflow run (the role is always 'builder'), so *)
(* executions of one run share it.  Paths, environments, arguments and     *)
(* output are left out: a request says at which check it is refused, if at *)
(* any, and a worktree is the set of executions whose agents wrote to it.  *)
(***************************************************************************)
EXTENDS Naturals, Sequences, FiniteSets

CONSTANTS
  Runs,            \* workflow runs
  Execs,           \* executionIds, random and so never used twice
  Request,         \* of each: its run and tier, the sets of requirements of the adapter
                   \* it may lack (lacks), what the repository registry may say of it
                   \* (repository) and what may be wrong with its launch (launch)
  MAX_CANCELLATION_TOMBSTONES,
  MaxCancels,      \* bound on cancelWorkflow calls
  MaxFaults,       \* bound on failures: of git, of the file system, of the process
  MaxCrashes,      \* bound on deaths of the API process among them
  NONE

VARIABLES
  active,      \* registered executions
  requested,   \* those of them with cancelRequested
  tombstones,  \* cancelledWorkflows, oldest first
  dir,         \* how far the workspace of each run is set up on disk
  written,     \* executions whose agent wrote to the worktree of each run
  x,           \* each execution
  spent        \* cancels, faults and crashes so far

vars == <<active, requested, tombstones, dir, written, x, spent>>

Tier == {"LOCAL_ISOLATED", "CLOUD_GOVERNED"}

\* What each adapter demands before it calls the worker, in its order.
LocalRequirements == <<"action", "executable", "payload", "target">>
CloudRequirements == <<"action", "executable", "profile", "launcher", "credential", "payload", "target">>

Requirements == [LOCAL_ISOLATED |-> LocalRequirements, CLOUD_GOVERNED |-> CloudRequirements]

GitSteps == <<"ref", "init", "remote", "fetch", "checkout">>

ASSUME WorkerAssumption ==
  /\ MAX_CANCELLATION_TOMBSTONES \in Nat \ {0}
  /\ \A n \in {MaxCancels, MaxFaults, MaxCrashes} : n \in Nat
  /\ \A e \in Execs : Request[e].run \in Runs /\ Request[e].tier \in Tier
  /\ NONE # "CLOUD_SESSION_CLEANUP_FAILED"

NewExecution ==
  [pc |-> "idle", aborted |-> FALSE, cancelled |-> FALSE, timedOut |-> FALSE,
   signal |-> NONE, exit |-> NONE, identity |-> TRUE, session |-> FALSE,
   changes |-> {}, error |-> NONE, stopped |-> FALSE, result |-> NONE]

Init ==
  /\ active = {} /\ requested = {} /\ tombstones = <<>>
  /\ dir = [w \in Runs |-> "none"]
  /\ written = [w \in Runs |-> {}]
  /\ x = [e \in Execs |-> NewExecution]
  /\ spent = [cancels |-> 0, faults |-> 0, crashes |-> 0]

-----------------------------------------------------------------------------
Cloud(e) == Request[e].tier = "CLOUD_GOVERNED"
RunOf(e) == Request[e].run
At(e, pc) == x[e].pc = pc
Set(e, local) == x' = [x EXCEPT ![e] = local]
Go(e, pc) == Set(e, [x[e] EXCEPT !.pc = pc])

Fault == spent.faults < MaxFaults /\ spent' = [spent EXCEPT !.faults = @ + 1]

\* What is left of an execution whose call has returned.
Returned(local) ==
  [NewExecution EXCEPT !.pc = "done", !.session = local.session, !.changes = local.changes,
                       !.error = local.error, !.stopped = local.stopped, !.result = local.result]

\* executeSandboxed returns or throws; its finally unregisters.
Leave(e, local) ==
  /\ Set(e, Returned(local))
  /\ active' = active \ {e}
  /\ requested' = requested \ {e}

(* ExecutionCancellationRegistry.                                          *)

\* Expired tombstones are pruned before every use and expire in their order.
isWorkflowCancelled(w) == \E i \in DOMAIN tombstones : tombstones[i] = w

\* Mutant: a tombstone is not looked at by register.
startsFresh(w) == FALSE

\* register signals the new entry at once if its run was cancelled before.
signalledAtOnce(w) == isWorkflowCancelled(w)

\* The adapter's checks passed: executeSandboxed registers the execution.
Register(e) ==
  /\ At(e, "idle") /\ {} \in Request[e].lacks
  /\ active' = active \cup {e}
  /\ requested' = IF signalledAtOnce(RunOf(e)) THEN requested \cup {e} ELSE requested
  /\ Set(e, [x[e] EXCEPT !.pc = "validate", !.aborted = signalledAtOnce(RunOf(e))])
  /\ UNCHANGED <<tombstones, dir, written, spent>>

\* The first unmet requirement is the adapter's answer.
firstLacking(rs, lacking) ==
  rs[CHOOSE i \in DOMAIN rs : /\ rs[i] \in lacking
                              /\ \A j \in 1..(i - 1) : rs[j] \notin lacking]

AdapterRefuses(e) ==
  /\ At(e, "idle")
  /\ \E lacking \in Request[e].lacks \ {{}} :
       Set(e, [x[e] EXCEPT !.pc = "done", !.result = "ERROR",
                           !.error = firstLacking(Requirements[Request[e].tier], lacking)])
  /\ UNCHANGED <<active, requested, tombstones, dir, written, spent>>

enforceTombstoneBound(s) ==
  IF Len(s) > MAX_CANCELLATION_TOMBSTONES
  THEN SubSeq(s, Len(s) - MAX_CANCELLATION_TOMBSTONES + 1, Len(s)) ELSE s

\* The entry of a run, which is there at most once, is deleted before it is set again.
deleteEntry(s, w) ==
  IF \A i \in DOMAIN s : s[i] # w THEN s
  ELSE LET i == CHOOSE i \in DOMAIN s : s[i] = w IN SubSeq(s, 1, i - 1) \o SubSeq(s, i + 1, Len(s))

\* signal: abort() runs the listener of a running execution, which sends SIGTERM.
abort(l) ==
  IF l.pc = "running" /\ ~l.cancelled
  THEN [l EXCEPT !.aborted = TRUE, !.cancelled = TRUE,
                 !.signal = IF @ = NONE THEN "TERM" ELSE @]
  ELSE [l EXCEPT !.aborted = TRUE]

cancelWorkflow(w) ==
  LET matches == {e \in active \ requested : RunOf(e) = w} IN
  /\ spent.cancels < MaxCancels
  /\ spent' = [spent EXCEPT !.cancels = @ + 1]
  /\ tombstones' = enforceTombstoneBound(Append(deleteEntry(tombstones, w), w))
  /\ requested' = requested \cup matches
  /\ x' = [e \in Execs |-> IF e \in matches THEN abort(x[e]) ELSE x[e]]
  /\ UNCHANGED <<active, dir, written>>

\* CANCELLATION_TOMBSTONE_TTL_MS has passed for the oldest tombstone.
TombstoneExpires ==
  /\ tombstones # <<>>
  /\ tombstones' = Tail(tombstones)
  /\ UNCHANGED <<active, requested, dir, written, x, spent>>

(* Provisioning.                                                           *)

\* resolve and isBaseRefAllowed of the repository registry.
registryError(answer) == IF answer = "ok" THEN NONE ELSE answer

\* validateStartup and the repository checks; then provision creates the
\* directory before it first waits.
Validate(e) ==
  /\ At(e, "validate")
  /\ \/ \E answer \in Request[e].repository :
          IF registryError(answer) = NONE
          THEN /\ dir' = [dir EXCEPT ![RunOf(e)] = IF @ = "none" THEN "dir" ELSE @]
               /\ Go(e, "ref")
               /\ UNCHANGED <<active, requested, spent>>
          ELSE /\ Leave(e, [x[e] EXCEPT !.error = registryError(answer), !.result = "ERROR"])
               /\ UNCHANGED <<dir, spent>>
     \/ /\ Fault
        /\ Leave(e, [x[e] EXCEPT !.error = "STARTUP", !.result = "ERROR"])
        /\ UNCHANGED dir
  /\ UNCHANGED <<tombstones, written>>

\* Mutant: an origin that is there already is taken for this execution's.
gitSucceedsAnyway(step, d) ==
  CASE step \in {"remote", "fetch", "checkout"} -> d \in {"git", "origin", "tree"}
    [] OTHER -> TRUE

\* Whether a git command can succeed on a workspace in state d: a remote is
\* added once, and nothing works on a directory that was removed.
gitSucceeds(step, d) ==
  CASE step = "remote" -> d = "git"
    [] step \in {"fetch", "checkout"} -> d \in {"origin", "tree"}
    [] OTHER -> TRUE

gitLeaves(step, d) ==
  CASE step = "init" -> IF d \in {"none", "dir"} THEN "git" ELSE d
    [] step = "remote" -> "origin"
    [] step = "checkout" -> "tree"
    [] OTHER -> d

\* resolveRefToSha and the four git commands of createWorkspace.  One that fails
\* leaves the directory as it is: cleanup is for a provisioned workspace.
Provision(e) ==
  /\ \E i \in DOMAIN GitSteps :
       LET step == GitSteps[i] IN
       /\ At(e, step)
       /\ \/ /\ gitSucceeds(step, dir[RunOf(e)])
             /\ dir' = [dir EXCEPT ![RunOf(e)] = gitLeaves(step, @)]
             /\ Go(e, IF i < Len(GitSteps) THEN GitSteps[i + 1] ELSE "execute")
             /\ UNCHANGED <<active, requested, spent>>
          \/ /\ IF gitSucceeds(step, dir[RunOf(e)]) THEN Fault ELSE UNCHANGED spent
             /\ Leave(e, [x[e] EXCEPT !.error = "WORKSPACE_PROVISION_FAILED", !.result = "ERROR"])
             /\ UNCHANGED dir
  /\ UNCHANGED <<tombstones, written>>

(* The sandbox.                                                            *)

\* The checks of a launch: of the environment, of the credential, and of the
\* arguments, which may not choose the model nor hide it.
buildSandboxEnv(flaws) == IF "env" \in flaws THEN "ENV_NOT_ALLOWED" ELSE NONE
buildProcessEnv(flaws) == IF "env" \in flaws THEN "ENV_NOT_ALLOWED" ELSE NONE
materializeCredential(flaws) == IF "credential" \in flaws THEN "CREDENTIAL_RESOLUTION_FAILED" ELSE NONE
buildRunArgs(flaws) ==
  IF "model" \in flaws THEN "PROVIDER_MODEL_OVERRIDE_DENIED"
  ELSE IF "logLevel" \in flaws THEN "CLOUD_AGENT_LOG_LEVEL_DENIED" ELSE NONE

\* The first error of the checks, in their order.
firstError(errors) ==
  LET found == SelectSeq(errors, LAMBDA err : err # NONE) IN
  IF found = <<>> THEN NONE ELSE Head(found)

notStarted(l) == [l EXCEPT !.pc = "capture", !.cancelled = TRUE, !.stopped = TRUE]

\* execute of the local boundary: an execution that was cancelled is not started.
ExecuteLocal(e) ==
  /\ At(e, "execute") /\ ~Cloud(e)
  /\ IF x[e].aborted THEN Set(e, notStarted(x[e]))
     ELSE \E flaws \in Request[e].launch :
            Set(e, [x[e] EXCEPT !.error = buildSandboxEnv(flaws),
                                !.pc = IF buildSandboxEnv(flaws) = NONE THEN "running" ELSE "cleanup"])
  /\ UNCHANGED <<active, requested, tombstones, dir, written, spent>>

\* execute of the cloud boundary: a session is there from here to its teardown.
ExecuteCloud(e) ==
  /\ At(e, "execute") /\ Cloud(e)
  /\ IF x[e].aborted THEN Set(e, notStarted(x[e]))
     ELSE \E flaws \in Request[e].launch :
            LET err == firstError(<<materializeCredential(flaws), buildProcessEnv(flaws), buildRunArgs(flaws)>>) IN
            Set(e, [x[e] EXCEPT !.session = TRUE, !.error = err,
                                !.pc = IF err = NONE THEN "running" ELSE "teardown"])
  /\ UNCHANGED <<active, requested, tombstones, dir, written, spent>>

AgentWrites(e) ==
  /\ x[e].pc \in {"running", "orphan"}
  /\ dir[RunOf(e)] = "tree"
  /\ written' = [written EXCEPT ![RunOf(e)] = @ \cup {e}]
  /\ UNCHANGED <<active, requested, tombstones, dir, x, spent>>

\* timeoutMs is over: SIGTERM to the process group.
Timeout(e) ==
  /\ At(e, "running") /\ ~x[e].timedOut
  /\ Set(e, [x[e] EXCEPT !.timedOut = TRUE, !.signal = IF @ = NONE THEN "TERM" ELSE @])
  /\ UNCHANGED <<active, requested, tombstones, dir, written, spent>>

\* Mutant: no SIGKILL after the grace period.
graceIgnored(e) == FALSE

\* SIGTERM_GRACE_MS after a SIGTERM.
graceOver(e) == At(e, "running") /\ x[e].signal = "TERM"

Kill(e) ==
  /\ graceOver(e)
  /\ Set(e, [x[e] EXCEPT !.signal = "KILL"])
  /\ UNCHANGED <<active, requested, tombstones, dir, written, spent>>

\* The child of the local boundary closes, by itself or by a signal, or could not
\* be spawned.
CloseLocal(e) ==
  /\ At(e, "running") /\ ~Cloud(e)
  /\ \E code \in {"0", "1", NONE} :
       Set(e, [x[e] EXCEPT !.exit = code, !.stopped = x[e].aborted, !.pc = "capture"])
  /\ UNCHANGED <<active, requested, tombstones, dir, written, spent>>

\* The one identity that the lines of the output agree on.
extractProviderIdentity(lines) == IF Cardinality(lines) = 1 THEN CHOOSE id \in lines : TRUE ELSE NONE

evaluateProviderIdentity(lines) == extractProviderIdentity(lines) = "expected"

\* The cloud boundary also reads the provider's identity from the output.
CloseCloud(e) ==
  /\ At(e, "running") /\ Cloud(e)
  /\ \E code \in {"0", "1", NONE}, lines \in SUBSET {"expected", "another"} :
       Set(e, [x[e] EXCEPT !.exit = code, !.identity = evaluateProviderIdentity(lines),
                           !.stopped = x[e].aborted, !.pc = "teardown"])
  /\ UNCHANGED <<active, requested, tombstones, dir, written, spent>>

Close(e) == CloseLocal(e) \/ CloseCloud(e)

\* What teardownSession answers when the session directory cannot be removed.
cleanupFailure(e) == "CLOUD_SESSION_CLEANUP_FAILED"

\* The finally of the cloud boundary removes the session and its credential.
TeardownSession(e) ==
  /\ At(e, "teardown")
  /\ \/ /\ Set(e, [x[e] EXCEPT !.session = FALSE,
                               !.pc = IF x[e].error = NONE THEN "capture" ELSE "cleanup"])
        /\ UNCHANGED spent
     \/ /\ Fault
        /\ LET err == IF cleanupFailure(e) # NONE THEN cleanupFailure(e) ELSE x[e].error IN
           Set(e, [x[e] EXCEPT !.error = err, !.pc = IF err = NONE THEN "capture" ELSE "cleanup"])
  /\ UNCHANGED <<active, requested, tombstones, dir, written>>

(* The result.                                                             *)

\* captureGovernedResultSettling: the whole patch or an error.
Capture(e) ==
  /\ At(e, "capture")
  /\ \/ /\ Set(e, [x[e] EXCEPT !.pc = "cleanup", !.changes = written[RunOf(e)]])
        /\ UNCHANGED spent
     \/ /\ Fault
        /\ Set(e, [x[e] EXCEPT !.pc = "cleanup", !.error = "CHANGESET_CAPTURE_FAILED"])
  /\ UNCHANGED <<active, requested, tombstones, dir, written>>

\* Mutant: the exit code is looked at first.
exitCodeFirst(e) ==
  IF x[e].exit = "0" THEN "SUCCEEDED" ELSE IF x[e].cancelled THEN "CANCELLED"
  ELSE IF x[e].timedOut THEN "TIMED_OUT" ELSE "FAILED"

\* mapWorkerResult of the local adapter.
mapLocalResult(e) ==
  IF x[e].cancelled THEN "CANCELLED" ELSE IF x[e].timedOut THEN "TIMED_OUT"
  ELSE IF x[e].exit = "0" THEN "SUCCEEDED" ELSE "FAILED"

\* mapWorkerResult of the cloud adapter: the provider must be the expected one.
mapCloudResult(e) ==
  IF x[e].cancelled THEN "CANCELLED" ELSE IF ~x[e].identity THEN "FAILED"
  ELSE IF x[e].timedOut THEN "TIMED_OUT"
  ELSE IF x[e].exit = "0" THEN "SUCCEEDED" ELSE "FAILED"

mapWorkerResult(e) == IF Cloud(e) THEN mapCloudResult(e) ELSE mapLocalResult(e)

\* The finally of executeSandboxed removes the workspace; then the adapter maps
\* the result, or the error that replaced it.  A removal that fails leaves the
\* files of the worktree, with or without its .git.
Cleanup(e) ==
  /\ At(e, "cleanup")
  /\ \/ /\ dir' = [dir EXCEPT ![RunOf(e)] = "none"]
        /\ written' = [written EXCEPT ![RunOf(e)] = {}]
        /\ Leave(e, [x[e] EXCEPT !.result = IF x[e].error = NONE THEN mapWorkerResult(e)
                                            ELSE "ERROR"])
        /\ UNCHANGED spent
     \/ /\ Fault
        /\ Leave(e, [x[e] EXCEPT !.error = "CLEANUP_FAILED", !.result = "ERROR"])
        /\ \E left \in {dir[RunOf(e)], "dir"} : dir' = [dir EXCEPT ![RunOf(e)] = left]
        /\ UNCHANGED written
  /\ UNCHANGED tombstones

(* The process dies: the registry and the executions are lost.  A local     *)
(* agent dies with its parent (--die-with-parent); a cloud agent goes on.  *)
Crash ==
  /\ spent.faults < MaxFaults /\ spent.crashes < MaxCrashes
  /\ spent' = [spent EXCEPT !.faults = @ + 1, !.crashes = @ + 1]
  /\ active' = {} /\ requested' = {} /\ tombstones' = <<>>
  /\ x' = [e \in Execs |->
             IF x[e].pc \in {"idle", "done", "orphan"} THEN x[e]
             ELSE [x[e] EXCEPT !.pc = IF x[e].pc = "running" /\ Cloud(e) THEN "orphan" ELSE "done",
                               !.result = "LOST"]]
  /\ UNCHANGED <<dir, written>>

OrphanEnds(e) ==
  /\ At(e, "orphan")
  /\ Go(e, "done")
  /\ UNCHANGED <<active, requested, tombstones, dir, written, spent>>

Advance(e) ==
  Validate(e) \/ Provision(e) \/ ExecuteLocal(e) \/ ExecuteCloud(e) \/ TeardownSession(e) \/ Capture(e) \/ Cleanup(e)

Next ==
  \/ \E e \in Execs : \/ Register(e) \/ AdapterRefuses(e) \/ Advance(e) \/ AgentWrites(e)
                      \/ Timeout(e) \/ Kill(e) \/ CloseLocal(e) \/ CloseCloud(e) \/ OrphanEnds(e)
  \/ \E w \in Runs : cancelWorkflow(w)
  \/ TombstoneExpires \/ Crash

\* Awaited calls end (each git command and the probe of bwrap has a timeout),
\* timers fire, and a killed process group closes.  An agent may run for ever,
\* ignore SIGTERM, and never write.
Fairness ==
  \A e \in Execs : /\ WF_vars(Advance(e)) /\ WF_vars(Timeout(e)) /\ WF_vars(Kill(e))
                   /\ WF_vars(x[e].signal = "KILL" /\ Close(e))

Spec == Init /\ [][Next]_vars /\ Fairness

-----------------------------------------------------------------------------
(* Properties.                                                             *)

Levels == {"none", "dir", "git", "origin", "tree"}

\* Registry, workspaces and executions have their declared values.
TypeOK ==
  /\ active \subseteq Execs /\ requested \subseteq active
  /\ tombstones \in Seq(Runs) /\ Len(tombstones) \leq MAX_CANCELLATION_TOMBSTONES
  /\ dir \in [Runs -> Levels]
  /\ written \in [Runs -> SUBSET Execs]
  /\ \A e \in Execs : /\ x[e].changes \subseteq Execs
                      /\ e \in active <=> x[e].pc \notin {"idle", "done", "orphan"}

\* A registered execution of a run with a tombstone has been told to stop,
\* whichever of register and cancelWorkflow came first, and its signal holds.
CancelledIsSignalled ==
  \A e \in active : isWorkflowCancelled(RunOf(e)) => e \in requested /\ x[e].aborted

\* The executions that are past `git remote add` in the workspace of their run
\* and have not cleaned it up.
Holds(e) == x[e].pc \in {"fetch", "checkout", "execute", "running", "teardown", "capture", "cleanup"}

\* Executions of one run share its directory, without a lock: that the second
\* `git remote add` fails is what keeps a single one in it, also after a crash
\* has left the directory and an orphan of the dead process behind.
WorkspaceExclusive ==
  \A e, f \in Execs : Holds(e) /\ Holds(f) /\ RunOf(e) = RunOf(f) => e = f

\* A result is true.  It is returned (workspaceDisposition 'CLEANED',
\* credentialDisposition 'removed') only when the workspace and the session are
\* really gone, and that of an execution told to stop before its process ended is
\* CANCELLED: not when the agent ends well in the grace period, nor when the timeout
\* fires as well, does it read otherwise (mapWorkerResult).
ResultIsTrue ==
  [][\A e \in Execs : x[e].result = NONE /\ x'[e].result \notin {NONE, "ERROR", "LOST"} =>
       /\ dir'[RunOf(e)] = "none" /\ ~x'[e].session
       /\ x'[e].stopped => x'[e].result = "CANCELLED"]_vars

\* Every execution ends, also when its agent hangs and ignores SIGTERM: no
\* registration is left for ever.
EveryExecutionEnds == \A e \in Execs : e \in active ~> e \notin active

\* "Workspace: EPHEMERAL (cleaned after every execution)": a directory is there
\* only while an execution of its run is.
WorkspaceEphemeral ==
  \A w \in Runs : dir[w] # "none" => \E e \in active : RunOf(e) = w
=============================================================================
