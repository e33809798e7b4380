--------------------------- MODULE GovernedInvocation ---------------------------
(***************************************************************************)
(* A governed execution, from GovernedRuntimeService                       *)
(* .executeWorkspaceFileOperation through GovernedInvocationServiceImpl    *)
(* .invoke to the provider adapter, with the PostgreSQL idempotency store: *)
(* calls of several requests (retries, other providers, two workers) run   *)
(* concurrently, the adapter may finish late or never, the store may fail  *)
(* before or after its write, and the process may die.                     *)
(*                                                                         *)
(* Each element of Calls is one call, made at most once.  The decisions    *)
(* taken before the claim (validation, provider, profile, policy,          *)
(* credentials) write nothing and are one choice: pass, refuse, throw.     *)
(* Left out: payloads, redaction, cost and audit texts.                    *)
(***************************************************************************)
EXTENDS Naturals

CONSTANTS
  Calls,    \* the calls of executeWorkspaceFileOperation
  Request,  \* the request of each call
  Restarts  \* bound on the restarts of the process

NONE == "NONE"

AgentExecutionStatus ==
  {"QUEUED", "STARTING", "RUNNING", "SUCCEEDED", "FAILED", "TIMED_OUT",
   "CANCELLED", "POLICY_BLOCKED", "QUOTA_BLOCKED"}

FILE_MUTATION_INVOCATION_ACTIONS == {"WRITE_FILE", "CREATE_FILE", "DELETE_FILE"}

CONSEQUENTIAL_INVOCATION_ACTIONS ==
  FILE_MUTATION_INVOCATION_ACTIONS
    \cup {"RUN_COMMAND", "NETWORK_ACCESS", "GIT_COMMIT", "GIT_PUSH"}

ExecutionAction == CONSEQUENTIAL_INVOCATION_ACTIONS \cup {"READ_FILE", "GIT_READ"}

\* The statuses a RUNNING execution may end with.
VALID_FROM_RUNNING == {"SUCCEEDED", "FAILED", "TIMED_OUT", "CANCELLED", "QUOTA_BLOCKED"}

\* The statuses a result may have.
ResultStatus == VALID_FROM_RUNNING \cup {"POLICY_BLOCKED"}

GovernedInvocationClaimState ==
  {"IN_PROGRESS", "COMPLETED", "TIMED_OUT_UNKNOWN", "FAILED_UNKNOWN"}

ASSUME RequestAssumption ==
  /\ Restarts \in Nat
  /\ Request \in [Calls -> [invocationId : STRING, step : STRING, action : ExecutionAction,
                            path : STRING, command : STRING]]
  /\ \A c \in Calls : Request[c].invocationId # NONE

-----------------------------------------------------------------------------
(* Identities.                                                             *)

\* Mutant: the attempt is part of the operation's identity.
keyWithAttempt(r) == <<r.step, r.action, r.invocationId>>

\* buildGovernedLogicalOperationKey; organisation, run, capability and input
\* reference follow from the step here.
buildGovernedLogicalOperationKey(r) ==
  <<r.step, r.action,
    IF r.action \in FILE_MUTATION_INVOCATION_ACTIONS THEN r.path
    ELSE IF r.action = "RUN_COMMAND" THEN r.command
    ELSE NONE>>

KeyOf(c) == buildGovernedLogicalOperationKey(Request[c])
AttemptOf(c) == Request[c].invocationId
Consequential(c) == Request[c].action \in CONSEQUENTIAL_INVOCATION_ACTIONS
Keys == {KeyOf(c) : c \in Calls}
Attempts == {AttemptOf(c) : c \in Calls}

VARIABLES
  pc,        \* where each call is
  claimed,   \* its executionClaimed
  result,    \* the status of its result, NONE before there is one
  adapter,   \* what its adapter execution does: NONE, "running" or how it ended
  claims,    \* GovernedInvocationClaim rows by logical operation key
  envelope,  \* status of its GovernedOperationEnvelope row
  records,   \* GovernedExecutionRecord rows by invocation id
  restarts

vars == <<pc, claimed, result, adapter, claims, envelope, records, restarts>>

NoClaim == [invocationId |-> NONE, state |-> NONE]

Init ==
  /\ pc = [c \in Calls |-> "idle"]
  /\ claimed = [c \in Calls |-> FALSE]
  /\ result = [c \in Calls |-> NONE]
  /\ adapter = [c \in Calls |-> NONE]
  /\ claims = [k \in Keys |-> NoClaim]
  /\ envelope = [c \in Calls |-> NONE]
  /\ records = [a \in Attempts |-> NONE]
  /\ restarts = 0

-----------------------------------------------------------------------------
(* The call.                                                               *)

At(c, from, to) == pc[c] = from /\ pc' = [pc EXCEPT ![c] = to]

Result(c, status) == result' = [result EXCEPT ![c] = status]

\* executeWorkspaceFileOperation writes its envelope.
Begin(c) ==
  /\ At(c, "idle", "checks")
  /\ envelope' = [envelope EXCEPT ![c] = "PENDING"]
  /\ UNCHANGED <<claimed, result, adapter, claims, records, restarts>>

\* Profile or policy refuse: a result without finalizeInvocation.
Refuse(c) ==
  /\ At(c, "checks", "persist")
  /\ Result(c, "POLICY_BLOCKED")
  /\ UNCHANGED <<claimed, adapter, claims, envelope, records, restarts>>

\* Mutant: only commands pass the claim gate.
claimGateForCommands(c) == IF Request[c].action = "RUN_COMMAND" THEN "claim" ELSE "execute"

\* A consequential action goes to the claim gate, a read straight to the adapter.
claimGate(c) == IF Consequential(c) THEN "claim" ELSE "execute"

\* Profile, policy, credentials and context are in order.
Allow(c) ==
  /\ At(c, "checks", claimGate(c))
  /\ UNCHANGED <<claimed, result, adapter, claims, envelope, records, restarts>>

\* PrismaGovernedIdempotencyStore.claim: an insert under the unique key and the
\* unique attempt, then the reads that tell the violations apart.
claimOutcome(c) ==
  IF claims[KeyOf(c)] = NoClaim /\ \A k \in Keys : claims[k].invocationId # AttemptOf(c)
  THEN "CLAIMED"
  ELSE IF claims[KeyOf(c)].invocationId # AttemptOf(c)
          /\ \E k \in Keys : claims[k].invocationId = AttemptOf(c)
       THEN "CONTEXT_CONFLICT"
       ELSE "DUPLICATE"

NewClaim(c) ==
  claims' = [claims EXCEPT ![KeyOf(c)] = [invocationId |-> AttemptOf(c),
                                          state |-> "IN_PROGRESS"]]

Claim(c) ==
  /\ claimOutcome(c) = "CLAIMED"
  /\ At(c, "claim", "execute")
  /\ NewClaim(c)
  /\ claimed' = [claimed EXCEPT ![c] = TRUE]
  /\ UNCHANGED <<result, adapter, envelope, records, restarts>>

\* The status of a result blocked by the idempotency boundary.
idempotencyBlocked == "POLICY_BLOCKED"

ClaimBlocked(c) ==
  /\ claimOutcome(c) \in {"DUPLICATE", "CONTEXT_CONFLICT"}
  /\ At(c, "claim", "mark")
  /\ Result(c, idempotencyBlocked)
  /\ UNCHANGED <<claimed, adapter, claims, envelope, records, restarts>>

\* The store throws, its insert done or not done: the call gives up.
ClaimFails(c) ==
  /\ At(c, "claim", "mark")
  /\ Result(c, "FAILED")
  /\ \/ UNCHANGED claims
     \/ claimOutcome(c) = "CLAIMED" /\ NewClaim(c)
  /\ UNCHANGED <<claimed, adapter, envelope, records, restarts>>

\* invokeAdapterWithTimeout: the one call of adapter.execute, and the timer.
Execute(c) ==
  /\ At(c, "execute", "race")
  /\ adapter' = [adapter EXCEPT ![c] = "running"]
  /\ UNCHANGED <<claimed, result, claims, envelope, records, restarts>>

\* The status of the invocation for what the adapter returned or threw.
normalizedStatus(status) == IF status \in VALID_FROM_RUNNING THEN status ELSE "FAILED"

\* The adapter ends first; a rejected promise is a status FAILED.
AdapterReturns(c) ==
  /\ adapter[c] = "running"
  /\ At(c, "race", "mark")
  /\ \E status \in AgentExecutionStatus :
       /\ adapter' = [adapter EXCEPT ![c] = IF status = "SUCCEEDED" THEN status ELSE "FAILED"]
       /\ Result(c, normalizedStatus(status))
  /\ UNCHANGED <<claimed, claims, envelope, records, restarts>>

\* Mutant: the adapter is trusted to keep the time it was given.
TimeoutOfAdapter(c) ==
  /\ adapter[c] # "running"
  /\ At(c, "race", "mark")
  /\ Result(c, "TIMED_OUT")
  /\ UNCHANGED <<claimed, adapter, claims, envelope, records, restarts>>

\* The timer fires first.
Timeout(c) ==
  /\ At(c, "race", "mark")
  /\ Result(c, "TIMED_OUT")
  /\ UNCHANGED <<claimed, adapter, claims, envelope, records, restarts>>

\* The adapter of a call that no longer waits for it: nobody looks at the end.
AdapterEndsLate(c) ==
  /\ adapter[c] = "running" /\ pc[c] # "race"
  /\ \E status \in {"SUCCEEDED", "FAILED"} : adapter' = [adapter EXCEPT ![c] = status]
  /\ UNCHANGED <<pc, claimed, result, claims, envelope, records, restarts>>

claimStateForResultStatus(status) ==
  IF status = "SUCCEEDED" THEN "COMPLETED"
  ELSE IF status = "TIMED_OUT" THEN "TIMED_OUT_UNKNOWN"
  ELSE "FAILED_UNKNOWN"

\* Mutant: the claim is completed by its key, whoever holds it.
CompletableByKey(c) == claims[KeyOf(c)].state = "IN_PROGRESS"

\* The rows markCompleted may write: the caller's own, still in progress.
CompletableClaim(c) ==
  claimed[c] /\ claims[KeyOf(c)] = [invocationId |-> AttemptOf(c), state |-> "IN_PROGRESS"]

\* finalizeInvocation: markCompleted for the holder, best effort.
Finalize(c) ==
  /\ At(c, "mark", "persist")
  /\ \/ UNCHANGED claims
     \/ /\ CompletableClaim(c)
        /\ claims' = [claims EXCEPT ![KeyOf(c)].state = claimStateForResultStatus(result[c])]
  /\ UNCHANGED <<claimed, result, adapter, envelope, records, restarts>>

\* persistExecutionRecord, whose primary key is the attempt.
Persist(c) ==
  /\ At(c, "persist", "close")
  /\ records[AttemptOf(c)] = NONE
  /\ records' = [records EXCEPT ![AttemptOf(c)] = result[c]]
  /\ UNCHANGED <<claimed, result, adapter, claims, envelope, restarts>>

Close(c) ==
  /\ At(c, "close", "done")
  /\ envelope' = [envelope EXCEPT ![c] = IF result[c] = "SUCCEEDED" THEN "COMPLETED"
                                                                   ELSE "FAILED"]
  /\ UNCHANGED <<claimed, result, adapter, claims, records, restarts>>

\* A check, an audit insert or a later write throws: the envelope fails, if
\* that write succeeds.
Throw(c) ==
  /\ pc[c] \in {"checks", "persist", "close"}
  /\ pc' = [pc EXCEPT ![c] = "threw"]
  /\ envelope' = [envelope EXCEPT ![c] = "FAILED"] \/ UNCHANGED envelope
  /\ UNCHANGED <<claimed, result, adapter, claims, records, restarts>>

\* The process dies; a command or a remote execution goes on without it.
Restart ==
  /\ restarts < Restarts
  /\ restarts' = restarts + 1
  /\ pc' = [c \in Calls |-> IF pc[c] \in {"idle", "done", "threw"} THEN pc[c] ELSE "dead"]
  /\ UNCHANGED <<claimed, result, adapter, claims, envelope, records>>

Step(c) ==
  \/ Begin(c) \/ Refuse(c) \/ Allow(c)
  \/ Claim(c) \/ ClaimBlocked(c) \/ ClaimFails(c)
  \/ Execute(c) \/ AdapterReturns(c) \/ Timeout(c) \/ AdapterEndsLate(c)
  \/ Finalize(c) \/ Persist(c) \/ Close(c) \/ Throw(c)

Next == (\E c \in Calls : Step(c)) \/ Restart

Spec == Init /\ [][Next]_vars

\* A call that began goes on: its promises settle and its timer fires.  Of the
\* adapter nothing is assumed.
Advance(c) ==
  \/ Refuse(c) \/ Allow(c) \/ Claim(c) \/ ClaimBlocked(c) \/ Execute(c)
  \/ Timeout(c) \/ Finalize(c) \/ Persist(c) \/ Close(c) \/ Throw(c)

FairSpec == Spec /\ \A c \in Calls : WF_vars(Advance(c))

-----------------------------------------------------------------------------
(* Properties.                                                             *)

\* Calls, results and rows have their declared values; the status of a result
\* is one an execution can end with, whatever the adapter returned.
TypeOK ==
  /\ pc \in [Calls -> {"idle", "checks", "claim", "execute", "race", "mark",
                       "persist", "close", "done", "threw", "dead"}]
  /\ claimed \in [Calls -> BOOLEAN]
  /\ result \in [Calls -> ResultStatus \cup {NONE}]
  /\ adapter \in [Calls -> {NONE, "running", "SUCCEEDED", "FAILED"}]
  /\ claims \in [Keys -> [invocationId : Attempts \cup {NONE},
                          state : GovernedInvocationClaimState \cup {NONE}]]
  /\ envelope \in [Calls -> {NONE, "PENDING", "COMPLETED", "FAILED"}]
  /\ records \in [Attempts -> ResultStatus \cup {NONE}]
  /\ restarts \in 0..Restarts

Started(c) == adapter[c] # NONE

\* Two calls ask for the same thing, under whichever attempt identity.
SameRequest(c, d) ==
  [Request[c] EXCEPT !.invocationId = NONE] = [Request[d] EXCEPT !.invocationId = NONE]

\* Of all the calls that make one consequential request, whatever retries,
\* races, timeouts and restarts come between them, at most one reaches its
\* adapter ("one execution per logical operation", invoke's claim gate).
AtMostOneExecution ==
  \A c, d \in Calls :
    Consequential(c) /\ SameRequest(c, d) /\ Started(c) /\ Started(d) => c = d

\* A claim that is no longer in progress was settled by the call that made it,
\* after its adapter had started, and says COMPLETED only for an execution that
\* ended with success while the call waited: no duplicate, timeout, late end or
\* crash settles a claim (markCompleted, claimStateForResultStatus).
SettledByOwner ==
  \A k \in Keys : claims[k].state \notin {NONE, "IN_PROGRESS"} =>
    \E c \in Calls :
      /\ KeyOf(c) = k /\ claimed[c] /\ AttemptOf(c) = claims[k].invocationId
      /\ Started(c) /\ result[c] # NONE
      /\ claims[k].state = "COMPLETED" <=> result[c] = "SUCCEEDED"
      /\ result[c] = "SUCCEEDED" => adapter[c] = "SUCCEEDED"

\* A success in the evidence ledger or on an envelope rests on an execution of
\* that call, made under its own claim where one is needed: no duplicate,
\* refusal or late end is recorded as a success.
SuccessHasExecution ==
  LET Earned(c) == /\ adapter[c] = "SUCCEEDED" /\ result[c] = "SUCCEEDED"
                   /\ Consequential(c) => claimed[c] IN
  /\ \A c \in Calls : envelope[c] = "COMPLETED" => Earned(c)
  /\ \A a \in Attempts : records[a] = "SUCCEEDED" =>
       \E c \in Calls : AttemptOf(c) = a /\ Earned(c)

\* Claims, records and envelopes say only what happened, although each is written by
\* a statement of its own that may fail, come late or be lost in a crash.
LedgersTruthful == SettledByOwner /\ SuccessHasExecution

\* A call that began always returns, even when its adapter never does, unless
\* the process dies (the timer of invokeAdapterWithTimeout).
CallReturns == \A c \in Calls : pc[c] # "idle" ~> pc[c] \in {"done", "threw", "dead"}

\* The claim table and the adapter executions implement SingleUse: a token is a
\* consequential operation, its holder the attempt that claimed it.
ConsequentialKeys == {KeyOf(c) : c \in {d \in Calls : Consequential(d)}}

Claims == INSTANCE SingleUse WITH
  Tokens <- ConsequentialKeys, Holders <- Attempts, Nobody <- NONE,
  holder <- [k \in ConsequentialKeys |-> claims[k].invocationId],
  fired  <- {KeyOf(c) : c \in {d \in Calls : Consequential(d) /\ Started(d)}}

\* Whatever the calls do is a behaviour of SingleUse: an operation's execution
\* starts once and only under its claim.
ImplementsSingleUse == Claims!Spec
=============================================================================
