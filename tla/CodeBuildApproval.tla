--------------------------- MODULE CodeBuildApproval ---------------------------
(***************************************************************************)
(* The single-use human approvals of CODE_BUILD dispatches                 *)
(* (code-build-approval.service.ts), used by concurrent dispatches of      *)
(* workflow steps (workflow-agent-runtime.service.ts resolves an approval, *)
(* agent-workforce.service.ts consumes it and then invokes the provider)   *)
(* and by the public consume endpoint.                                     *)
(*                                                                         *)
(* A transaction's reads are a step, its writes with the commit another.   *)
(* Time is a flag per approval: it expires at some moment, and a call that *)
(* took its time stamp before goes on with what it saw.  Left out: the     *)
(* organisation and repository (one of each), hashes and the branch, which *)
(* the scope carries unchanged from the approval, and refused calls.       *)
(***************************************************************************)
EXTENDS Naturals

CONSTANTS
  Approvals,    \* ids of the approvals that may be created
  Missions,     \* missions, that is workflow runs
  Steps,        \* workflow steps with the capability CODE_BUILD
  MissionOf,    \* the mission of each step
  RequestKeys,  \* the keys under which humans request approvals
  PublicKeys,   \* the keys the public consume endpoint is called with
  Callers,      \* requests in flight
  MaxCalls      \* bound on the calls made

NULL == "NULL"

ConsumptionKeys == Steps \cup PublicKeys

ASSUME ApprovalConstants ==
  /\ MissionOf \in [Steps -> Missions]
  /\ NULL \notin ConsumptionKeys \cup Missions \cup RequestKeys \cup Approvals
  /\ MaxCalls \in Nat

VARIABLES
  approvals,    \* CodeBuildApproval rows
  expired,      \* the approvals whose expiresAt has passed
  invocations,  \* provider invocations made under each approval
  op,           \* what each call in flight has read
  calls         \* calls made so far

approvalVars == <<approvals, expired, invocations, op, calls>>

\* executionTarget is the step a dispatch consumed the approval for.
NoRow ==
  [mission |-> NULL, approvalRequestKey |-> NULL, revoked |-> FALSE,
   consumptionRequestKey |-> NULL, executionTarget |-> NULL]

Idle == [call |-> "idle", approval |-> NULL, key |-> NULL, mission |-> NULL,
         fresh |-> FALSE]

ApprovalInit ==
  /\ approvals = [a \in Approvals |-> NoRow]
  /\ expired = {}
  /\ invocations = [a \in Approvals |-> 0]
  /\ op = [c \in Callers |-> Idle]
  /\ calls = 0

-----------------------------------------------------------------------------

Exists(a) == approvals[a] # NoRow
Consumed(a) == approvals[a].consumptionRequestKey # NULL

Issue(c) == op[c].call = "idle" /\ calls < MaxCalls /\ calls' = calls + 1

Proceed(c, local) ==
  /\ op' = [op EXCEPT ![c] = local]
  /\ UNCHANGED <<approvals, expired, invocations>>

Write(c, a, row, local) ==
  /\ approvals' = [approvals EXCEPT ![a] = row]
  /\ op' = [op EXCEPT ![c] = local]
  /\ UNCHANGED <<expired, invocations, calls>>

\* create: no row has the key yet; the unique index decides at the insert.
CreateRead(c) ==
  /\ Issue(c)
  /\ \E key \in RequestKeys, mission \in Missions :
       /\ \A a \in Approvals : approvals[a].approvalRequestKey # key
       /\ Proceed(c, [Idle EXCEPT !.call = "create", !.key = key, !.mission = mission])

CreateCommit(c) ==
  /\ op[c].call = "create"
  /\ \A a \in Approvals : approvals[a].approvalRequestKey # op[c].key
  /\ \E a \in Approvals :
       /\ ~Exists(a)
       /\ Write(c, a, [NoRow EXCEPT !.mission = op[c].mission,
                                    !.approvalRequestKey = op[c].key], Idle)

Expire(a) ==
  /\ Exists(a) /\ a \notin expired
  /\ expired' = expired \cup {a}
  /\ UNCHANGED <<approvals, invocations, op, calls>>

\* revoke: the row is read, then updated by its id alone.
RevokeRead(c) ==
  /\ Issue(c)
  /\ \E a \in Approvals :
       /\ Exists(a) /\ ~approvals[a].revoked /\ ~Consumed(a)
       /\ Proceed(c, [Idle EXCEPT !.call = "revoke", !.approval = a])

RevokeCommit(c) ==
  /\ op[c].call = "revoke"
  /\ Write(c, op[c].approval, [approvals[op[c].approval] EXCEPT !.revoked = TRUE], Idle)

-----------------------------------------------------------------------------
(* A dispatch of a CODE_BUILD step.                                        *)

\* The approvals a dispatch of the step may use.
availableFor(s) ==
  {a \in Approvals : /\ approvals[a].mission = MissionOf[s]
                     /\ ~Consumed(a) /\ ~approvals[a].revoked /\ a \notin expired}

\* resolveForWorkflowDispatch: exactly one approval, or the call is refused.
Resolve(c) ==
  /\ Issue(c)
  /\ \E s \in Steps, a \in Approvals :
       /\ availableFor(s) = {a}
       /\ Proceed(c, [Idle EXCEPT !.call = "resolved", !.approval = a, !.key = s])

\* consumeForDispatch takes its time stamp.
DispatchRead(c) ==
  /\ op[c].call = "resolved"
  /\ Proceed(c, [op[c] EXCEPT !.call = "dispatch", !.fresh = op[c].approval \notin expired])
  /\ UNCHANGED calls

\* Mutant: the claim does not ask whether the approval was consumed.
consumableIfNotRevoked(c) == op[c].fresh /\ ~approvals[op[c].approval].revoked

\* Mutant: the claim does not ask whether the approval was revoked.
consumableIfUnconsumed(c) == op[c].fresh /\ ~Consumed(op[c].approval)

\* The WHERE clause of both claims.
consumable(c) ==
  /\ op[c].fresh
  /\ ~Consumed(op[c].approval) /\ ~approvals[op[c].approval].revoked

\* Mutant: consumption request keys are not unique.
keyAlwaysFree(c) == TRUE

\* The unique index on the consumption request key.
keyFree(c) ==
  \A a \in Approvals \ {op[c].approval} : approvals[a].consumptionRequestKey # op[c].key

DispatchCommit(c) ==
  /\ op[c].call = "dispatch"
  /\ consumable(c) /\ keyFree(c)
  /\ Write(c, op[c].approval,
           [approvals[op[c].approval] EXCEPT !.consumptionRequestKey = op[c].key,
                                             !.executionTarget = op[c].key],
           [op[c] EXCEPT !.call = "invoke"])

\* The dispatch goes on to the provider.
Invoke(c) ==
  /\ op[c].call = "invoke"
  /\ invocations' = [invocations EXCEPT ![op[c].approval] = @ + 1]
  /\ op' = [op EXCEPT ![c] = Idle]
  /\ UNCHANGED <<approvals, expired, calls>>

-----------------------------------------------------------------------------
(* The public consume endpoint: it answers a replay and invokes nothing.   *)

ConsumeRead(c) ==
  /\ Issue(c)
  /\ \E a \in Approvals, key \in PublicKeys :
       /\ Exists(a) /\ ~Consumed(a) /\ ~approvals[a].revoked /\ a \notin expired
       /\ Proceed(c, [Idle EXCEPT !.call = "consume", !.approval = a, !.key = key,
                                  !.fresh = TRUE])

ConsumeCommit(c) ==
  /\ op[c].call = "consume"
  /\ consumable(c) /\ keyFree(c)
  /\ Write(c, op[c].approval,
           [approvals[op[c].approval] EXCEPT !.consumptionRequestKey = op[c].key], Idle)

\* A claim that finds no row, a violated index, an exception or a crash.
Abort(c) == op[c].call # "idle" /\ Proceed(c, Idle) /\ UNCHANGED calls

ApprovalNext ==
  \/ \E c \in Callers :
       \/ CreateRead(c) \/ CreateCommit(c) \/ RevokeRead(c) \/ RevokeCommit(c)
       \/ Resolve(c) \/ DispatchRead(c) \/ DispatchCommit(c) \/ Invoke(c)
       \/ ConsumeRead(c) \/ ConsumeCommit(c) \/ Abort(c)
  \/ \E a \in Approvals : Expire(a)

ApprovalSpec == ApprovalInit /\ [][ApprovalNext]_approvalVars

-----------------------------------------------------------------------------
(* Properties.                                                             *)

\* Rows and calls in flight have their declared values.
ApprovalTypeOK ==
  /\ approvals \in [Approvals ->
       [mission : Missions \cup {NULL}, approvalRequestKey : RequestKeys \cup {NULL},
        revoked : BOOLEAN, consumptionRequestKey : ConsumptionKeys \cup {NULL},
        executionTarget : Steps \cup {NULL}]]
  /\ expired \subseteq Approvals
  /\ invocations \in [Approvals -> Nat]
  /\ op \in [Callers ->
       [call : {"idle", "create", "revoke", "resolved", "dispatch", "invoke", "consume"},
        approval : Approvals \cup {NULL},
        key : ConsumptionKeys \cup RequestKeys \cup {NULL},
        mission : Missions \cup {NULL}, fresh : BOOLEAN]]
  /\ calls \in 0..MaxCalls

\* However dispatches, replays and crashes interleave, an approval authorises
\* one provider invocation at most ("a replay must never authorize a second
\* provider invocation", consumeForDispatch).
OneInvocationPerApproval == \A a \in Approvals : invocations[a] <= 1

\* A step is dispatched under one approval at most, even when a second one is
\* granted after the first was spent (the key workflow-step:<id>).
OneInvocationPerStep ==
  \A a, b \in Approvals :
    /\ invocations[a] > 0 /\ invocations[b] > 0
    /\ approvals[a].executionTarget = approvals[b].executionTarget
    => a = b

\* An invocation is made only under an approval of the mission the step belongs
\* to, consumed for that step and not through the public endpoint.
InvokedInScope ==
  \A a \in Approvals : invocations[a] > 0 =>
    /\ approvals[a].executionTarget \in Steps
    /\ approvals[a].consumptionRequestKey = approvals[a].executionTarget
    /\ approvals[a].mission = MissionOf[approvals[a].executionTarget]

\* An approval authorises one invocation, of one step, in its mission, and a step is
\* invoked under one approval: approvals and invoked steps are paired off, whatever
\* dispatches race and however many approvals are granted (consumeForDispatch).
AuthorisedOnce == OneInvocationPerApproval /\ OneInvocationPerStep /\ InvokedInScope

\* An approval that was revoked in time is never used afterwards, whatever
\* dispatch had already resolved it.
RevokedStaysUnused ==
  [][\A a \in Approvals : approvals[a].revoked /\ ~Consumed(a) =>
       approvals'[a].consumptionRequestKey = NULL]_approvalVars

\* Approvals implement SingleUse: the holder is the key of the consumption.
Grants == INSTANCE SingleUse WITH
  Tokens <- Approvals, Holders <- ConsumptionKeys, Nobody <- NULL,
  holder <- [a \in Approvals |-> approvals[a].consumptionRequestKey],
  fired  <- {a \in Approvals : invocations[a] > 0}

\* An approval is consumed once and for good, and an invocation follows only a
\* consumption.
ApprovalsImplementSingleUse == Grants!Spec
=============================================================================
