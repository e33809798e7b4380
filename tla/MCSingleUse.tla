------------------------------ MODULE MCSingleUse ------------------------------
(***************************************************************************)
(* What may be used once: the logical operations of governed invocations   *)
(* and the approvals of CODE_BUILD dispatches.  part names the one a       *)
(* behaviour is about; the other stays in its initial state.               *)
(***************************************************************************)
EXTENDS GovernedInvocation, CodeBuildApproval, TLC

CONSTANTS a1, a2, c1, c2

VARIABLE part

singleUseVars == <<part, vars, approvalVars>>

\* A command that two attempts run, and the identity of one attempt used for
\* another operation.
MixedRequests ==
  [retry1 |-> [invocationId |-> "i1", step |-> "s1", action |-> "RUN_COMMAND",
               path |-> NONE, command |-> "agentA"],
   retry2 |-> [invocationId |-> "i2", step |-> "s1", action |-> "RUN_COMMAND",
               path |-> NONE, command |-> "agentA"],
   reused |-> [invocationId |-> "i2", step |-> "s1", action |-> "WRITE_FILE",
               path |-> "p1", command |-> NONE]]

MixedCalls == DOMAIN MixedRequests

\* Two missions, a step each.
StepMission == [s1 |-> "m1", s2 |-> "m2"]
StepIds == DOMAIN StepMission
MissionIds == {StepMission[s] : s \in StepIds}

\* Ids of approvals and of their callers are interchangeable.
IdSymmetry == Permutations(Approvals) \cup Permutations(Callers)

SingleUseInit == part \in {"invocation", "approval"} /\ Init /\ ApprovalInit

SingleUseNext ==
  /\ UNCHANGED part
  /\ IF part = "invocation" THEN Next ELSE UNCHANGED vars
  /\ IF part = "approval" THEN ApprovalNext ELSE UNCHANGED approvalVars

SingleUseSpec == SingleUseInit /\ [][SingleUseNext]_singleUseVars
=============================================================================
