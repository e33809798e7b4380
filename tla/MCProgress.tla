----------------------------- MODULE MCProgress -----------------------------
(***************************************************************************)
(* What must end: the calls of the governed runtime and the tasks of the   *)
(* operator bridge, under the fairness each module states.  part names the *)
(* one a behaviour is about; the other stays in its initial state.         *)
(***************************************************************************)
EXTENDS GovernedInvocation, OperatorBridge

CONSTANTS c1, c2

VARIABLE part

progressVars == <<part, vars, bridgeVars>>

\* A push, which is claimed, and a read, which is not.
MCRequest ==
  [push |-> [invocationId |-> "i1", step |-> "s1", action |-> "GIT_PUSH",
             path |-> NONE, command |-> NONE],
   read |-> [invocationId |-> "i2", step |-> "s1", action |-> "READ_FILE",
             path |-> "p1", command |-> NONE]]

\* How a dispatch of the bridge ends: as the harness wants it, with another
\* change, blocked by policy, or with an exception.
MCOutcomes ==
  {[execution |-> "SUCCEEDED", files |-> "proof", patch |-> "proof", provider |-> "p", cleaned |-> TRUE],
   [execution |-> "SUCCEEDED", files |-> "other", patch |-> "other", provider |-> ABSENT, cleaned |-> TRUE],
   [execution |-> "POLICY_BLOCKED", files |-> ABSENT, patch |-> ABSENT, provider |-> "p", cleaned |-> FALSE],
   [execution |-> "THROWN", files |-> ABSENT, patch |-> ABSENT, provider |-> ABSENT, cleaned |-> FALSE]}

ProgressInit == part \in {"invocation", "bridge"} /\ Init /\ BridgeInit

ProgressNext ==
  /\ UNCHANGED part
  /\ IF part = "invocation" THEN Next ELSE UNCHANGED vars
  /\ IF part = "bridge" THEN BridgeNext ELSE UNCHANGED bridgeVars

\* The fairness of each module: a call that began goes on.
InvocationAdvances(c) == part = "invocation" /\ Advance(c) /\ UNCHANGED <<part, bridgeVars>>
BridgeServes(c) == part = "bridge" /\ Serve(c) /\ UNCHANGED <<part, vars>>

ProgressSpec ==
  /\ ProgressInit /\ [][ProgressNext]_progressVars
  /\ \A c \in Calls : WF_progressVars(InvocationAdvances(c))
  /\ \A c \in Clients : WF_progressVars(BridgeServes(c))
=============================================================================
