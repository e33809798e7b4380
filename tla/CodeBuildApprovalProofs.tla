------------------------ MODULE CodeBuildApprovalProofs ------------------------
(***************************************************************************)
(* Proofs about CodeBuildApproval, for any sets of approvals, missions,    *)
(* steps, keys and callers and any number of calls.                        *)
(***************************************************************************)
EXTENDS CodeBuildApproval, TLAPS

Row == [mission : Missions \cup {NULL}, approvalRequestKey : RequestKeys \cup {NULL},
        revoked : BOOLEAN, consumptionRequestKey : ConsumptionKeys \cup {NULL},
        executionTarget : Steps \cup {NULL}]

Call == [call : {"idle", "create", "revoke", "resolved", "dispatch", "invoke", "consume"},
         approval : Approvals \cup {NULL},
         key : ConsumptionKeys \cup RequestKeys \cup {NULL},
         mission : Missions \cup {NULL}, fresh : BOOLEAN]

\* What a call in flight may rely on, however old its reads are: a dispatch that
\* is about to invoke holds an approval that is its own and unused.
Relies(o) ==
  /\ o.call \in {"revoke", "resolved", "dispatch", "invoke", "consume"} =>
       o.approval \in Approvals
  /\ o.call = "create" => o.key \in RequestKeys /\ o.mission \in Missions
  /\ o.call = "consume" => o.key \in PublicKeys
  /\ o.call \in {"resolved", "dispatch", "invoke"} =>
       o.key \in Steps /\ approvals[o.approval].mission = MissionOf[o.key]
  /\ o.call = "invoke" =>
       /\ approvals[o.approval].consumptionRequestKey = o.key
       /\ approvals[o.approval].executionTarget = o.key
       /\ invocations[o.approval] = 0

\* An approval that was used was consumed for a step of its mission.
Used(a) ==
  invocations[a] # 0 =>
    /\ invocations[a] = 1
    /\ approvals[a].executionTarget \in Steps
    /\ approvals[a].consumptionRequestKey = approvals[a].executionTarget
    /\ approvals[a].mission = MissionOf[approvals[a].executionTarget]

Inv ==
  /\ ApprovalTypeOK
  /\ \A c \in Callers : Relies(op[c])
  /\ \A c, d \in Callers :
       op[c].call = "invoke" /\ op[d].call = "invoke" /\ op[c].approval = op[d].approval
         => c = d
  /\ \A a \in Approvals : Used(a)
  /\ \A a, b \in Approvals :
       Consumed(a) /\ approvals[a].consumptionRequestKey = approvals[b].consumptionRequestKey
         => a = b

\* The declared types, by name.
LEMMA Types ==
  ApprovalTypeOK <=>
    /\ approvals \in [Approvals -> Row] /\ expired \subseteq Approvals
    /\ invocations \in [Approvals -> Nat] /\ op \in [Callers -> Call]
    /\ calls \in 0..MaxCalls
BY DEF ApprovalTypeOK, Row, Call

\* No approval exists and no call is in flight.
LEMMA InitInv == ApprovalInit => Inv
<1> SUFFICES ASSUME ApprovalInit PROVE Inv
  OBVIOUS
<1> USE DEF ApprovalInit
<1>1. NoRow \in Row /\ Idle \in Call /\ NoRow.consumptionRequestKey = NULL
      /\ Idle.call = "idle"
  BY DEF NoRow, Row, Idle, Call
<1>2. ApprovalTypeOK
  BY <1>1, Types, ApprovalConstants
<1> QED
  BY <1>1, <1>2 DEF Inv, Relies, Used, Consumed

-----------------------------------------------------------------------------
(* The two kinds of step.                                                  *)

\* A call goes on; no row changes.
LEMMA ReadsPreserve ==
  ASSUME Inv, NEW c \in Callers, NEW local \in Call, Relies(local), Proceed(c, local),
         local.call # "invoke", calls' \in 0..MaxCalls
  PROVE  Inv'
<1>1. /\ ApprovalTypeOK' /\ UNCHANGED <<approvals, invocations>>
      /\ \A d \in Callers : op'[d] = IF d = c THEN local ELSE op[d]
  BY Types DEF Inv, Proceed, ApprovalTypeOK, Row, Call
<1>2. \A d \in Callers : Relies(op[d])'
  BY <1>1 DEF Inv, Relies
<1>3. \A d, e \in Callers :
        op'[d].call = "invoke" /\ op'[e].call = "invoke" /\ op'[d].approval = op'[e].approval
          => d = e
  BY <1>1 DEF Inv
<1>4. \A a \in Approvals : Used(a)'
  BY <1>1 DEF Inv, Used
<1> QED
  BY <1>1, <1>2, <1>3, <1>4 DEF Inv, Consumed

\* A row is written: what a consumed row says of its use is kept, the mission
\* too, and a consumption takes a key that is free.
LEMMA WritesPreserve ==
  ASSUME Inv, NEW c \in Callers, NEW a \in Approvals, NEW row \in Row, NEW local \in Call,
         Write(c, a, row, local),
         Exists(a) => row.mission = approvals[a].mission,
         Consumed(a) => /\ row.consumptionRequestKey = approvals[a].consumptionRequestKey
                        /\ row.executionTarget = approvals[a].executionTarget,
         row.consumptionRequestKey # NULL =>
           \A b \in Approvals \ {a} :
             approvals[b].consumptionRequestKey # row.consumptionRequestKey,
         local.call = "idle" \/
           /\ local.call = "invoke" /\ local.approval = a /\ local.key \in Steps
           /\ ~Consumed(a) /\ row.mission = MissionOf[local.key]
           /\ row.consumptionRequestKey = local.key /\ row.executionTarget = local.key
  PROVE  Inv'
<1>1. /\ ApprovalTypeOK' /\ invocations' = invocations
      /\ \A d \in Callers : op'[d] = IF d = c THEN local ELSE op[d]
      /\ \A b \in Approvals : approvals'[b] = IF b = a THEN row ELSE approvals[b]
  BY Types DEF Inv, Write, ApprovalTypeOK, Row, Call
<1>2. \A k \in Steps : k # NULL /\ MissionOf[k] # NULL /\ MissionOf[k] \in Missions
  BY ApprovalConstants DEF ConsumptionKeys
<1>3. approvals[a].mission # NULL => Exists(a)
  BY DEF Exists, NoRow
<1>4. Consumed(a) => Exists(a)
  BY DEF Exists, Consumed, NoRow
<1>5. ASSUME NEW d \in Callers PROVE Relies(op[d])'
  <2>1. CASE d = c
    <3>1. ~Consumed(a) => invocations[a] = 0
      BY <1>2 DEF Inv, Used, Consumed
    <3> QED
      BY <1>1, <2>1, <3>1 DEF Relies
  <2>2. CASE d # c
    <3>1. Relies(op[d]) /\ op'[d] = op[d]
      BY <1>1, <2>2 DEF Inv
    <3>2. CASE op[d].call \in {"resolved", "dispatch", "invoke"}
      <4>1. approvals'[op[d].approval].mission = approvals[op[d].approval].mission
        BY <1>1, <1>2, <1>3, <3>1, <3>2 DEF Relies
      <4>2. op[d].call = "invoke" =>
              /\ approvals'[op[d].approval].consumptionRequestKey = op[d].key
              /\ approvals'[op[d].approval].executionTarget = op[d].key
        BY <1>1, <1>2, <3>1 DEF Relies, Consumed
      <4> QED
        BY <1>1, <3>1, <4>1, <4>2 DEF Relies
    <3>3. CASE op[d].call \notin {"resolved", "dispatch", "invoke"}
      BY <3>1, <3>3 DEF Relies
    <3> QED
      BY <3>2, <3>3
  <2> QED
    BY <2>1, <2>2
<1>6. \A d, e \in Callers :
        op'[d].call = "invoke" /\ op'[e].call = "invoke" /\ op'[d].approval = op'[e].approval
          => d = e
  <2>1. \A d \in Callers : op[d].call = "invoke" => Consumed(op[d].approval)
    BY <1>2 DEF Inv, Relies, Consumed
  <2> QED
    BY <1>1, <2>1 DEF Inv
<1>7. ASSUME NEW b \in Approvals PROVE Used(b)'
  <2>1. Used(b) /\ invocations'[b] = invocations[b]
    BY <1>1 DEF Inv
  <2>2. invocations[b] # 0 => Consumed(b)
    BY <1>2, <2>1 DEF Used, Consumed
  <2> QED
    BY <1>1, <1>4, <2>1, <2>2 DEF Used
<1>8. \A b, e \in Approvals :
        Consumed(b)' /\ approvals'[b].consumptionRequestKey = approvals'[e].consumptionRequestKey
          => b = e
  BY <1>1 DEF Inv, Consumed
<1> QED
  BY <1>1, <1>5, <1>6, <1>7, <1>8 DEF Inv

-----------------------------------------------------------------------------
(* The operations.                                                         *)

\* A new call is counted.
LEMMA IssueCounts ==
  ASSUME Inv, NEW c \in Callers, Issue(c)
  PROVE  calls' \in 0..MaxCalls
<1>1. calls \in 0..MaxCalls /\ calls < MaxCalls /\ calls' = calls + 1 /\ MaxCalls \in Nat
  BY Types, ApprovalConstants DEF Inv, Issue
<1> QED
  BY <1>1

\* create.
LEMMA CreateSteps ==
  ASSUME Inv, NEW c \in Callers, CreateRead(c) \/ CreateCommit(c)
  PROVE  Inv'
<1>1. op[c] \in Call /\ Relies(op[c]) /\ calls \in 0..MaxCalls /\ MaxCalls \in Nat
  BY Types, ApprovalConstants DEF Inv
<1>2. CASE CreateRead(c)
  <2>1. PICK key \in RequestKeys, mission \in Missions :
          Proceed(c, [Idle EXCEPT !.call = "create", !.key = key, !.mission = mission])
    BY <1>2 DEF CreateRead
  <2> DEFINE local == [Idle EXCEPT !.call = "create", !.key = key, !.mission = mission]
  <2>2. local \in Call /\ local.call = "create" /\ local.key = key /\ local.mission = mission
    BY DEF Idle, Call
  <2>3. Relies(local)
    BY <2>2 DEF Relies
  <2>4. calls' \in 0..MaxCalls
    BY <1>2, IssueCounts DEF CreateRead
  <2> QED
    BY <2>1, <2>2, <2>3, <2>4, ReadsPreserve
<1>3. CASE CreateCommit(c)
  <2>1. PICK a \in Approvals :
          /\ ~Exists(a)
          /\ Write(c, a, [NoRow EXCEPT !.mission = op[c].mission,
                                       !.approvalRequestKey = op[c].key], Idle)
    BY <1>3 DEF CreateCommit
  <2> DEFINE row == [NoRow EXCEPT !.mission = op[c].mission, !.approvalRequestKey = op[c].key]
  <2>2. op[c].mission \in Missions /\ op[c].key \in RequestKeys
    BY <1>1, <1>3 DEF CreateCommit, Relies
  <2>3. row \in Row /\ row.consumptionRequestKey = NULL
    BY <2>2 DEF NoRow, Row
  <2>4. ~Consumed(a)
    BY <2>1 DEF Exists, Consumed, NoRow
  <2>5. Idle \in Call /\ Idle.call = "idle"
    BY DEF Idle, Call
  <2> HIDE DEF row
  <2>6. Write(c, a, row, Idle)
    BY <2>1 DEF row
  <2> QED
    BY <2>1, <2>3, <2>4, <2>5, <2>6, WritesPreserve
<1> QED
  BY <1>2, <1>3

\* revoke: the row loses nothing but its validity.
LEMMA RevokeSteps ==
  ASSUME Inv, NEW c \in Callers, RevokeRead(c) \/ RevokeCommit(c)
  PROVE  Inv'
<1>1. op[c] \in Call /\ Relies(op[c]) /\ calls \in 0..MaxCalls /\ MaxCalls \in Nat
  BY Types, ApprovalConstants DEF Inv
<1>2. CASE RevokeRead(c)
  <2>1. PICK a \in Approvals : Proceed(c, [Idle EXCEPT !.call = "revoke", !.approval = a])
    BY <1>2 DEF RevokeRead
  <2> DEFINE local == [Idle EXCEPT !.call = "revoke", !.approval = a]
  <2>2. local \in Call /\ local.call = "revoke" /\ local.approval = a
    BY DEF Idle, Call
  <2>3. Relies(local)
    BY <2>2 DEF Relies
  <2>4. calls' \in 0..MaxCalls
    BY <1>2, IssueCounts DEF RevokeRead
  <2> QED
    BY <2>1, <2>2, <2>3, <2>4, ReadsPreserve
<1>3. CASE RevokeCommit(c)
  <2> DEFINE a == op[c].approval
             row == [approvals[a] EXCEPT !.revoked = TRUE]
  <2>1. a \in Approvals
    BY <1>1, <1>3 DEF RevokeCommit, Relies
  <2>2. approvals[a] \in Row
    BY <2>1, Types DEF Inv
  <2>3. /\ row \in Row /\ row.mission = approvals[a].mission
        /\ row.consumptionRequestKey = approvals[a].consumptionRequestKey
        /\ row.executionTarget = approvals[a].executionTarget
    BY <2>2 DEF Row
  <2>4. Idle \in Call /\ Idle.call = "idle"
    BY DEF Idle, Call
  <2>5. row.consumptionRequestKey # NULL =>
          \A b \in Approvals \ {a} :
            approvals[b].consumptionRequestKey # row.consumptionRequestKey
    BY <2>1, <2>3 DEF Inv, Consumed
  <2> HIDE DEF row, a
  <2>6. Write(c, a, row, Idle)
    BY <1>3 DEF RevokeCommit, row, a
  <2> QED
    BY <2>1, <2>3, <2>4, <2>5, <2>6, WritesPreserve
<1> QED
  BY <1>2, <1>3

\* A dispatch up to its consumption.
LEMMA DispatchSteps ==
  ASSUME Inv, NEW c \in Callers, Resolve(c) \/ DispatchRead(c) \/ DispatchCommit(c)
  PROVE  Inv'
<1>1. op[c] \in Call /\ Relies(op[c]) /\ calls \in 0..MaxCalls /\ MaxCalls \in Nat
  BY Types, ApprovalConstants DEF Inv
<1>2. CASE Resolve(c)
  <2>1. PICK s \in Steps, a \in Approvals :
          /\ availableFor(s) = {a}
          /\ Proceed(c, [Idle EXCEPT !.call = "resolved", !.approval = a, !.key = s])
    BY <1>2 DEF Resolve
  <2> DEFINE local == [Idle EXCEPT !.call = "resolved", !.approval = a, !.key = s]
  <2>2. local \in Call /\ local.call = "resolved" /\ local.approval = a /\ local.key = s
    BY DEF Idle, Call, ConsumptionKeys
  <2>3. approvals[a].mission = MissionOf[s]
    BY <2>1 DEF availableFor
  <2>4. Relies(local)
    BY <2>2, <2>3 DEF Relies
  <2>5. calls' \in 0..MaxCalls
    BY <1>2, IssueCounts DEF Resolve
  <2> QED
    BY <2>1, <2>2, <2>4, <2>5, ReadsPreserve
<1>3. CASE DispatchRead(c)
  <2> DEFINE isFresh == op[c].approval \notin expired
             local == [op[c] EXCEPT !.call = "dispatch", !.fresh = isFresh]
  <2>1. isFresh \in BOOLEAN
    OBVIOUS
  <2> HIDE DEF isFresh
  <2>2. /\ local \in Call /\ local.call = "dispatch" /\ local.approval = op[c].approval
        /\ local.key = op[c].key
    BY <1>1, <2>1 DEF Call
  <2>3. Relies(local)
    BY <1>1, <1>3, <2>2 DEF Relies, DispatchRead
  <2> QED
    BY <1>1, <1>3, <2>2, <2>3, ReadsPreserve DEF DispatchRead, isFresh
<1>4. CASE DispatchCommit(c)
  <2> DEFINE a == op[c].approval
             k == op[c].key
             row == [approvals[a] EXCEPT !.consumptionRequestKey = k, !.executionTarget = k]
             local == [op[c] EXCEPT !.call = "invoke"]
  <2>1. a \in Approvals /\ k \in Steps /\ approvals[a].mission = MissionOf[k] /\ ~Consumed(a)
    BY <1>1, <1>4 DEF DispatchCommit, Relies, consumable
  <2>2. approvals[a] \in Row
    BY <2>1, Types DEF Inv
  <2>3. local \in Call /\ local.call = "invoke" /\ local.approval = a /\ local.key = k
    BY <1>1 DEF Call
  <2> HIDE DEF a, k
  <2>4. /\ row \in Row /\ row.mission = approvals[a].mission
        /\ row.consumptionRequestKey = k /\ row.executionTarget = k
    BY <2>1, <2>2 DEF Row, ConsumptionKeys
  <2>5. \A b \in Approvals \ {a} : approvals[b].consumptionRequestKey # k
    BY <1>4 DEF DispatchCommit, keyFree, a, k
  <2> HIDE DEF row, local
  <2>6. Write(c, a, row, local)
    BY <1>4 DEF DispatchCommit, row, local, a, k
  <2> QED
    BY <2>1, <2>3, <2>4, <2>5, <2>6, WritesPreserve
<1> QED
  BY <1>2, <1>3, <1>4

\* The provider invocation uses the approval up.
LEMMA InvokeStep ==
  ASSUME Inv, NEW c \in Callers, Invoke(c)
  PROVE  Inv'
<1> DEFINE a == op[c].approval
<1>1. op[c] \in Call /\ Relies(op[c]) /\ op[c].call = "invoke" /\ ApprovalTypeOK
  BY Types DEF Inv, Invoke
<1>2. /\ a \in Approvals /\ invocations[a] = 0
      /\ approvals[a].executionTarget \in Steps
      /\ approvals[a].consumptionRequestKey = approvals[a].executionTarget
      /\ approvals[a].mission = MissionOf[approvals[a].executionTarget]
  BY <1>1 DEF Relies
<1>3. Idle \in Call /\ Idle.call = "idle"
  BY DEF Idle, Call
<1>4. /\ approvals' = approvals /\ calls' = calls /\ expired' = expired
      /\ invocations' = [invocations EXCEPT ![a] = invocations[a] + 1]
      /\ op' = [op EXCEPT ![c] = Idle]
  BY DEF Invoke
<1> HIDE DEF a
<1>5. /\ ApprovalTypeOK' /\ invocations'[a] = 1
      /\ \A b \in Approvals \ {a} : invocations'[b] = invocations[b]
      /\ \A d \in Callers : op'[d] = IF d = c THEN Idle ELSE op[d]
  BY <1>1, <1>2, <1>3, <1>4, Types DEF ApprovalTypeOK, Row, Call
<1>6. ASSUME NEW d \in Callers PROVE Relies(op[d])'
  <2>1. op[d].call = "invoke" /\ d # c => op[d].approval # a
    BY <1>1 DEF Inv, a
  <2> QED
    BY <1>3, <1>4, <1>5, <2>1 DEF Inv, Relies
<1>7. \A d, e \in Callers :
        op'[d].call = "invoke" /\ op'[e].call = "invoke" /\ op'[d].approval = op'[e].approval
          => d = e
  BY <1>3, <1>5 DEF Inv
<1>8. \A b \in Approvals : Used(b)'
  BY <1>2, <1>4, <1>5 DEF Inv, Used
<1> QED
  BY <1>4, <1>5, <1>6, <1>7, <1>8 DEF Inv, Consumed

\* The public consumption.
LEMMA ConsumeSteps ==
  ASSUME Inv, NEW c \in Callers, ConsumeRead(c) \/ ConsumeCommit(c)
  PROVE  Inv'
<1>1. op[c] \in Call /\ Relies(op[c])
  BY Types DEF Inv
<1>2. CASE ConsumeRead(c)
  <2>1. PICK a \in Approvals, key \in PublicKeys :
          Proceed(c, [Idle EXCEPT !.call = "consume", !.approval = a, !.key = key,
                                  !.fresh = TRUE])
    BY <1>2 DEF ConsumeRead
  <2> DEFINE local == [Idle EXCEPT !.call = "consume", !.approval = a, !.key = key,
                                   !.fresh = TRUE]
  <2>2. local \in Call /\ local.call = "consume" /\ local.approval = a /\ local.key = key
    BY DEF Idle, Call, ConsumptionKeys
  <2>3. Relies(local)
    BY <2>2 DEF Relies
  <2>4. calls' \in 0..MaxCalls
    BY <1>2, IssueCounts DEF ConsumeRead
  <2> QED
    BY <2>1, <2>2, <2>3, <2>4, ReadsPreserve
<1>3. CASE ConsumeCommit(c)
  <2> DEFINE a == op[c].approval
             k == op[c].key
             row == [approvals[a] EXCEPT !.consumptionRequestKey = k]
  <2>1. a \in Approvals /\ k \in PublicKeys /\ ~Consumed(a)
    BY <1>1, <1>3 DEF ConsumeCommit, Relies, consumable
  <2>2. approvals[a] \in Row
    BY <2>1, Types DEF Inv
  <2> HIDE DEF a, k
  <2>3. row \in Row /\ row.mission = approvals[a].mission /\ row.consumptionRequestKey = k
    BY <2>1, <2>2 DEF Row, ConsumptionKeys
  <2>4. \A b \in Approvals \ {a} : approvals[b].consumptionRequestKey # k
    BY <1>3 DEF ConsumeCommit, keyFree, a, k
  <2>5. Idle \in Call /\ Idle.call = "idle"
    BY DEF Idle, Call
  <2> HIDE DEF row
  <2>6. Write(c, a, row, Idle)
    BY <1>3 DEF ConsumeCommit, row, a, k
  <2> QED
    BY <2>1, <2>3, <2>4, <2>5, <2>6, WritesPreserve
<1> QED
  BY <1>2, <1>3

\* A call that ends early, and the passing of time.
LEMMA OtherSteps ==
  ASSUME Inv, (\E c \in Callers : Abort(c)) \/ (\E a \in Approvals : Expire(a))
  PROVE  Inv'
<1>1. CASE \E c \in Callers : Abort(c)
  <2>1. Idle \in Call /\ Idle.call = "idle" /\ Relies(Idle)
    BY DEF Idle, Call, Relies
  <2>2. calls \in 0..MaxCalls
    BY DEF Inv, ApprovalTypeOK
  <2> QED
    BY <1>1, <2>1, <2>2, ReadsPreserve DEF Abort
<1>2. CASE \E a \in Approvals : Expire(a)
  <2>1. /\ UNCHANGED <<approvals, invocations, op, calls>> /\ ApprovalTypeOK
        /\ expired' \subseteq Approvals
    BY <1>2 DEF Expire, Inv, ApprovalTypeOK
  <2>2. ApprovalTypeOK'
    BY <2>1 DEF ApprovalTypeOK
  <2> QED
    BY <2>1, <2>2 DEF Inv, Relies, Used, Consumed
<1> QED
  BY <1>1, <1>2

\* Every step preserves the invariant.
LEMMA NextInv ==
  ASSUME Inv, [ApprovalNext]_approvalVars
  PROVE  Inv'
<1>1. CASE ApprovalNext
  BY <1>1, CreateSteps, RevokeSteps, DispatchSteps, InvokeStep, ConsumeSteps, OtherSteps
     DEF ApprovalNext
<1>2. CASE UNCHANGED approvalVars
  <2>1. ApprovalTypeOK'
    BY <1>2 DEF approvalVars, Inv, ApprovalTypeOK
  <2> QED
    BY <1>2, <2>1 DEF approvalVars, Inv, Relies, Used, Consumed
<1> QED
  BY <1>1, <1>2

-----------------------------------------------------------------------------
(* Results.                                                                *)

\* Inv holds in every reachable state.
THEOREM Invariance == ApprovalSpec => []Inv
<1>1. Inv /\ [ApprovalNext]_approvalVars => Inv'
  BY NextInv
<1> QED
  BY InitInv, <1>1, PTL DEF ApprovalSpec

\* Rows and calls in flight keep their types (code-build-approval.service.ts).
THEOREM TypeCorrect == ApprovalSpec => []ApprovalTypeOK
<1>1. Inv => ApprovalTypeOK
  BY DEF Inv
<1> QED
  BY Invariance, <1>1, PTL

\* An approval authorises at most one provider invocation, under whatever
\* interleaving of dispatches, replays, revocations and crashes.
THEOREM SingleInvocation == ApprovalSpec => []OneInvocationPerApproval
<1>1. Inv => OneInvocationPerApproval
  <2> SUFFICES ASSUME Inv, NEW a \in Approvals PROVE invocations[a] <= 1
    BY DEF OneInvocationPerApproval
  <2>1. invocations[a] \in Nat /\ Used(a)
    BY DEF Inv, ApprovalTypeOK
  <2> QED
    BY <2>1 DEF Used
<1> QED
  BY Invariance, <1>1, PTL

\* However many approvals a mission is granted, a step is dispatched under one.
THEOREM SingleDispatch == ApprovalSpec => []OneInvocationPerStep
<1>1. Inv => OneInvocationPerStep
  <2> SUFFICES ASSUME Inv, NEW a \in Approvals, NEW b \in Approvals,
                      invocations[a] > 0, invocations[b] > 0,
                      approvals[a].executionTarget = approvals[b].executionTarget
               PROVE  a = b
    BY DEF OneInvocationPerStep
  <2>1. /\ approvals[a].consumptionRequestKey = approvals[a].executionTarget
        /\ approvals[b].consumptionRequestKey = approvals[b].executionTarget
        /\ approvals[a].executionTarget \in Steps
    BY DEF Inv, Used
  <2>2. Consumed(a)
    BY <2>1, ApprovalConstants DEF Consumed, ConsumptionKeys
  <2> QED
    BY <2>1, <2>2 DEF Inv
<1> QED
  BY Invariance, <1>1, PTL

\* An invocation is made under an approval of the step's own mission, consumed
\* for that step.
THEOREM InvocationInScope == ApprovalSpec => []InvokedInScope
<1>1. Inv => InvokedInScope
  BY DEF Inv, Used, InvokedInScope
<1> QED
  BY Invariance, <1>1, PTL

\* Approvals and invoked steps are paired off: one invocation per approval, one
\* approval per step, in scope.
THEOREM AuthorisationHolds == ApprovalSpec => []AuthorisedOnce
<1>1. OneInvocationPerApproval /\ OneInvocationPerStep /\ InvokedInScope <=> AuthorisedOnce
  BY DEF AuthorisedOnce
<1> QED
  BY SingleInvocation, SingleDispatch, InvocationInScope, <1>1, PTL

-----------------------------------------------------------------------------
(* Steps seen from outside: SingleUse.                                     *)

\* Inv gives the shape of the rows.
LEMMA Rows == Inv => /\ approvals \in [Approvals -> Row]
                     /\ invocations \in [Approvals -> Nat]
                     /\ \A c \in Callers : Relies(op[c])
BY Types DEF Inv

\* A write that leaves the consumption alone changes nothing SingleUse sees.
LEMMA KeptConsumption ==
  ASSUME Inv, NEW c \in Callers, NEW a \in Approvals, NEW row, NEW local,
         Write(c, a, row, local),
         row.consumptionRequestKey = approvals[a].consumptionRequestKey
  PROVE  /\ UNCHANGED Grants!vars
         /\ \A b \in Approvals :
              approvals'[b].consumptionRequestKey = approvals[b].consumptionRequestKey
<1>1. \A b \in Approvals : approvals'[b] = IF b = a THEN row ELSE approvals[b]
  BY Rows DEF Write
<1>2. \A b \in Approvals :
        approvals'[b].consumptionRequestKey = approvals[b].consumptionRequestKey
  BY <1>1
<1>3. invocations' = invocations
  BY DEF Write
<1> QED
  BY <1>2, <1>3 DEF Grants!vars

\* Either claim takes an approval nobody holds.
LEMMA ConsumptionTakes ==
  ASSUME Inv, NEW c \in Callers, NEW row, NEW local,
         op[c].approval \in Approvals, op[c].key \in ConsumptionKeys, consumable(c),
         Write(c, op[c].approval, row, local), row.consumptionRequestKey = op[c].key
  PROVE  Grants!Next
<1>0. PICK a \in Approvals : a = op[c].approval
  OBVIOUS
<1>1. \A b \in Approvals : approvals'[b] = IF b = a THEN row ELSE approvals[b]
  BY <1>0, Rows DEF Write
<1>2. approvals[a].consumptionRequestKey = NULL
  BY <1>0 DEF consumable, Consumed
<1>3. [b \in Approvals |-> approvals[b].consumptionRequestKey]' =
        [[b \in Approvals |-> approvals[b].consumptionRequestKey] EXCEPT ![a] = op[c].key]
  BY <1>1
<1>4. invocations' = invocations
  BY DEF Write
<1>5. Grants!Take(a)
  BY <1>2, <1>3, <1>4 DEF Grants!Take
<1> QED
  BY <1>5 DEF Grants!Next

\* The effect of an approval happens once.
LEMMA InvokeFires ==
  ASSUME Inv, NEW c \in Callers, Invoke(c)
  PROVE  Grants!Next
<1>0. PICK a \in Approvals : a = op[c].approval
  BY Rows DEF Relies, Invoke
<1>1. /\ a \in Approvals /\ op[c].key \in Steps /\ invocations[a] = 0
      /\ approvals[a].consumptionRequestKey = op[c].key
  BY <1>0, Rows DEF Relies, Invoke
<1>2. op[c].key # NULL
  BY <1>1, ApprovalConstants DEF ConsumptionKeys
<1>3. \A b \in Approvals : invocations'[b] = IF b = a THEN invocations[a] + 1 ELSE invocations[b]
  BY Rows, <1>0, <1>1 DEF Invoke
<1>4. {b \in Approvals : invocations[b] > 0}' = {b \in Approvals : invocations[b] > 0} \cup {a}
  BY <1>1, <1>3, Rows
<1>5. approvals' = approvals
  BY DEF Invoke
<1>6. Grants!Fire(a)
  BY <1>1, <1>2, <1>4, <1>5 DEF Grants!Fire
<1> QED
  BY <1>6 DEF Grants!Next

\* Every step is a step of SingleUse or none.
LEMMA StepSimulates ==
  ASSUME Inv, [ApprovalNext]_approvalVars
  PROVE  [Grants!Next]_Grants!vars
<1>1. ASSUME NEW c \in Callers, CreateCommit(c) PROVE UNCHANGED Grants!vars
  <2>1. PICK a \in Approvals :
          /\ ~Exists(a)
          /\ Write(c, a, [NoRow EXCEPT !.mission = op[c].mission,
                                       !.approvalRequestKey = op[c].key], Idle)
    BY <1>1 DEF CreateCommit
  <2>2. approvals[a].consumptionRequestKey = NULL
    BY <2>1 DEF Exists, NoRow
  <2>3. [NoRow EXCEPT !.mission = op[c].mission,
                      !.approvalRequestKey = op[c].key].consumptionRequestKey = NULL
    BY DEF NoRow
  <2> QED
    BY <2>1, <2>2, <2>3, KeptConsumption
<1>2. ASSUME NEW c \in Callers, RevokeCommit(c) PROVE UNCHANGED Grants!vars
  <2>1. op[c].approval \in Approvals
    BY <1>2, Rows DEF Relies, RevokeCommit
  <2>2. approvals[op[c].approval] \in Row
    BY <2>1, Rows
  <2>3. [approvals[op[c].approval] EXCEPT !.revoked = TRUE].consumptionRequestKey
          = approvals[op[c].approval].consumptionRequestKey
    BY <2>2 DEF Row
  <2> QED
    BY <1>2, <2>1, <2>3, KeptConsumption DEF RevokeCommit
<1>3. ASSUME NEW c \in Callers, DispatchCommit(c) PROVE Grants!Next
  <2>1. op[c].approval \in Approvals /\ op[c].key \in ConsumptionKeys
    BY <1>3, Rows DEF Relies, DispatchCommit, ConsumptionKeys
  <2>2. approvals[op[c].approval] \in Row
    BY <2>1, Rows
  <2>3. [approvals[op[c].approval] EXCEPT !.consumptionRequestKey = op[c].key,
           !.executionTarget = op[c].key].consumptionRequestKey = op[c].key
    BY <2>2 DEF Row
  <2> QED
    BY <1>3, <2>1, <2>3, ConsumptionTakes DEF DispatchCommit
<1>4. ASSUME NEW c \in Callers, ConsumeCommit(c) PROVE Grants!Next
  <2>1. op[c].approval \in Approvals /\ op[c].key \in ConsumptionKeys
    BY <1>4, Rows DEF Relies, ConsumeCommit, ConsumptionKeys
  <2>2. approvals[op[c].approval] \in Row
    BY <2>1, Rows
  <2>3. [approvals[op[c].approval] EXCEPT !.consumptionRequestKey = op[c].key]
          .consumptionRequestKey = op[c].key
    BY <2>2 DEF Row
  <2> QED
    BY <1>4, <2>1, <2>3, ConsumptionTakes DEF ConsumeCommit
<1>5. ASSUME NEW c \in Callers, Invoke(c) PROVE Grants!Next
  BY <1>5, InvokeFires
<1>6. ASSUME UNCHANGED <<approvals, invocations>> PROVE UNCHANGED Grants!vars
  BY <1>6 DEF Grants!vars
<1>7. ASSUME NEW c \in Callers,
             CreateRead(c) \/ RevokeRead(c) \/ Resolve(c) \/ DispatchRead(c)
               \/ ConsumeRead(c) \/ Abort(c)
      PROVE  UNCHANGED <<approvals, invocations>>
  BY <1>7 DEF CreateRead, RevokeRead, Resolve, DispatchRead, ConsumeRead, Abort, Proceed
<1>8. ASSUME NEW a \in Approvals, Expire(a) PROVE UNCHANGED <<approvals, invocations>>
  BY <1>8 DEF Expire
<1>9. CASE UNCHANGED approvalVars
  BY <1>6, <1>9 DEF approvalVars
<1> QED
  BY <1>1, <1>2, <1>3, <1>4, <1>5, <1>6, <1>7, <1>8, <1>9 DEF ApprovalNext

\* The detailed approvals implement SingleUse: an approval is consumed once and
\* for good, and its invocation follows the consumption and happens once.
THEOREM RefinesSingleUse == ApprovalSpec => ApprovalsImplementSingleUse
<1>1. ApprovalInit => Grants!Init
  BY DEF ApprovalInit, Grants!Init, NoRow
<1>2. Inv /\ [ApprovalNext]_approvalVars => [Grants!Next]_Grants!vars
  BY StepSimulates
<1> QED
  BY Invariance, <1>1, <1>2, PTL DEF ApprovalSpec, ApprovalsImplementSingleUse, Grants!Spec

\* An approval revoked before it was consumed is never consumed, whatever
\* dispatch resolved it before the revocation.
THEOREM RevocationHolds == ApprovalSpec => RevokedStaysUnused
<1> DEFINE Kept == \A a \in Approvals : approvals[a].revoked /\ ~Consumed(a) =>
                     approvals'[a].consumptionRequestKey = NULL
<1>1. Inv /\ [ApprovalNext]_approvalVars => [Kept]_approvalVars
  <2> SUFFICES ASSUME Inv, ApprovalNext, NEW a \in Approvals, approvals[a].revoked, ~Consumed(a)
               PROVE  approvals'[a].consumptionRequestKey = NULL
    OBVIOUS
  <2>0. approvals[a].consumptionRequestKey = NULL
    BY DEF Consumed
  <2>1. ASSUME NEW c \in Callers, CreateCommit(c)
        PROVE  approvals'[a].consumptionRequestKey = NULL
    <3>1. PICK b \in Approvals :
            approvals' = [approvals EXCEPT ![b] =
              [NoRow EXCEPT !.mission = op[c].mission, !.approvalRequestKey = op[c].key]]
      BY <2>1 DEF CreateCommit, Write
    <3> QED
      BY <2>0, <3>1, Rows DEF NoRow
  <2>2. ASSUME NEW c \in Callers, RevokeCommit(c)
        PROVE  approvals'[a].consumptionRequestKey = NULL
    BY <2>0, <2>2, Rows DEF RevokeCommit, Write, Row
  <2>3. ASSUME NEW c \in Callers, DispatchCommit(c) \/ ConsumeCommit(c)
        PROVE  approvals'[a] = approvals[a]
    <3>1. op[c].approval # a
      BY <2>3 DEF DispatchCommit, ConsumeCommit, consumable
    <3> QED
      BY <2>3, <3>1, Rows DEF DispatchCommit, ConsumeCommit, Write
  <2>4. ASSUME NEW c \in Callers,
               CreateRead(c) \/ RevokeRead(c) \/ Resolve(c) \/ DispatchRead(c)
                 \/ ConsumeRead(c) \/ Abort(c) \/ Invoke(c)
        PROVE  approvals' = approvals
    BY <2>4 DEF CreateRead, RevokeRead, Resolve, DispatchRead, ConsumeRead, Abort, Proceed,
                Invoke
  <2>5. ASSUME NEW b \in Approvals, Expire(b) PROVE approvals' = approvals
    BY <2>5 DEF Expire
  <2> QED
    BY <2>0, <2>1, <2>2, <2>3, <2>4, <2>5 DEF ApprovalNext
<1> QED
  BY Invariance, <1>1, PTL DEF ApprovalSpec, RevokedStaysUnused
=============================================================================
