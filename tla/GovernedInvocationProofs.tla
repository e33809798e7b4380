------------------------ MODULE GovernedInvocationProofs ------------------------
(***************************************************************************)
(* Proofs about GovernedInvocation, for any set of calls and requests and  *)
(* any number of restarts: one execution per claim, settled by its owner,  *)
(* and the refinement of SingleUse.                                        *)
(***************************************************************************)
EXTENDS GovernedInvocation, TLAPS

\* Where a call has not yet started its adapter, and where its result is final.
BeforeClaim == {"idle", "checks", "claim"}
BeforeStart == {"idle", "checks", "claim", "execute"}
AfterResult == {"mark", "persist", "close", "done"}
Closing == {"persist", "close", "done", "threw", "dead"}

\* The claim of a call is in the table under the call's own attempt, for good.
ClaimIsMine(c) == claimed[c] => claims[KeyOf(c)].invocationId = AttemptOf(c)

\* A call is where its variables say it is.
Local(c) ==
  /\ pc[c] \in BeforeClaim => ~claimed[c]
  /\ pc[c] = "claim" => Consequential(c)
  /\ pc[c] \in BeforeStart => ~Started(c)
  /\ pc[c] = "race" => Started(c)
  /\ Consequential(c) /\ (Started(c) \/ pc[c] = "execute") => claimed[c]
  /\ pc[c] \in AfterResult => result[c] # NONE
  /\ pc[c] = "mark" /\ claimed[c] => Started(c)
  /\ result[c] = "SUCCEEDED" => /\ adapter[c] = "SUCCEEDED"
                                /\ pc[c] \in {"mark"} \cup Closing
  /\ envelope[c] = "COMPLETED" => result[c] = "SUCCEEDED"

\* The owner of a settled claim.
Settles(c, k) ==
  /\ KeyOf(c) = k /\ claimed[c] /\ AttemptOf(c) = claims[k].invocationId
  /\ Started(c) /\ result[c] # NONE /\ pc[c] \in Closing
  /\ claims[k].state = "COMPLETED" <=> result[c] = "SUCCEEDED"

Inv ==
  /\ TypeOK
  /\ \A c \in Calls : ClaimIsMine(c) /\ Local(c)
  /\ \A c, d \in Calls : claimed[c] /\ claimed[d] /\ KeyOf(c) = KeyOf(d) => c = d
  /\ \A k \in Keys : claims[k].state \notin {NONE, "IN_PROGRESS"} =>
       \E c \in Calls : Settles(c, k)
  /\ \A k \in Keys : claims[k].invocationId = NONE <=> claims[k] = NoClaim
  /\ \A a \in Attempts : records[a] = "SUCCEEDED" =>
       \E c \in Calls : AttemptOf(c) = a /\ result[c] = "SUCCEEDED" /\ pc[c] \in Closing

-----------------------------------------------------------------------------
(* Identities.                                                             *)

\* Keys and attempts have their types, and no attempt is the missing one.
LEMMA Identities ==
  ASSUME NEW c \in Calls
  PROVE  KeyOf(c) \in Keys /\ AttemptOf(c) \in Attempts /\ AttemptOf(c) # NONE
BY RequestAssumption DEF Keys, Attempts, AttemptOf

\* Requests that differ in their attempt only have one logical operation key.
LEMMA SameRequestSameKey ==
  ASSUME NEW c \in Calls, NEW d \in Calls, SameRequest(c, d)
  PROVE  KeyOf(c) = KeyOf(d) /\ Request[c].action = Request[d].action
<1>1. /\ Request[c].step = Request[d].step /\ Request[c].action = Request[d].action
      /\ Request[c].path = Request[d].path /\ Request[c].command = Request[d].command
  BY RequestAssumption DEF SameRequest
<1> QED
  BY <1>1 DEF KeyOf, buildGovernedLogicalOperationKey

-----------------------------------------------------------------------------
(* The invariant is inductive.                                             *)

\* No call has begun.
LEMMA InitInv == Init => Inv
<1> SUFFICES ASSUME Init PROVE Inv
  OBVIOUS
<1>1. TypeOK
  BY RequestAssumption DEF Init, TypeOK, NoClaim, NONE
<1>2. \A c \in Calls : ClaimIsMine(c) /\ Local(c)
  BY DEF Init, ClaimIsMine, Local, Started, AfterResult, NONE
<1>3. \A k \in Keys : claims[k] = NoClaim /\ claims[k].state = NONE
                      /\ claims[k].invocationId = NONE
  BY DEF Init, NoClaim
<1>4. \A c \in Calls : ~claimed[c]
  BY DEF Init
<1>5. \A a \in Attempts : records[a] # "SUCCEEDED"
  BY DEF Init, NONE
<1> QED
  BY <1>1, <1>2, <1>3, <1>4, <1>5 DEF Inv

\* A step of call c that leaves the claims and the records alone, and the
\* results of the calls that are past them.
LEMMA LocalStep ==
  ASSUME Inv, TypeOK', NEW c \in Calls, UNCHANGED <<claims, records>>,
         \A d \in Calls \ {c} :
           /\ pc'[d] = pc[d] /\ claimed'[d] = claimed[d] /\ result'[d] = result[d]
           /\ adapter'[d] = adapter[d] /\ envelope'[d] = envelope[d],
         claimed'[c] = claimed[c], Started(c) => Started(c)',
         pc[c] \in Closing => pc'[c] \in Closing /\ result'[c] = result[c],
         Local(c)'
  PROVE  Inv'
<1>1. \A d \in Calls : claimed'[d] = claimed[d]
  OBVIOUS
<1>2. \A d \in Calls : Local(d)'
  BY DEF Inv, Local, Started
<1>3. \A d \in Calls : ClaimIsMine(d)'
  BY <1>1 DEF Inv, ClaimIsMine
<1>4. ASSUME NEW k \in Keys, claims'[k].state \notin {NONE, "IN_PROGRESS"}
      PROVE  \E d \in Calls : Settles(d, k)'
  <2>1. PICK d \in Calls : Settles(d, k)
    BY <1>4 DEF Inv
  <2>2. Settles(d, k)'
    BY <1>1, <2>1 DEF Settles, Started
  <2> QED
    BY <2>2
<1>5. ASSUME NEW a \in Attempts, records'[a] = "SUCCEEDED"
      PROVE  \E d \in Calls : AttemptOf(d) = a /\ result'[d] = "SUCCEEDED" /\ pc'[d] \in Closing
  BY <1>5 DEF Inv
<1> QED
  BY <1>1, <1>2, <1>3, <1>4, <1>5 DEF Inv

\* The steps up to the claim gate, and the answer to a duplicate.
LEMMA GateSteps ==
  ASSUME Inv, NEW c \in Calls, Begin(c) \/ Refuse(c) \/ Allow(c) \/ ClaimBlocked(c)
  PROVE  Inv'
<1> USE DEF At, Result, BeforeClaim, BeforeStart, AfterResult, Closing, NONE
<1>1. TypeOK /\ Local(c)
  BY DEF Inv
<1>2. CASE Begin(c)
  <2>1. TypeOK'
    BY <1>1, <1>2 DEF Begin, TypeOK
  <2>2. Local(c)'
    BY <1>1, <1>2 DEF Begin, Local, Started, TypeOK
  <2> QED
    BY <1>1, <1>2, <2>1, <2>2, LocalStep DEF Begin, TypeOK, Started
<1>3. CASE Refuse(c)
  <2>1. TypeOK'
    BY <1>1, <1>3 DEF Refuse, TypeOK, ResultStatus
  <2>2. Local(c)'
    BY <1>1, <1>3 DEF Refuse, Local, Started, TypeOK
  <2> QED
    BY <1>1, <1>3, <2>1, <2>2, LocalStep DEF Refuse, TypeOK, Started
<1>4. CASE Allow(c)
  <2>1. TypeOK'
    BY <1>1, <1>4 DEF Allow, TypeOK, claimGate
  <2>2. Local(c)'
    BY <1>1, <1>4 DEF Allow, Local, Started, TypeOK, claimGate
  <2> QED
    BY <1>1, <1>4, <2>1, <2>2, LocalStep DEF Allow, TypeOK, Started
<1>5. CASE ClaimBlocked(c)
  <2>1. TypeOK'
    BY <1>1, <1>5 DEF ClaimBlocked, TypeOK, ResultStatus, idempotencyBlocked
  <2>2. Local(c)'
    BY <1>1, <1>5 DEF ClaimBlocked, Local, Started, TypeOK, idempotencyBlocked
  <2> QED
    BY <1>1, <1>5, <2>1, <2>2, LocalStep DEF ClaimBlocked, TypeOK, Started
<1> QED
  BY <1>2, <1>3, <1>4, <1>5

\* The execution and its race with the timer.
LEMMA ExecutionSteps ==
  ASSUME Inv, NEW c \in Calls,
         Execute(c) \/ AdapterReturns(c) \/ Timeout(c) \/ AdapterEndsLate(c)
  PROVE  Inv'
<1> USE DEF At, Result, BeforeClaim, BeforeStart, AfterResult, Closing, NONE
<1>1. TypeOK /\ Local(c)
  BY DEF Inv
<1>2. CASE Execute(c)
  <2>1. TypeOK'
    BY <1>1, <1>2 DEF Execute, TypeOK
  <2>2. Local(c)'
    BY <1>1, <1>2 DEF Execute, Local, Started, TypeOK
  <2> QED
    BY <1>1, <1>2, <2>1, <2>2, LocalStep DEF Execute, TypeOK, Started
<1>3. CASE AdapterReturns(c)
  <2>1. PICK status \in AgentExecutionStatus :
          /\ adapter' = [adapter EXCEPT ![c] = IF status = "SUCCEEDED" THEN status ELSE "FAILED"]
          /\ result' = [result EXCEPT ![c] = normalizedStatus(status)]
    BY <1>3 DEF AdapterReturns
  <2>2. /\ normalizedStatus(status) \in ResultStatus
        /\ normalizedStatus(status) = "SUCCEEDED" => status = "SUCCEEDED"
        /\ normalizedStatus(status) # NONE
    BY DEF normalizedStatus, ResultStatus, VALID_FROM_RUNNING
  <2>3. TypeOK'
    BY <1>1, <1>3, <2>1, <2>2 DEF AdapterReturns, TypeOK
  <2>4. Local(c)'
    BY <1>1, <1>3, <2>1, <2>2 DEF AdapterReturns, Local, Started, TypeOK
  <2>5. Started(c)'
    BY <1>1, <2>1 DEF Started, TypeOK, AgentExecutionStatus
  <2> QED
    BY <1>1, <1>3, <2>1, <2>3, <2>4, <2>5, LocalStep DEF AdapterReturns, TypeOK
<1>4. CASE Timeout(c)
  <2>1. TypeOK'
    BY <1>1, <1>4 DEF Timeout, TypeOK, ResultStatus, VALID_FROM_RUNNING
  <2>2. Local(c)'
    BY <1>1, <1>4 DEF Timeout, Local, Started, TypeOK
  <2> QED
    BY <1>1, <1>4, <2>1, <2>2, LocalStep DEF Timeout, TypeOK, Started
<1>5. CASE AdapterEndsLate(c)
  <2>1. PICK status \in {"SUCCEEDED", "FAILED"} : adapter' = [adapter EXCEPT ![c] = status]
    BY <1>5 DEF AdapterEndsLate
  <2>2. TypeOK'
    BY <1>1, <1>5, <2>1 DEF AdapterEndsLate, TypeOK
  <2>3. Local(c)'
    BY <1>1, <1>5, <2>1 DEF AdapterEndsLate, Local, Started, TypeOK
  <2> QED
    BY <1>1, <1>5, <2>1, <2>2, <2>3, LocalStep DEF AdapterEndsLate, TypeOK, Started
<1> QED
  BY <1>2, <1>3, <1>4, <1>5

\* The end of executeWorkspaceFileOperation.
LEMMA ClosingSteps ==
  ASSUME Inv, NEW c \in Calls, Close(c) \/ Throw(c)
  PROVE  Inv'
<1> USE DEF At, BeforeClaim, BeforeStart, AfterResult, Closing, NONE
<1>1. TypeOK /\ Local(c)
  BY DEF Inv
<1>2. CASE Close(c)
  <2>1. TypeOK'
    BY <1>1, <1>2 DEF Close, TypeOK
  <2>2. Local(c)'
    BY <1>1, <1>2 DEF Close, Local, Started, TypeOK
  <2> QED
    BY <1>1, <1>2, <2>1, <2>2, LocalStep DEF Close, TypeOK, Started
<1>3. CASE Throw(c)
  <2>1. TypeOK'
    BY <1>1, <1>3 DEF Throw, TypeOK
  <2>2. Local(c)'
    BY <1>1, <1>3 DEF Throw, Local, Started, TypeOK
  <2> QED
    BY <1>1, <1>3, <2>1, <2>2, LocalStep DEF Throw, TypeOK, Started
<1> QED
  BY <1>2, <1>3

\* A new row of the claim table: its key had none, so nobody held it.
LEMMA NewClaimFacts ==
  ASSUME Inv, NEW c \in Calls, claimOutcome(c) = "CLAIMED", NewClaim(c)
  PROVE  /\ claims' \in [Keys -> [invocationId : Attempts \cup {NONE},
                                  state : GovernedInvocationClaimState \cup {NONE}]]
         /\ claims'[KeyOf(c)].invocationId = AttemptOf(c)
         /\ claims'[KeyOf(c)].state = "IN_PROGRESS"
         /\ \A k \in Keys \ {KeyOf(c)} : claims'[k] = claims[k]
         /\ \A k \in Keys : claims'[k].invocationId = NONE <=> claims'[k] = NoClaim
         /\ \A d \in Calls : claimed[d] => KeyOf(d) # KeyOf(c)
<1>1. claims[KeyOf(c)] = NoClaim /\ KeyOf(c) \in Keys
  BY Identities DEF claimOutcome
<1>2. \A d \in Calls : claimed[d] => claims[KeyOf(d)] # NoClaim
  BY Identities DEF Inv, ClaimIsMine, NoClaim
<1>3. AttemptOf(c) \in Attempts /\ AttemptOf(c) # NONE /\ TypeOK
  BY Identities DEF Inv
<1> DEFINE row == [invocationId |-> AttemptOf(c), state |-> "IN_PROGRESS"]
<1>4. claims' = [claims EXCEPT ![KeyOf(c)] = row]
  BY DEF NewClaim
<1>5. row \in [invocationId : Attempts \cup {NONE},
               state : GovernedInvocationClaimState \cup {NONE}]
  BY <1>3 DEF GovernedInvocationClaimState
<1>6. row.invocationId = AttemptOf(c) /\ row.state = "IN_PROGRESS"
  OBVIOUS
<1>7. row # NoClaim
  BY <1>3, <1>6 DEF NoClaim
<1> HIDE DEF row
<1>8. /\ claims' \in [Keys -> [invocationId : Attempts \cup {NONE},
                               state : GovernedInvocationClaimState \cup {NONE}]]
      /\ claims'[KeyOf(c)] = row /\ \A k \in Keys \ {KeyOf(c)} : claims'[k] = claims[k]
  BY <1>1, <1>3, <1>4, <1>5 DEF TypeOK
<1>9. \A k \in Keys : claims'[k].invocationId = NONE <=> claims'[k] = NoClaim
  BY <1>3, <1>6, <1>7, <1>8 DEF Inv
<1> QED
  BY <1>1, <1>2, <1>6, <1>8, <1>9

\* A claim, seen by its caller or lost to it.
LEMMA ClaimSteps ==
  ASSUME Inv, NEW c \in Calls, Claim(c) \/ ClaimFails(c)
  PROVE  Inv'
<1> USE DEF At, Result, BeforeClaim, BeforeStart, AfterResult, Closing, NONE
<1>1. TypeOK /\ Local(c) /\ pc[c] = "claim"
  BY DEF Inv, Claim, ClaimFails
<1>2. CASE claims' = claims
  <2>1. ClaimFails(c)
    BY <1>1, <1>2, NewClaimFacts, Identities DEF Claim, Inv, NoClaim, claimOutcome
  <2>2. TypeOK'
    BY <1>1, <1>2, <2>1 DEF ClaimFails, TypeOK, ResultStatus, VALID_FROM_RUNNING
  <2>3. Local(c)'
    BY <1>1, <2>1 DEF ClaimFails, Local, Started, TypeOK
  <2> QED
    BY <1>1, <1>2, <2>1, <2>2, <2>3, LocalStep DEF ClaimFails, TypeOK, Started
<1>3. CASE claims' # claims
  <2>1. claimOutcome(c) = "CLAIMED" /\ NewClaim(c)
    BY <1>3 DEF Claim, ClaimFails
  <2>2. /\ claims' \in [Keys -> [invocationId : Attempts \cup {NONE},
                                 state : GovernedInvocationClaimState \cup {NONE}]]
        /\ claims'[KeyOf(c)].invocationId = AttemptOf(c)
        /\ claims'[KeyOf(c)].state = "IN_PROGRESS"
        /\ \A k \in Keys \ {KeyOf(c)} : claims'[k] = claims[k]
        /\ \A k \in Keys : claims'[k].invocationId = NONE <=> claims'[k] = NoClaim
        /\ \A d \in Calls : claimed[d] => KeyOf(d) # KeyOf(c)
    BY <2>1, NewClaimFacts
  <2>3. TypeOK'
    <3>1. pc' \in [Calls -> {"idle", "checks", "claim", "execute", "race", "mark",
                             "persist", "close", "done", "threw", "dead"}]
      BY <1>1 DEF Claim, ClaimFails, TypeOK
    <3>2. claimed' \in [Calls -> BOOLEAN]
      BY <1>1 DEF Claim, ClaimFails, TypeOK
    <3>3. result' \in [Calls -> ResultStatus \cup {NONE}]
      BY <1>1 DEF Claim, ClaimFails, TypeOK, ResultStatus, VALID_FROM_RUNNING
    <3>4. UNCHANGED <<adapter, envelope, records, restarts>>
      BY DEF Claim, ClaimFails
    <3> QED
      BY <1>1, <2>2, <3>1, <3>2, <3>3, <3>4 DEF TypeOK
  <2>4. \A d \in Calls \ {c} :
          /\ pc'[d] = pc[d] /\ claimed'[d] = claimed[d] /\ result'[d] = result[d]
          /\ adapter'[d] = adapter[d] /\ envelope'[d] = envelope[d]
    BY <1>1 DEF Claim, ClaimFails, TypeOK
  <2>5. Local(c)'
    BY <1>1 DEF Claim, ClaimFails, Local, Started, TypeOK
  <2>6. \A d \in Calls : Local(d)'
    BY <2>4, <2>5 DEF Inv, Local, Started
  <2>7. \A d \in Calls : ClaimIsMine(d)'
    BY <2>2, <2>4, Identities DEF Inv, ClaimIsMine
  <2>8. \A d, e \in Calls : claimed'[d] /\ claimed'[e] /\ KeyOf(d) = KeyOf(e) => d = e
    BY <2>2, <2>4 DEF Inv
  <2>9. ASSUME NEW k \in Keys, claims'[k].state \notin {NONE, "IN_PROGRESS"}
        PROVE  \E d \in Calls : Settles(d, k)'
    <3>1. k # KeyOf(c) /\ claims'[k] = claims[k]
      BY <2>2, <2>9
    <3>2. PICK d \in Calls : Settles(d, k)
      BY <2>9, <3>1 DEF Inv
    <3>3. d # c
      BY <3>1, <3>2 DEF Settles
    <3>4. Settles(d, k)'
      BY <2>4, <3>1, <3>2, <3>3 DEF Settles, Started
    <3> QED
      BY <3>4
  <2>10. ASSUME NEW a \in Attempts, records'[a] = "SUCCEEDED"
         PROVE  \E d \in Calls : AttemptOf(d) = a /\ result'[d] = "SUCCEEDED" /\ pc'[d] \in Closing
    <3>1. records' = records
      BY DEF Claim, ClaimFails
    <3>2. PICK d \in Calls : AttemptOf(d) = a /\ result[d] = "SUCCEEDED" /\ pc[d] \in Closing
      BY <2>10, <3>1 DEF Inv
    <3>3. d # c
      BY <1>1, <3>2
    <3> QED
      BY <2>4, <3>2, <3>3
  <2> QED
    BY <2>2, <2>3, <2>6, <2>7, <2>8, <2>9, <2>10 DEF Inv
<1> QED
  BY <1>2, <1>3

\* markCompleted settles the claim of the call that waited for the execution.
LEMMA FinalizeStep ==
  ASSUME Inv, NEW c \in Calls, Finalize(c)
  PROVE  Inv'
<1> USE DEF At, BeforeClaim, BeforeStart, AfterResult, Closing, NONE
<1> DEFINE key == KeyOf(c)
           state == claimStateForResultStatus(result[c])
<1>1. TypeOK /\ Local(c) /\ pc[c] = "mark" /\ key \in Keys
  BY Identities DEF Inv, Finalize
<1>2. Local(c)'
  BY <1>1 DEF Finalize, Local, Started, TypeOK
<1>3. /\ state \in GovernedInvocationClaimState \ {"IN_PROGRESS"} /\ state # NONE
      /\ state = "COMPLETED" <=> result[c] = "SUCCEEDED"
  BY DEF claimStateForResultStatus, GovernedInvocationClaimState
<1> HIDE DEF key, state
<1>4. CASE claims' = claims
  <2>1. TypeOK'
    BY <1>1, <1>4 DEF Finalize, TypeOK
  <2> QED
    BY <1>1, <1>2, <1>4, <2>1, LocalStep DEF Finalize, TypeOK, Started
<1>5. CASE claims' # claims
  <2>1. /\ claimed[c] /\ claims[key].invocationId = AttemptOf(c)
        /\ claims' = [claims EXCEPT ![key].state = state]
    BY <1>1, <1>5, Identities DEF Finalize, CompletableClaim, key, state
  <2>2. /\ claims'[key].invocationId = AttemptOf(c) /\ claims'[key].state = state
        /\ \A k \in Keys \ {key} : claims'[k] = claims[k]
        /\ claims' \in [Keys -> [invocationId : Attempts \cup {NONE},
                                 state : GovernedInvocationClaimState \cup {NONE}]]
    BY <1>1, <1>3, <2>1 DEF TypeOK
  <2>3. TypeOK'
    BY <1>1, <2>2 DEF Finalize, TypeOK
  <2>4. /\ \A d \in Calls \ {c} : pc'[d] = pc[d]
        /\ pc'[c] = "persist" /\ UNCHANGED <<claimed, result, adapter, envelope, records>>
    BY <1>1 DEF Finalize, TypeOK
  <2>5. \A d \in Calls : Local(d)'
    BY <1>2, <2>4 DEF Inv, Local, Started
  <2>6. \A d \in Calls : ClaimIsMine(d)'
    BY <2>1, <2>2, <2>4, Identities DEF Inv, ClaimIsMine, key
  <2>7. \A k \in Keys : claims'[k].invocationId = NONE <=> claims'[k] = NoClaim
    <3>1. AttemptOf(c) # NONE
      BY Identities
    <3> QED
      BY <2>2, <3>1 DEF Inv, NoClaim
  <2>8. ASSUME NEW k \in Keys, claims'[k].state \notin {NONE, "IN_PROGRESS"}
        PROVE  \E d \in Calls : Settles(d, k)'
    <3>1. CASE k = key
      <4>1. Started(c) /\ result[c] # NONE
        BY <1>1, <2>1 DEF Local
      <4>2. Settles(c, k)'
        BY <1>3, <2>1, <2>2, <2>4, <3>1, <4>1 DEF Settles, Started, key
      <4> QED
        BY <4>2
    <3>2. CASE k # key
      <4>1. PICK d \in Calls : Settles(d, k)
        BY <2>2, <2>8, <3>2 DEF Inv
      <4>2. Settles(d, k)'
        BY <2>2, <2>4, <3>2, <4>1 DEF Settles, Started, key
      <4> QED
        BY <4>2
    <3> QED
      BY <3>1, <3>2
  <2>9. ASSUME NEW a \in Attempts, records'[a] = "SUCCEEDED"
        PROVE  \E d \in Calls : AttemptOf(d) = a /\ result'[d] = "SUCCEEDED" /\ pc'[d] \in Closing
    BY <2>4, <2>9 DEF Inv
  <2>10. \A d, e \in Calls : claimed'[d] /\ claimed'[e] /\ KeyOf(d) = KeyOf(e) => d = e
    BY <2>4 DEF Inv
  <2> QED
    BY <2>3, <2>5, <2>6, <2>7, <2>8, <2>9, <2>10 DEF Inv
<1> QED
  BY <1>4, <1>5

\* The evidence record of a call is its result.
LEMMA PersistStep ==
  ASSUME Inv, NEW c \in Calls, Persist(c)
  PROVE  Inv'
<1> USE DEF At, BeforeClaim, BeforeStart, AfterResult, Closing, NONE
<1>1. TypeOK /\ Local(c) /\ AttemptOf(c) \in Attempts
  BY Identities DEF Inv
<1>2. /\ \A d \in Calls \ {c} : pc'[d] = pc[d]
      /\ pc[c] = "persist" /\ pc'[c] = "close"
      /\ UNCHANGED <<claimed, result, adapter, claims, envelope, restarts>>
      /\ records' = [records EXCEPT ![AttemptOf(c)] = result[c]]
  BY <1>1 DEF Persist, TypeOK
<1>3. TypeOK'
  BY <1>1, <1>2 DEF Persist, TypeOK
<1>4. \A d \in Calls : Local(d)' /\ ClaimIsMine(d)'
  BY <1>2 DEF Inv, Local, Started, ClaimIsMine
<1>5. ASSUME NEW k \in Keys, claims'[k].state \notin {NONE, "IN_PROGRESS"}
      PROVE  \E d \in Calls : Settles(d, k)'
  <2>1. PICK d \in Calls : Settles(d, k)
    BY <1>2, <1>5 DEF Inv
  <2>2. Settles(d, k)'
    BY <1>2, <2>1 DEF Settles, Started
  <2> QED
    BY <2>2
<1>6. ASSUME NEW a \in Attempts, records'[a] = "SUCCEEDED"
      PROVE  \E d \in Calls : AttemptOf(d) = a /\ result'[d] = "SUCCEEDED" /\ pc'[d] \in Closing
  <2>1. CASE a = AttemptOf(c)
    BY <1>1, <1>2, <1>6, <2>1 DEF TypeOK
  <2>2. CASE a # AttemptOf(c)
    BY <1>1, <1>2, <1>6, <2>2 DEF Inv, TypeOK
  <2> QED
    BY <2>1, <2>2
<1> QED
  BY <1>2, <1>3, <1>4, <1>5, <1>6 DEF Inv

\* A crash loses the calls, not what they wrote.
LEMMA RestartStep ==
  ASSUME Inv, Restart
  PROVE  Inv'
<1> USE DEF BeforeClaim, BeforeStart, AfterResult, Closing, NONE
<1>1. /\ \A d \in Calls : pc'[d] = pc[d] \/ pc'[d] = "dead"
      /\ UNCHANGED <<claimed, result, adapter, claims, envelope, records>>
  BY DEF Restart
<1>2. TypeOK'
  BY RequestAssumption DEF Inv, TypeOK, Restart
<1>3. \A d \in Calls : Local(d)' /\ ClaimIsMine(d)'
  BY <1>1 DEF Inv, Local, Started, ClaimIsMine
<1>4. ASSUME NEW k \in Keys, claims'[k].state \notin {NONE, "IN_PROGRESS"}
      PROVE  \E d \in Calls : Settles(d, k)'
  <2>1. PICK d \in Calls : Settles(d, k)
    BY <1>1, <1>4 DEF Inv
  <2>2. Settles(d, k)'
    BY <1>1, <2>1 DEF Settles, Started
  <2> QED
    BY <2>2
<1>5. ASSUME NEW a \in Attempts, records'[a] = "SUCCEEDED"
      PROVE  \E d \in Calls : AttemptOf(d) = a /\ result'[d] = "SUCCEEDED" /\ pc'[d] \in Closing
  BY <1>1, <1>5 DEF Inv
<1> QED
  BY <1>1, <1>2, <1>3, <1>4, <1>5 DEF Inv

\* Every step preserves the invariant.
LEMMA NextInv ==
  ASSUME Inv, [Next]_vars
  PROVE  Inv'
<1>1. CASE Next
  BY <1>1, GateSteps, ExecutionSteps, ClosingSteps, ClaimSteps, FinalizeStep, PersistStep,
     RestartStep DEF Next, Step
<1>2. CASE UNCHANGED vars
  BY <1>2 DEF vars, Inv, TypeOK, ClaimIsMine, Local, Started, Settles
<1> QED
  BY <1>1, <1>2

-----------------------------------------------------------------------------
(* Results.                                                                *)

\* Inv holds in every reachable state.
THEOREM Invariance == Spec => []Inv
<1>1. Inv /\ [Next]_vars => Inv'
  BY NextInv
<1> QED
  BY InitInv, <1>1, PTL DEF Spec

\* Calls, results and rows keep their types; no adapter status leaks into a
\* result that an execution cannot end with.
THEOREM TypeCorrect == Spec => []TypeOK
<1>1. Inv => TypeOK
  BY DEF Inv
<1> QED
  BY Invariance, <1>1, PTL

\* Whatever the calls, retries, restarts and lost claims: of the calls that make
\* one consequential request at most one reaches its adapter.
THEOREM OneExecution == Spec => []AtMostOneExecution
<1>1. Inv => AtMostOneExecution
  BY SameRequestSameKey DEF Inv, AtMostOneExecution, Local, Consequential
<1> QED
  BY Invariance, <1>1, PTL

\* A settled claim was settled by the call that made it (markCompleted).
THEOREM ClaimsSettledByOwner == Spec => []SettledByOwner
<1>1. Inv => SettledByOwner
  BY DEF Inv, SettledByOwner, Settles, Local
<1> QED
  BY Invariance, <1>1, PTL

\* A recorded success rests on an execution that succeeded under its own claim.
THEOREM SuccessesEarned == Spec => []SuccessHasExecution
<1>1. Inv => SuccessHasExecution
  <2> SUFFICES ASSUME Inv PROVE SuccessHasExecution
    OBVIOUS
  <2>1. \A c \in Calls : result[c] = "SUCCEEDED" =>
          adapter[c] = "SUCCEEDED" /\ (Consequential(c) => claimed[c])
    BY DEF Inv, Local, Started, NONE
  <2>2. \A c \in Calls : envelope[c] = "COMPLETED" => result[c] = "SUCCEEDED"
    BY DEF Inv, Local
  <2>3. \A a \in Attempts : records[a] = "SUCCEEDED" =>
          \E c \in Calls : AttemptOf(c) = a /\ result[c] = "SUCCEEDED"
    BY DEF Inv
  <2> QED
    BY <2>1, <2>2, <2>3 DEF SuccessHasExecution
<1> QED
  BY Invariance, <1>1, PTL

\* What the claim table, the records and the envelopes say is what happened,
\* whatever write failed and whenever the process died.
THEOREM LedgersTrue == Spec => []LedgersTruthful
<1>1. SettledByOwner /\ SuccessHasExecution <=> LedgersTruthful
  BY DEF LedgersTruthful
<1> QED
  BY ClaimsSettledByOwner, SuccessesEarned, <1>1, PTL

-----------------------------------------------------------------------------
(* The refinement of SingleUse.                                            *)

Holder == [k \in ConsequentialKeys |-> claims[k].invocationId]
Fired == {KeyOf(c) : c \in {d \in Calls : Consequential(d) /\ Started(d)}}

\* A claim takes the token.
LEMMA ClaimTakes ==
  ASSUME Inv, NEW c \in Calls, pc[c] = "claim", claimOutcome(c) = "CLAIMED", NewClaim(c),
         adapter' = adapter
  PROVE  Claims!Next
<1>1. KeyOf(c) \in ConsequentialKeys /\ ConsequentialKeys \subseteq Keys
  BY DEF Inv, Local, ConsequentialKeys, Keys
<1>2. Holder[KeyOf(c)] = NONE
  BY <1>1 DEF Holder, claimOutcome, NoClaim
<1>3. Holder' = [Holder EXCEPT ![KeyOf(c)] = AttemptOf(c)]
  BY <1>1, NewClaimFacts DEF Holder
<1>4. AttemptOf(c) \in Attempts
  BY Identities
<1>5. Fired' = Fired
  BY DEF Fired, Started
<1>6. Claims!Take(KeyOf(c))
  BY <1>2, <1>3, <1>4, <1>5 DEF Claims!Take, Holder, Fired
<1> QED
  BY <1>1, <1>6 DEF Claims!Next

\* The execution of a consequential operation fires its token, for the first time.
LEMMA ExecutionFires ==
  ASSUME Inv, NEW c \in Calls, Execute(c), Consequential(c)
  PROVE  Claims!Next
<1> USE DEF BeforeStart, NONE
<1>1. pc[c] = "execute" /\ claimed[c] /\ TypeOK /\ KeyOf(c) \in ConsequentialKeys
  BY DEF Execute, At, Inv, Local, ConsequentialKeys
<1>2. Holder[KeyOf(c)] # NONE
  BY <1>1, Identities DEF Holder, Inv, ClaimIsMine
<1>3. KeyOf(c) \notin Fired
  <2> SUFFICES ASSUME NEW d \in Calls, Consequential(d), Started(d), KeyOf(d) = KeyOf(c)
               PROVE  FALSE
    BY DEF Fired
  <2>1. d = c
    BY <1>1 DEF Inv, Local
  <2> QED
    BY <1>1, <2>1 DEF Inv, Local
<1>4. \A d \in Calls : Started(d)' <=> Started(d) \/ d = c
  BY <1>1 DEF Execute, Started, TypeOK
<1>5. Fired' = Fired \cup {KeyOf(c)}
  BY <1>4 DEF Fired
<1>6. Holder' = Holder
  BY DEF Holder, Execute
<1>7. Claims!Fire(KeyOf(c))
  BY <1>2, <1>3, <1>5, <1>6 DEF Claims!Fire, Holder, Fired
<1> QED
  BY <1>1, <1>7 DEF Claims!Next

\* Every other step changes neither a holder nor what has been executed.
LEMMA StepSimulates ==
  ASSUME Inv, [Next]_vars
  PROVE  [Claims!Next]_Claims!vars
<1> USE DEF NONE
<1>1. CASE \E c \in Calls : Claim(c) \/ (ClaimFails(c) /\ claims' # claims)
  BY <1>1, ClaimTakes DEF Claim, ClaimFails, At
<1>2. CASE \E c \in Calls : Execute(c) /\ Consequential(c)
  BY <1>2, ExecutionFires
<1>3. ASSUME \A c \in Calls : /\ ~Claim(c) /\ ~(Execute(c) /\ Consequential(c))
                              /\ ~(ClaimFails(c) /\ claims' # claims)
      PROVE  Holder' = Holder /\ Fired' = Fired
  <2>1. \A k \in Keys : claims'[k].invocationId = claims[k].invocationId
    <3>1. CASE claims' = claims
      BY <3>1
    <3>2. CASE claims' # claims
      <4>1. PICK c \in Calls : Finalize(c)
        BY <1>3, <3>2 DEF Next, Step, vars, Begin, Refuse, Allow, ClaimBlocked, Execute,
           AdapterReturns, Timeout, AdapterEndsLate, Persist, Close, Throw, Restart
      <4>2. claims' = [claims EXCEPT ![KeyOf(c)].state = claimStateForResultStatus(result[c])]
        BY <3>2, <4>1 DEF Finalize
      <4> QED
        BY <4>2, Identities DEF Inv, TypeOK
    <3> QED
      BY <3>1, <3>2
  <2>2. \A d \in Calls : Consequential(d) => (Started(d)' <=> Started(d))
    <3>1. CASE adapter' = adapter
      BY <3>1 DEF Started
    <3>2. CASE adapter' # adapter
      <4>1. PICK c \in Calls : Execute(c) \/ AdapterReturns(c) \/ AdapterEndsLate(c)
        BY <1>3, <3>2 DEF Next, Step, vars, Begin, Refuse, Allow, Claim, ClaimBlocked,
           ClaimFails, Timeout, Finalize, Persist, Close, Throw, Restart
      <4>2. Execute(c) => ~Consequential(c)
        BY <1>3
      <4> QED
        BY <4>1, <4>2 DEF Execute, AdapterReturns, AdapterEndsLate, Started, Inv, TypeOK,
           AgentExecutionStatus
    <3> QED
      BY <3>1, <3>2
  <2>3. Holder' = Holder
    BY <2>1 DEF Holder, ConsequentialKeys, Keys
  <2>4. Fired' = Fired
    BY <2>2 DEF Fired
  <2> QED
    BY <2>3, <2>4
<1> QED
  BY <1>1, <1>2, <1>3 DEF Claims!vars, Holder, Fired

\* The claim table and the executions implement SingleUse, whatever the calls do.
THEOREM RefinesSingleUse == Spec => ImplementsSingleUse
<1>1. Init => Claims!Init
  <2> SUFFICES ASSUME Init PROVE Claims!Init
    OBVIOUS
  <2>1. ConsequentialKeys \subseteq Keys
    BY DEF ConsequentialKeys, Keys
  <2>2. Holder = [k \in ConsequentialKeys |-> NONE]
    BY <2>1 DEF Init, Holder, NoClaim
  <2>3. Fired = {}
    BY DEF Init, Fired, Started
  <2> QED
    BY <2>2, <2>3 DEF Claims!Init, Holder, Fired
<1>2. Inv /\ [Next]_vars => [Claims!Next]_Claims!vars
  BY StepSimulates
<1> QED
  BY Invariance, <1>1, <1>2, PTL DEF Spec, ImplementsSingleUse, Claims!Spec
=============================================================================
