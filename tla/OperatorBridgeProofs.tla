------------------------- MODULE OperatorBridgeProofs -------------------------
(***************************************************************************)
(* Proofs about OperatorBridge, for any keys, bodies, clients, outcomes    *)
(* and number of faults: a task is dispatched once, with the body of its   *)
(* row, the claim of a key is a single-use token, and the verdict of the   *)
(* harness is right.                                                       *)
(***************************************************************************)
EXTENDS OperatorBridge, TLAPS

\* What an outcome can store in a row.
Values ==
  {ABSENT} \cup (UNION {{o.files, o.patch, o.provider} : o \in Outcomes})
Statuses == Terminal \cup {"DISPATCHING", ABSENT}

Rows ==
  [id : Nat, owner : Clients \cup {ABSENT}, fp : Bodies \cup {ABSENT}, status : Statuses,
   payload : BOOLEAN, files : Values, patch : Values, provider : Values, cleaned : BOOLEAN]
Terminals ==
  [status : Terminal, files : Values, patch : Values, provider : Values, cleaned : BOOLEAN]

CallPc == {"idle", "find", "reread", "create", "dispatch", "persist", "done"}
Http == {0, 200, 409, 500}
Locals ==
  [pc : CallPc, key : RequestIds \cup {ABSENT}, body : Bodies \cup {ABSENT}, terminal : Terminals \cup {ABSENT},
   http : Http, id : Nat, status : Statuses]

HarnessPc == {"start", "posted", "get", "poll", "second", "replay", "replayed", "conflict",
              "conflicted", "end", "threw"}
Harnesses ==
  [pc : HarnessPc, key : RequestIds \cup {ABSENT}, taskId : Nat, result : Rows \cup {ABSENT},
   failed : BOOLEAN, late : BOOLEAN]

Types ==
  /\ task \in [RequestIds -> Rows]
  /\ call \in [Clients -> Locals]
  /\ h \in Harnesses
  /\ dispatched \in [RequestIds -> Seq(Bodies)]
  /\ created \in Nat
  /\ faults \in Nat

\* What a row tells: who created it, and of its dispatch.
RowInv(k) ==
  /\ task[k] # NoTask =>
       /\ task[k].id \in 1..created /\ task[k].owner \in Clients /\ task[k].fp \in Bodies
       /\ task[k].status # ABSENT
       /\ task[k].payload \/ task[k].patch = ABSENT
  /\ dispatched[k] = <<>> \/ (task[k] # NoTask /\ dispatched[k] = <<task[k].fp>>)
  /\ task[k].status \in Terminal => dispatched[k] # <<>>

\* A call that dispatches created the row of its key, which waits for it.
Owns(c) ==
  /\ task[call[c].key] # NoTask
  /\ task[call[c].key].owner = c
  /\ task[call[c].key].fp = call[c].body
  /\ task[call[c].key].status = "DISPATCHING"

CallInv(c) ==
  /\ call[c].pc # "idle" => call[c].key \in RequestIds /\ call[c].body \in Bodies
  /\ call[c].pc = "dispatch" => Owns(c) /\ dispatched[call[c].key] = <<>>
  /\ call[c].pc = "persist" =>
       Owns(c) /\ dispatched[call[c].key] # <<>> /\ call[c].terminal \in Terminals
  /\ call[c].pc = "done" /\ call[c].http = 200 =>
       /\ task[call[c].key] # NoTask /\ task[call[c].key].fp = call[c].body
       /\ call[c].id = task[call[c].key].id
  /\ call[c].pc = "done" /\ call[c].http = 409 =>
       task[call[c].key] # NoTask /\ task[call[c].key].fp # call[c].body
  /\ call[c].pc = "done" /\ call[c].http \in {0, 500} => faults > 0

\* The harness knows its task: after its first answer, and after its first read.
Known == {"get", "poll", "second", "replay", "replayed", "conflict", "conflicted"}
Judged == {"second", "replay", "replayed", "conflict", "conflicted"}
Waiting == {"posted", "replayed", "conflicted"}

\* The request of the harness that is under way.
Body == IF h.pc = "conflicted" THEN probe ELSE canonical

\* A failure that no fault and no deadline explains is that of the task.
Explained ==
  h.failed /\ faults = 0 /\ ~h.late =>
    task[h.key].status \in Terminal /\ ~assertTerminalResult(task[h.key])

HarnessInv ==
  /\ h.pc # "start" => h.key \in RequestIds
  /\ h.pc \in Waiting =>
       call[harness].pc # "idle" /\ call[harness].key = h.key /\ call[harness].body = Body
  /\ h.pc \in {"start", "posted", "get", "poll"} => ~h.failed
  /\ h.pc \in Known =>
       task[h.key] # NoTask /\ task[h.key].fp = canonical /\ task[h.key].id = h.taskId
  /\ h.pc \in Judged \cup {"end"} /\ ~h.failed =>
       /\ task[h.key] # NoTask /\ task[h.key].status \in Terminal
       /\ assertTerminalResult(task[h.key]) /\ h.result = task[h.key]
  /\ h.pc \in Judged => Explained
  /\ h.pc = "end" => (task[h.key] # NoTask /\ task[h.key].fp # canonical) \/ Explained

Inv ==
  /\ Types
  /\ \A k \in RequestIds : RowInv(k)
  /\ \A c \in Clients : CallInv(c)
  /\ HarnessInv

\* A row that exists stays, with its id, its owner and its request, and a terminal
\* one stays as it is.
Stays(k) ==
  task[k] # NoTask =>
    /\ task'[k] # NoTask
    /\ task'[k].id = task[k].id /\ task'[k].owner = task[k].owner /\ task'[k].fp = task[k].fp
    /\ task[k].status \in Terminal => task'[k] = task[k]

-----------------------------------------------------------------------------
(* What a step leaves alone keeps its part of the invariant.               *)

\* A row that does not exist has no status, and its values have their types.
LEMMA NoTaskFacts ==
  NoTask \in Rows /\ Idle \in Locals /\ NoTask.status \notin Terminal \cup {"DISPATCHING"}
<1>1. ABSENT \in Values /\ ABSENT \in Statuses
  BY DEF Values, Statuses
<1>2. NoTask \in Rows
  BY <1>1 DEF NoTask, Rows
<1>3. Idle \in Locals
  BY <1>1 DEF Idle, Locals, CallPc, Http
<1> QED
  BY <1>2, <1>3, BridgeAssumption DEF NoTask

LEMMA RowKept ==
  ASSUME Types, NEW k \in RequestIds, RowInv(k), task'[k] = task[k], dispatched'[k] = dispatched[k],
         created' \in Nat, created \leq created'
  PROVE  RowInv(k)'
<1>1. \A n : n \in 1..created => n \in 1..created'
  BY DEF Types
<1> QED
  BY <1>1 DEF RowInv

LEMMA CallKept ==
  ASSUME Types, NEW c \in Clients, CallInv(c), call'[c] = call[c], \A k \in RequestIds : Stays(k),
         faults' \in Nat, faults \leq faults',
         call[c].pc \in {"dispatch", "persist"} =>
           /\ task'[call[c].key] = task[call[c].key]
           /\ dispatched'[call[c].key] = dispatched[call[c].key]
  PROVE  CallInv(c)'
<1>1. faults > 0 => faults' > 0
  BY DEF Types
<1>2. call[c].pc # "idle" => call[c].key \in RequestIds /\ Stays(call[c].key)
  BY DEF CallInv
<1> QED
  BY <1>1, <1>2 DEF CallInv, Owns, Stays

\* While the harness does not move, nothing others do changes what it knows.
LEMMA HarnessKept ==
  ASSUME Types, HarnessInv, h' = h, \A k \in RequestIds : Stays(k), faults' \in Nat, faults \leq faults',
         call'[harness].key = call[harness].key, call'[harness].body = call[harness].body,
         call'[harness].pc = "idle" => call[harness].pc = "idle"
  PROVE  HarnessInv'
<1>1. faults' = 0 => faults = 0
  BY DEF Types
<1>2. h.pc # "start" => Stays(h.key)
  BY DEF HarnessInv
<1>3. NoTask.status \notin Terminal
  BY NoTaskFacts
<1>4. h.pc # "start" /\ Explained => Explained'
  BY <1>1, <1>2, <1>3 DEF Explained, Stays, assertTerminalResult
<1>5. h.pc \in Known \cup Judged \cup {"end"} => h.pc # "start"
  BY DEF Known, Judged
<1>6. Body' = Body
  BY DEF Body
<1>7. h.pc \in Judged => Explained'
  BY <1>4, <1>5 DEF HarnessInv
<1>8. h.pc = "end" => (task'[h.key] # NoTask /\ task'[h.key].fp # canonical) \/ Explained'
  BY <1>2, <1>4, <1>5 DEF HarnessInv, Stays
<1>9. h.pc \in Known =>
        task'[h.key] # NoTask /\ task'[h.key].fp = canonical /\ task'[h.key].id = h.taskId
  BY <1>2, <1>5 DEF HarnessInv, Stays
<1>10. h.pc \in Judged \cup {"end"} /\ ~h.failed =>
         /\ task'[h.key] # NoTask /\ task'[h.key].status \in Terminal
         /\ assertTerminalResult(task'[h.key]) /\ h.result = task'[h.key]
  BY <1>2, <1>5 DEF HarnessInv, Stays
<1> QED
  BY <1>6, <1>7, <1>8, <1>9, <1>10 DEF HarnessInv, Waiting

\* The fields of an answer.
LEMMA AnswerFacts ==
  ASSUME NEW c \in Clients, call[c] \in Locals, NEW http \in Http, NEW id \in Nat, NEW status \in Statuses
  PROVE  /\ Answer(c, http, id, status) \in Locals
         /\ Answer(c, http, id, status).pc = "done" /\ Answer(c, http, id, status).http = http
         /\ Answer(c, http, id, status).id = id
         /\ Answer(c, http, id, status).key = call[c].key
         /\ Answer(c, http, id, status).body = call[c].body
BY DEF Answer, Locals, CallPc

\* A step of a call that reads, or that fails, keeps the invariant when it keeps
\* that of the call.
LEMMA ReadingStep ==
  ASSUME Inv, NEW c \in Clients, NEW q \in Locals,
         call' = [call EXCEPT ![c] = q], q.key = call[c].key, q.body = call[c].body,
         q.pc # "idle", task' = task, h' = h, dispatched' = dispatched, created' = created,
         faults' \in Nat, faults \leq faults', CallInv(c)'
  PROVE  Inv'
<1>1. Types /\ HarnessInv
  BY DEF Inv
<1>2. call' \in [Clients -> Locals] /\ call'[c] = q /\ \A d \in Clients \ {c} : call'[d] = call[d]
  BY <1>1 DEF Types
<1>3. Types'
  BY <1>1, <1>2 DEF Types
<1>4. \A k \in RequestIds : Stays(k)
  BY DEF Stays
<1>5. \A k \in RequestIds : RowInv(k)'
  <2> TAKE k \in RequestIds
  <2>1. created \leq created' /\ created' \in Nat
    BY <1>1 DEF Types
  <2> QED
    BY <1>1, <2>1, RowKept DEF Inv
<1>6. \A d \in Clients : CallInv(d)'
  BY <1>1, <1>2, <1>4, CallKept DEF Inv
<1>7. harness \in Clients
  BY DEF Clients
<1>8. /\ call'[harness].key = call[harness].key /\ call'[harness].body = call[harness].body
      /\ call'[harness].pc = "idle" => call[harness].pc = "idle"
  BY <1>2, <1>7
<1>9. HarnessInv'
  BY <1>1, <1>4, <1>8, HarnessKept
<1> QED
  BY <1>3, <1>5, <1>6, <1>9 DEF Inv

-----------------------------------------------------------------------------
(* submitTask.                                                             *)

\* A call that answers a failure after a fault, which is all its invariant asks.
LEMMA FailingStep ==
  ASSUME Inv, NEW c \in Clients, call[c].pc # "idle",
         Set(c, Answer(c, 500, 0, ABSENT)), task' = task, h' = h, dispatched' = dispatched,
         created' = created, Fault
  PROVE  Inv'
<1>1. Types /\ CallInv(c) /\ call[c] \in Locals
  BY DEF Inv, Types
<1>2. faults' \in Nat /\ faults \leq faults' /\ faults' > 0
  BY <1>1 DEF Fault, Types
<1> DEFINE q == Answer(c, 500, 0, ABSENT)
<1>3. /\ q \in Locals /\ q.pc = "done" /\ q.http = 500 /\ q.key = call[c].key /\ q.body = call[c].body
  BY <1>1, AnswerFacts DEF Http, Statuses
<1>4. call' = [call EXCEPT ![c] = q]
  BY DEF Set
<1> HIDE DEF q
<1>5. call'[c] = q
  BY <1>1, <1>4 DEF Types
<1>6. CallInv(c)'
  BY <1>1, <1>2, <1>3, <1>5 DEF CallInv
<1> QED
  BY <1>2, <1>3, <1>4, <1>6, ReadingStep, ZenonT(30)

LEMMA FindStep ==
  ASSUME Inv, NEW c \in Clients, Find(c)
  PROVE  Inv'
<1> DEFINE row == task[call[c].key]
<1>1. Types /\ CallInv(c) /\ call[c] \in Locals /\ call[c].pc # "idle"
  BY DEF Inv, Types, Find
<1>2. call[c].key \in RequestIds /\ call[c].body \in Bodies /\ row \in Rows
  BY <1>1 DEF CallInv, Types
<1>3. task' = task /\ h' = h /\ dispatched' = dispatched /\ created' = created
  BY DEF Find
<1>4. CASE Fault /\ Set(c, Answer(c, 500, 0, ABSENT))
  BY <1>1, <1>3, <1>4, FailingStep
<1>5. CASE row # NoTask /\ Set(c, resolveExisting(c, row)) /\ faults' = faults
  <2>1. PICK q : q = resolveExisting(c, row)
    OBVIOUS
  <2>2. /\ q \in Locals /\ q.pc = "done" /\ q.key = call[c].key /\ q.body = call[c].body
        /\ \/ q.http = 409 /\ row.fp # call[c].body
           \/ q.http = 200 /\ row.fp = call[c].body /\ q.id = row.id
    <3>1. row.id \in Nat /\ row.status \in Statuses /\ 0 \in Nat /\ ABSENT \in Statuses
      BY <1>2 DEF Rows, Statuses
    <3>2. CASE row.fp # call[c].body
      BY <1>1, <2>1, <3>1, <3>2, AnswerFacts DEF resolveExisting, Http
    <3>3. CASE row.fp = call[c].body
      BY <1>1, <2>1, <3>1, <3>3, AnswerFacts DEF resolveExisting, Http
    <3> QED
      BY <3>2, <3>3
  <2>3. call' = [call EXCEPT ![c] = q] /\ call'[c] = q
    BY <1>1, <1>5, <2>1 DEF Set, Types
  <2>4. CallInv(c)'
    BY <1>2, <1>3, <1>5, <2>2, <2>3 DEF CallInv
  <2>5. faults' \in Nat /\ faults \leq faults'
    BY <1>1, <1>5 DEF Types
  <2> QED
    BY <1>3, <2>2, <2>3, <2>4, <2>5, ReadingStep
<1>6. CASE Set(c, [call[c] EXCEPT !.pc = "create"]) /\ faults' = faults
  <2>1. PICK q : q = [call[c] EXCEPT !.pc = "create"]
    OBVIOUS
  <2>2. q \in Locals /\ q.pc = "create" /\ q.key = call[c].key /\ q.body = call[c].body
    BY <1>1, <2>1 DEF Locals, CallPc
  <2>3. call' = [call EXCEPT ![c] = q] /\ call'[c] = q
    BY <1>1, <1>6, <2>1 DEF Set, Types
  <2>4. CallInv(c)'
    BY <1>2, <2>2, <2>3 DEF CallInv
  <2>5. faults' \in Nat /\ faults \leq faults'
    BY <1>1, <1>6 DEF Types
  <2> QED
    BY <1>3, <2>2, <2>3, <2>4, <2>5, ReadingStep
<1> QED
  BY <1>4, <1>5, <1>6 DEF Find

\* The insert: a row of a key that had none, which was never dispatched.
LEMMA InsertStep ==
  ASSUME Inv, NEW c \in Clients, call[c].pc = "create",
         task[call[c].key] = NoTask, created' = created + 1,
         task' = [task EXCEPT ![call[c].key] =
                    [NoTask EXCEPT !.id = created + 1, !.owner = c, !.fp = call[c].body,
                                   !.status = "DISPATCHING", !.payload = TRUE]],
         Set(c, [call[c] EXCEPT !.pc = "dispatch", !.id = created + 1]),
         faults' = faults, h' = h, dispatched' = dispatched
  PROVE  Inv'
<1>1. PICK k : k = call[c].key
  OBVIOUS
<1>2. Types /\ CallInv(c) /\ call[c] \in Locals /\ HarnessInv
  BY DEF Inv, Types
<1>3. k \in RequestIds /\ call[c].body \in Bodies /\ created \in Nat /\ created + 1 \in 1..(created + 1)
  BY <1>1, <1>2 DEF CallInv, Types
<1>4. PICK row : row = [NoTask EXCEPT !.id = created + 1, !.owner = c, !.fp = call[c].body,
                                      !.status = "DISPATCHING", !.payload = TRUE]
  OBVIOUS
<1>5. /\ row \in Rows /\ row.id = created + 1 /\ row.owner = c /\ row.fp = call[c].body
      /\ row.status = "DISPATCHING" /\ row.payload = TRUE
  <2>1. PICK n \in Nat : n = created + 1
    BY <1>3
  <2>2. row = [NoTask EXCEPT !.id = n, !.owner = c, !.fp = call[c].body,
                             !.status = "DISPATCHING", !.payload = TRUE]
    BY <1>4, <2>1
  <2>3. row \in Rows /\ row.id = n
    BY <1>3, <2>2, NoTaskFacts DEF Rows, Statuses
  <2> QED
    BY <2>1, <2>2, <2>3, NoTaskFacts DEF Rows
<1>6. row # NoTask /\ row.status \notin Terminal /\ row.status # ABSENT
  BY <1>5, NoTaskFacts, BridgeAssumption DEF Terminal
<1>7. PICK q : q = [call[c] EXCEPT !.pc = "dispatch", !.id = created + 1]
  OBVIOUS
<1>8. q \in Locals /\ q.pc = "dispatch" /\ q.key = k /\ q.body = call[c].body
  <2>1. PICK n \in Nat : n = created + 1
    BY <1>3
  <2>2. q = [call[c] EXCEPT !.pc = "dispatch", !.id = n]
    BY <1>7, <2>1
  <2> QED
    BY <1>1, <1>2, <2>2 DEF Locals, CallPc
<1>9. /\ call' = [call EXCEPT ![c] = q] /\ call'[c] = q /\ call' \in [Clients -> Locals]
      /\ \A d \in Clients \ {c} : call'[d] = call[d]
  BY <1>2, <1>7, <1>8 DEF Set, Types
<1>10. /\ task' \in [RequestIds -> Rows] /\ task'[k] = row
       /\ \A l \in RequestIds \ {k} : task'[l] = task[l]
  BY <1>1, <1>2, <1>3, <1>4, <1>5 DEF Types
<1>11. Types'
  BY <1>2, <1>3, <1>9, <1>10 DEF Types
<1>12. dispatched[k] = <<>>
  BY <1>1, <1>3 DEF Inv, RowInv
<1>13. \A l \in RequestIds : RowInv(l)'
  <2>1. RowInv(k)'
    BY <1>3, <1>5, <1>6, <1>10, <1>12 DEF RowInv
  <2>2. created' \in Nat /\ created \leq created'
    BY <1>3
  <2>3. \A l \in RequestIds \ {k} : RowInv(l)'
    BY <1>2, <1>10, <2>2, RowKept DEF Inv
  <2> QED
    BY <2>1, <2>3
<1>14. \A l \in RequestIds : Stays(l)
  BY <1>1, <1>10 DEF Stays
<1>15. faults' \in Nat /\ faults \leq faults'
  BY <1>2 DEF Types
<1>16. CallInv(c)'
  BY <1>3, <1>5, <1>6, <1>8, <1>9, <1>10, <1>12 DEF CallInv, Owns
<1>17. \A d \in Clients \ {c} : CallInv(d)'
  <2> TAKE d \in Clients \ {c}
  <2>1. CallInv(d) /\ call'[d] = call[d]
    BY <1>9 DEF Inv
  <2>2. call[d].pc \in {"dispatch", "persist"} =>
          /\ task'[call[d].key] = task[call[d].key]
          /\ dispatched'[call[d].key] = dispatched[call[d].key]
    BY <1>1, <1>10, <2>1 DEF CallInv, Owns
  <2> QED
    BY <1>2, <1>14, <1>15, <2>1, <2>2, CallKept
<1>18. HarnessInv'
  <2>1. harness \in Clients
    BY DEF Clients
  <2>2. /\ call'[harness].key = call[harness].key /\ call'[harness].body = call[harness].body
        /\ call'[harness].pc # "idle" \/ call[harness].pc = "idle"
    BY <1>1, <1>8, <1>9, <2>1
  <2> QED
    BY <1>2, <1>14, <1>15, <2>2, HarnessKept
<1> QED
  BY <1>11, <1>13, <1>16, <1>17, <1>18 DEF Inv

LEMMA CreateStep ==
  ASSUME Inv, NEW c \in Clients, Create(c)
  PROVE  Inv'
<1>1. Types /\ CallInv(c) /\ call[c] \in Locals /\ call[c].pc = "create"
  BY DEF Inv, Types, Create
<1>2. call[c].key \in RequestIds /\ call[c].body \in Bodies
  BY <1>1 DEF CallInv
<1>3. h' = h /\ dispatched' = dispatched
  BY DEF Create
<1>4. CASE Set(c, [call[c] EXCEPT !.pc = "reread"]) /\ UNCHANGED <<task, created, faults>>
  <2>1. PICK q : q = [call[c] EXCEPT !.pc = "reread"]
    OBVIOUS
  <2>2. q \in Locals /\ q.pc = "reread" /\ q.key = call[c].key /\ q.body = call[c].body
    BY <1>1, <2>1 DEF Locals, CallPc
  <2>3. call' = [call EXCEPT ![c] = q] /\ call'[c] = q
    BY <1>1, <1>4, <2>1 DEF Set, Types
  <2>4. CallInv(c)'
    BY <1>2, <2>2, <2>3 DEF CallInv
  <2>5. faults' \in Nat /\ faults \leq faults' /\ task' = task /\ created' = created
    BY <1>1, <1>4 DEF Types
  <2> QED
    BY <1>3, <2>2, <2>3, <2>4, <2>5, ReadingStep
<1>5. CASE /\ ~isOperatorRequestKeyConflict(call[c].key)
           /\ created' = created + 1
           /\ task' = [task EXCEPT ![call[c].key] =
                        [NoTask EXCEPT !.id = created + 1, !.owner = c, !.fp = call[c].body,
                                       !.status = "DISPATCHING", !.payload = TRUE]]
           /\ Set(c, [call[c] EXCEPT !.pc = "dispatch", !.id = created + 1])
           /\ UNCHANGED faults
  BY <1>1, <1>3, <1>5, InsertStep DEF isOperatorRequestKeyConflict
<1>6. CASE Fault /\ Set(c, Answer(c, 500, 0, ABSENT)) /\ UNCHANGED <<task, created>>
  BY <1>1, <1>3, <1>6, FailingStep
<1> QED
  BY <1>4, <1>5, <1>6 DEF Create

\* What a dispatch ends with is stored as a terminal result.
LEMMA TerminalTyped ==
  ASSUME NEW o \in Outcomes
  PROVE  terminalOf(o) \in Terminals
<1>1. o.files \in Values /\ o.patch \in Values /\ o.provider \in Values /\ o.cleaned \in BOOLEAN
  BY BridgeAssumption DEF Values
<1>2. PICK s : s = CASE o.execution = "SUCCEEDED" -> "COMPLETED"
                     [] o.execution = "POLICY_BLOCKED" -> "HUMAN_GATE"
                     [] OTHER -> "FAILED"
  OBVIOUS
<1>3. s \in Terminal
  BY <1>2 DEF Terminal
<1>4. terminalOf(o) = [status |-> s, files |-> o.files, patch |-> o.patch,
                       provider |-> o.provider, cleaned |-> o.cleaned]
  BY <1>2 DEF terminalOf
<1> QED
  BY <1>1, <1>3, <1>4 DEF Terminals

\* Of two calls that have created a row, each has its own.
LEMMA OtherKey ==
  ASSUME Inv, NEW c \in Clients, NEW d \in Clients \ {c}, Owns(c),
         call[d].pc \in {"dispatch", "persist"}
  PROVE  call[d].key \in RequestIds /\ call[d].key # call[c].key
<1>1. CallInv(d)
  BY DEF Inv
<1> QED
  BY <1>1 DEF CallInv, Owns

LEMMA DispatchStep ==
  ASSUME Inv, NEW c \in Clients, Dispatch(c)
  PROVE  Inv'
<1>1. PICK k : k = call[c].key
  OBVIOUS
<1>2. Types /\ CallInv(c) /\ call[c] \in Locals /\ HarnessInv /\ call[c].pc = "dispatch"
  BY DEF Inv, Types, Dispatch
<1>3. /\ k \in RequestIds /\ call[c].body \in Bodies /\ Owns(c) /\ dispatched[k] = <<>>
      /\ task[k] # NoTask /\ task[k].fp = call[c].body
  BY <1>1, <1>2 DEF CallInv, Owns
<1>4. PICK o \in Outcomes : Set(c, dispatchEnds(c, o))
  BY DEF Dispatch
<1>5. PICK t : t = terminalOf(o)
  OBVIOUS
<1>6. t \in Terminals
  BY <1>5, TerminalTyped
<1>7. PICK q : q = [call[c] EXCEPT !.pc = "persist", !.terminal = t]
  OBVIOUS
<1>8. q \in Locals /\ q.pc = "persist" /\ q.key = k /\ q.body = call[c].body /\ q.terminal = t
  BY <1>1, <1>2, <1>6, <1>7 DEF Locals, CallPc
<1>9. /\ call' = [call EXCEPT ![c] = q] /\ call'[c] = q /\ call' \in [Clients -> Locals]
      /\ \A d \in Clients \ {c} : call'[d] = call[d]
  BY <1>2, <1>4, <1>5, <1>7, <1>8 DEF Set, Types, dispatchEnds
<1>10. task' = task /\ h' = h /\ created' = created /\ faults' = faults
  BY DEF Dispatch
<1>11. dispatched' = [dispatched EXCEPT ![k] = Append(@, call[c].body)]
  BY <1>1 DEF Dispatch
<1>12. Append(dispatched[k], call[c].body) = <<call[c].body>>
  BY <1>3
<1>13. <<call[c].body>> \in Seq(Bodies) /\ <<call[c].body>> # <<>>
  BY <1>3
<1>14. /\ dispatched' \in [RequestIds -> Seq(Bodies)] /\ dispatched'[k] = <<call[c].body>>
       /\ \A l \in RequestIds \ {k} : dispatched'[l] = dispatched[l]
  BY <1>2, <1>3, <1>11, <1>12, <1>13 DEF Types
<1>15. Types'
  BY <1>2, <1>9, <1>10, <1>14 DEF Types
<1>16. \A l \in RequestIds : Stays(l)
  BY <1>10 DEF Stays
<1>17. \A l \in RequestIds : RowInv(l)'
  <2>1. RowInv(k)'
    BY <1>3, <1>10, <1>13, <1>14 DEF Inv, RowInv
  <2>2. created' \in Nat /\ created \leq created'
    BY <1>2, <1>10 DEF Types
  <2>3. \A l \in RequestIds \ {k} : RowInv(l)'
    BY <1>2, <1>10, <1>14, <2>2, RowKept DEF Inv
  <2> QED
    BY <2>1, <2>3
<1>18. CallInv(c)'
  BY <1>3, <1>1, <1>6, <1>8, <1>9, <1>10, <1>13, <1>14 DEF CallInv, Owns
<1>19. faults' \in Nat /\ faults \leq faults'
  BY <1>2, <1>10 DEF Types
<1>20. \A d \in Clients \ {c} : CallInv(d)'
  <2> TAKE d \in Clients \ {c}
  <2>1. call[d].pc \in {"dispatch", "persist"} =>
          /\ task'[call[d].key] = task[call[d].key]
          /\ dispatched'[call[d].key] = dispatched[call[d].key]
    BY <1>1, <1>3, <1>10, <1>14, OtherKey
  <2> QED
    BY <1>2, <1>9, <1>16, <1>19, <2>1, CallKept DEF Inv
<1>21. HarnessInv'
  <2>1. harness \in Clients
    BY DEF Clients
  <2>2. /\ call'[harness].key = call[harness].key /\ call'[harness].body = call[harness].body
        /\ call'[harness].pc # "idle" \/ call[harness].pc = "idle"
    BY <1>1, <1>8, <1>9, <2>1
  <2> QED
    BY <1>2, <1>10, <1>16, <1>19, <2>2, HarnessKept
<1> QED
  BY <1>15, <1>17, <1>18, <1>20, <1>21 DEF Inv

\* The terminal update: the row of its owner, which is still DISPATCHING.
LEMMA PersistStep ==
  ASSUME Inv, NEW c \in Clients, persistTerminalResult(c)
  PROVE  Inv'
<1>1. PICK k : k = call[c].key
  OBVIOUS
<1>2. Types /\ CallInv(c) /\ call[c] \in Locals /\ HarnessInv /\ call[c].pc = "persist"
  BY DEF Inv, Types, persistTerminalResult
<1>3. /\ k \in RequestIds /\ call[c].body \in Bodies /\ Owns(c) /\ dispatched[k] # <<>>
      /\ task[k] # NoTask /\ task[k].fp = call[c].body /\ task[k].status = "DISPATCHING"
      /\ call[c].terminal \in Terminals
  BY <1>1, <1>2 DEF CallInv, Owns
<1>4. h' = h /\ dispatched' = dispatched /\ created' = created
  BY DEF persistTerminalResult
<1>5. CASE Fault /\ Set(c, Answer(c, 500, 0, ABSENT)) /\ UNCHANGED task
  BY <1>2, <1>4, <1>5, FailingStep
<1>6. CASE /\ task' = [task EXCEPT ![k] = terminalRow(k, call[c].terminal)]
           /\ Set(c, Answer(c, 200, task[k].id, call[c].terminal.status))
           /\ UNCHANGED faults
  <2>1. PICK row : row = terminalRow(k, call[c].terminal)
    OBVIOUS
  <2>2. task[k] \in Rows /\ ABSENT \in Values
    BY <1>2, <1>3 DEF Types, Values
  <2>3. /\ row \in Rows /\ row.id = task[k].id /\ row.owner = task[k].owner /\ row.fp = task[k].fp
        /\ row.status = call[c].terminal.status /\ (row.payload \/ row.patch = ABSENT)
    <3>1. PICK t \in Terminals : t = call[c].terminal
      BY <1>3
    <3>2. PICK p \in BOOLEAN : p = (task[k].payload /\ k \notin expired)
      BY <2>2 DEF Rows
    <3>3. PICK w \in Values : w = IF p THEN t.patch ELSE ABSENT
      BY <2>2 DEF Terminals
    <3>4. row = [task[k] EXCEPT !.status = t.status, !.files = t.files, !.provider = t.provider,
                                !.cleaned = t.cleaned, !.payload = p, !.patch = w]
      BY <2>1, <3>1, <3>2, <3>3 DEF terminalRow
    <3> QED
      BY <2>2, <3>1, <3>3, <3>4, ZenonT(30) DEF Rows, Terminals, Statuses
  <2>4. row.status \in Terminal /\ row.status # ABSENT /\ row # NoTask
    BY <1>3, <2>3, NoTaskFacts, BridgeAssumption DEF Terminals
  <2>5. PICK q : q = Answer(c, 200, task[k].id, call[c].terminal.status)
    OBVIOUS
  <2>6. /\ q \in Locals /\ q.pc = "done" /\ q.http = 200 /\ q.id = task[k].id /\ q.key = k
        /\ q.body = call[c].body
    <3>1. task[k].id \in Nat /\ call[c].terminal.status \in Statuses
      BY <1>3, <2>2 DEF Rows, Terminals, Statuses
    <3> QED
      BY <1>1, <1>2, <2>5, <3>1, AnswerFacts DEF Http
  <2>7. /\ call' = [call EXCEPT ![c] = q] /\ call'[c] = q /\ call' \in [Clients -> Locals]
        /\ \A d \in Clients \ {c} : call'[d] = call[d]
    BY <1>2, <1>6, <2>5, <2>6 DEF Set, Types
  <2>8. /\ task' \in [RequestIds -> Rows] /\ task'[k] = row
        /\ \A l \in RequestIds \ {k} : task'[l] = task[l]
    BY <1>2, <1>3, <1>6, <2>1, <2>3 DEF Types
  <2>9. Types'
    BY <1>2, <1>4, <1>6, <2>7, <2>8 DEF Types
  <2>10. task[k].status \notin Terminal
    BY <1>3 DEF Terminal
  <2>11. \A l \in RequestIds : Stays(l)
    BY <2>3, <2>4, <2>8, <2>10 DEF Stays
  <2>12. \A l \in RequestIds : RowInv(l)'
    <3>1. RowInv(k)'
      BY <1>3, <1>4, <2>3, <2>4, <2>8 DEF Inv, RowInv
    <3>2. created' \in Nat /\ created \leq created'
      BY <1>2, <1>4 DEF Types
    <3>3. \A l \in RequestIds \ {k} : RowInv(l)'
      BY <1>2, <1>4, <2>8, <3>2, RowKept DEF Inv
    <3> QED
      BY <3>1, <3>3
  <2>13. CallInv(c)'
    BY <1>3, <2>3, <2>4, <2>6, <2>7, <2>8 DEF CallInv
  <2>14. faults' \in Nat /\ faults \leq faults'
    BY <1>2, <1>6 DEF Types
  <2>15. \A d \in Clients \ {c} : CallInv(d)'
    <3> TAKE d \in Clients \ {c}
    <3>1. call[d].pc \in {"dispatch", "persist"} =>
            /\ task'[call[d].key] = task[call[d].key]
            /\ dispatched'[call[d].key] = dispatched[call[d].key]
      BY <1>1, <1>3, <1>4, <2>8, OtherKey
    <3> QED
      BY <1>2, <2>7, <2>11, <2>14, <3>1, CallKept DEF Inv
  <2>16. HarnessInv'
    <3>1. harness \in Clients
      BY DEF Clients
    <3>2. /\ call'[harness].key = call[harness].key /\ call'[harness].body = call[harness].body
          /\ call'[harness].pc # "idle" \/ call[harness].pc = "idle"
      BY <1>1, <2>6, <2>7, <3>1
    <3> QED
      BY <1>2, <1>4, <2>11, <2>14, <3>2, HarnessKept
  <2> QED
    BY <2>9, <2>12, <2>13, <2>15, <2>16 DEF Inv
<1> QED
  BY <1>1, <1>3, <1>5, <1>6 DEF persistTerminalResult, stillDispatching

\* A client posts a request: nothing but its call changes.
LEMMA SubmitStep ==
  ASSUME Inv, NEW c \in Others, NEW k \in RequestIds, NEW b \in Bodies, Submit(c, k, b)
  PROVE  Inv'
<1>1. Types /\ HarnessInv /\ c \in Clients /\ call[c].pc = "idle"
  BY DEF Inv, Submit, Clients
<1>2. PICK q : q = Posted(k, b)
  OBVIOUS
<1>3. q \in Locals /\ q.pc = "find" /\ q.key = k /\ q.body = b
  BY <1>2, NoTaskFacts DEF Posted, Locals, CallPc
<1>4. /\ call' \in [Clients -> Locals] /\ call'[c] = q
      /\ \A d \in Clients \ {c} : call'[d] = call[d]
  BY <1>1, <1>2, <1>3 DEF Submit, Set, Types
<1>5. /\ task' = task /\ h' = h /\ dispatched' = dispatched /\ created' = created
      /\ faults' = faults
  BY DEF Submit
<1>6. Types'
  BY <1>1, <1>4, <1>5 DEF Types
<1>7. \A l \in RequestIds : Stays(l)
  BY <1>5 DEF Stays
<1>8. /\ faults' \in Nat /\ faults \leq faults' /\ created' \in Nat /\ created \leq created'
  BY <1>1, <1>5 DEF Types
<1>9. \A l \in RequestIds : RowInv(l)'
  BY <1>1, <1>5, <1>8, RowKept DEF Inv
<1>10. CallInv(c)'
  BY <1>3, <1>4 DEF CallInv
<1>11. \A d \in Clients \ {c} : CallInv(d)'
  BY <1>1, <1>4, <1>5, <1>7, <1>8, CallKept DEF Inv
<1>12. HarnessInv'
  <2>1. CASE c = harness
    <3>1. h.pc \notin Waiting
      BY <1>1, <2>1 DEF HarnessInv
    <3>2. Explained' = Explained
      BY <1>5 DEF Explained, assertTerminalResult
    <3> QED
      BY <1>1, <1>5, <3>1, <3>2 DEF HarnessInv, assertTerminalResult
  <2>2. CASE c # harness
    <3>1. call'[harness] = call[harness]
      BY <1>4, <2>2 DEF Clients
    <3> QED
      BY <1>1, <1>5, <1>7, <1>8, <3>1, HarnessKept
  <2> QED
    BY <2>1, <2>2
<1> QED
  BY <1>6, <1>9, <1>10, <1>11, <1>12 DEF Inv

\* The death of the process: every call that is served ends without an answer.
LEMMA CrashStep ==
  ASSUME Inv, Crash
  PROVE  Inv'
<1>1. Types /\ HarnessInv
  BY DEF Inv
<1>2. /\ task' = task /\ h' = h /\ dispatched' = dispatched /\ created' = created
  BY DEF Crash
<1>3. /\ faults' \in Nat /\ faults \leq faults' /\ faults' > 0
      /\ created' \in Nat /\ created \leq created'
  BY <1>1, <1>2 DEF Crash, Fault, Types
<1>4. call' = [c \in Clients |-> IF call[c].pc \in {"idle", "done"} THEN call[c]
                                 ELSE Answer(c, 0, 0, ABSENT)]
  BY DEF Crash
<1>5. ASSUME NEW c \in Clients
      PROVE  /\ call'[c] \in Locals
             /\ call'[c].key = call[c].key /\ call'[c].body = call[c].body
             /\ \/ call'[c] = call[c] /\ call[c].pc \in {"idle", "done"}
                \/ call'[c].pc = "done" /\ call'[c].http = 0 /\ call[c].pc # "idle"
  <2>1. call[c] \in Locals
    BY <1>1 DEF Types
  <2>2. CASE call[c].pc \in {"idle", "done"}
    BY <1>4, <2>1, <2>2
  <2>3. CASE call[c].pc \notin {"idle", "done"}
    <3>1. call'[c] = Answer(c, 0, 0, ABSENT)
      BY <1>4, <2>3
    <3> QED
      BY <2>1, <2>3, <3>1, AnswerFacts DEF Http, Statuses
  <2> QED
    BY <2>2, <2>3
<1>6. call' \in [Clients -> Locals]
  BY <1>4, <1>5
<1>7. Types'
  BY <1>1, <1>2, <1>3, <1>6 DEF Types
<1>8. \A l \in RequestIds : Stays(l)
  BY <1>2 DEF Stays
<1>9. \A l \in RequestIds : RowInv(l)'
  BY <1>1, <1>2, <1>3, RowKept DEF Inv
<1>10. \A c \in Clients : CallInv(c)'
  <2> TAKE c \in Clients
  <2>1. CASE call'[c] = call[c] /\ call[c].pc \in {"idle", "done"}
    BY <1>1, <1>3, <1>8, <2>1, CallKept DEF Inv
  <2>2. CASE call'[c].pc = "done" /\ call'[c].http = 0 /\ call[c].pc # "idle"
    <3>1. call[c].key \in RequestIds /\ call[c].body \in Bodies
      BY <2>2 DEF Inv, CallInv
    <3> QED
      BY <1>3, <1>5, <2>2, <3>1 DEF CallInv
  <2> QED
    BY <1>5, <2>1, <2>2
<1>11. HarnessInv'
  <2>1. harness \in Clients
    BY DEF Clients
  <2> QED
    BY <1>1, <1>2, <1>3, <1>5, <1>8, <2>1, HarnessKept
<1> QED
  BY <1>7, <1>9, <1>10, <1>11 DEF Inv

LEMMA PayloadExpiresStep ==
  ASSUME Inv, NEW k \in RequestIds, PayloadExpires(k)
  PROVE  Inv'
BY DEF PayloadExpires, Inv, Types, RowInv, CallInv, Owns, HarnessInv, Explained, Body,
       assertTerminalResult

-----------------------------------------------------------------------------
(* The harness.                                                            *)

\* A step of the harness alone keeps the invariant when it keeps that of the harness.
LEMMA HarnessMoves ==
  ASSUME Inv, h' \in Harnesses, Keeping, call' = call, faults' \in Nat, faults \leq faults',
         HarnessInv'
  PROVE  Inv'
<1>1. Types /\ task' = task /\ dispatched' = dispatched /\ created' = created
  BY DEF Inv, Keeping
<1>2. created' \in Nat /\ created \leq created'
  BY <1>1 DEF Types
<1>3. Types'
  BY <1>1 DEF Types
<1>4. \A k \in RequestIds : Stays(k)
  BY <1>1 DEF Stays
<1>5. \A k \in RequestIds : RowInv(k)'
  BY <1>1, <1>2, RowKept DEF Inv
<1>6. \A c \in Clients : CallInv(c)'
  BY <1>1, <1>4, CallKept DEF Inv
<1> QED
  BY <1>3, <1>5, <1>6 DEF Inv

LEMMA HarnessPostsStep ==
  ASSUME Inv, HarnessPosts
  PROVE  Inv'
<1>1. Types /\ HarnessInv /\ h \in Harnesses /\ harness \in Clients
  BY DEF Inv, Types, Clients
<1>2. PICK b \in Bodies : b = IF h.pc = "conflict" THEN probe ELSE canonical
  BY BridgeAssumption
<1>3. PICK p : p = CASE h.pc = "start" -> "posted" [] h.pc = "replay" -> "replayed"
                     [] OTHER -> "conflicted"
  OBVIOUS
<1>4. PICK k \in RequestIds : /\ h.pc = "start" \/ k = h.key
                              /\ Set(harness, Posted(k, b))
                              /\ h' = [h EXCEPT !.pc = p, !.key = k]
  BY <1>2, <1>3 DEF HarnessPosts, SetH
<1>5. /\ h.pc \in {"start", "replay", "conflict"}
      /\ task' = task /\ dispatched' = dispatched /\ created' = created /\ faults' = faults
  BY DEF HarnessPosts, Keeping
<1>6. \/ h.pc = "start" /\ p = "posted" /\ b = canonical
      \/ h.pc = "replay" /\ p = "replayed" /\ b = canonical
      \/ h.pc = "conflict" /\ p = "conflicted" /\ b = probe
  BY <1>2, <1>3, <1>5
<1>7. /\ h' \in Harnesses /\ h'.pc = p /\ h'.key = k /\ h'.taskId = h.taskId
      /\ h'.result = h.result /\ h'.failed = h.failed /\ h'.late = h.late
  <2>1. p \in HarnessPc
    BY <1>6 DEF HarnessPc
  <2> QED
    BY <1>1, <1>4, <2>1 DEF Harnesses
<1>8. PICK q : q = Posted(k, b)
  OBVIOUS
<1>9. q \in Locals /\ q.pc = "find" /\ q.key = k /\ q.body = b
  BY <1>8, NoTaskFacts DEF Posted, Locals, CallPc
<1>10. /\ call' \in [Clients -> Locals] /\ call'[harness] = q
       /\ \A d \in Clients \ {harness} : call'[d] = call[d]
  BY <1>1, <1>4, <1>8, <1>9 DEF Set, Types
<1>11. Types'
  BY <1>1, <1>5, <1>7, <1>10 DEF Types
<1>12. \A l \in RequestIds : Stays(l)
  BY <1>5 DEF Stays
<1>13. /\ faults' \in Nat /\ faults \leq faults' /\ created' \in Nat /\ created \leq created'
  BY <1>1, <1>5 DEF Types
<1>14. \A l \in RequestIds : RowInv(l)'
  BY <1>1, <1>5, <1>13, RowKept DEF Inv
<1>15. CallInv(harness)'
  BY <1>9, <1>10 DEF CallInv
<1>16. \A d \in Clients \ {harness} : CallInv(d)'
  BY <1>1, <1>5, <1>10, <1>12, <1>13, CallKept DEF Inv
<1>17. HarnessInv'
  <2>1. Body' = b
    BY <1>6, <1>7 DEF Body
  <2>2. CASE h.pc = "start"
    <3>1. ~h.failed /\ p = "posted"
      BY <1>1, <1>6, <2>2 DEF HarnessInv
    <3> QED
      BY <1>7, <1>9, <1>10, <2>1, <3>1 DEF HarnessInv, Known, Judged, Waiting
  <2>3. CASE h.pc # "start"
    <3>1. k = h.key /\ h.pc \in Judged /\ h.pc \in Known /\ p \in {"replayed", "conflicted"}
      BY <1>4, <1>6, <2>3 DEF Judged, Known
    <3>2. Explained'
      BY <1>1, <1>5, <1>7, <3>1 DEF HarnessInv, Explained, assertTerminalResult
    <3>3. /\ task'[k] # NoTask /\ task'[k].fp = canonical /\ task'[k].id = h'.taskId
          /\ ~h'.failed => /\ task'[k].status \in Terminal /\ assertTerminalResult(task'[k])
                           /\ h'.result = task'[k]
      BY <1>1, <1>5, <1>7, <3>1 DEF HarnessInv
    <3> QED
      BY <1>7, <1>9, <1>10, <2>1, <3>1, <3>2, <3>3 DEF HarnessInv
  <2> QED
    BY <2>2, <2>3
<1> QED
  BY <1>11, <1>14, <1>15, <1>16, <1>17 DEF Inv

LEMMA TransportErrorStep ==
  ASSUME Inv, TransportError
  PROVE  Inv'
<1>1. Types /\ HarnessInv /\ h \in Harnesses /\ h.pc # "start"
  BY DEF Inv, Types, TransportError
<1>2. /\ h' \in Harnesses /\ h'.pc = "threw" /\ h'.key = h.key
  BY <1>1 DEF TransportError, SetH, Harnesses, HarnessPc
<1>3. faults' \in Nat /\ faults \leq faults'
  BY <1>1 DEF TransportError, Fault, Types
<1>4. HarnessInv'
  BY <1>1, <1>2 DEF HarnessInv, Known, Judged, Waiting
<1> QED
  BY <1>2, <1>3, <1>4, HarnessMoves DEF TransportError

\* The first answer: the harness learns its task, or ends with the reason.
LEMMA HarnessPostedStep ==
  ASSUME Inv, HarnessPosted
  PROVE  Inv'
<1>1. PICK c : c = call[harness]
  OBVIOUS
<1>2. /\ Types /\ HarnessInv /\ h \in Harnesses /\ harness \in Clients /\ CallInv(harness)
      /\ h.pc = "posted" /\ c.pc = "done" /\ c.http # 0
  BY <1>1 DEF Inv, Types, Clients, HarnessPosted
<1>3. /\ h.key \in RequestIds /\ c.key = h.key /\ c.body = canonical /\ ~h.failed
  BY <1>1, <1>2 DEF HarnessInv, Waiting, Body
<1>4. c \in Locals
  BY <1>1, <1>2 DEF Types
<1>5. /\ task' = task /\ call' = call /\ faults' = faults /\ Keeping
  BY DEF HarnessPosted, Keeping
<1>6. faults' \in Nat /\ faults \leq faults'
  BY <1>2, <1>5 DEF Types
<1>7. CASE c.http # 200
  <2>1. h' = [h EXCEPT !.pc = "end", !.failed = TRUE]
    BY <1>1, <1>7 DEF HarnessPosted, SetH
  <2>2. /\ h' \in Harnesses /\ h'.pc = "end" /\ h'.failed = TRUE /\ h'.key = h.key
    BY <1>2, <2>1 DEF Harnesses, HarnessPc
  <2>3. \/ task[h.key] # NoTask /\ task[h.key].fp # canonical
        \/ faults > 0
    BY <1>1, <1>2, <1>3, <1>4, <1>7 DEF CallInv, Locals, Http
  <2>4. faults > 0 => faults' # 0
    BY <1>2, <1>5 DEF Types
  <2>5. (task'[h'.key] # NoTask /\ task'[h'.key].fp # canonical) \/ Explained'
    BY <1>5, <2>2, <2>3, <2>4 DEF Explained
  <2>6. HarnessInv'
    BY <1>3, <2>2, <2>5 DEF HarnessInv, Known, Judged, Waiting
  <2> QED
    BY <1>5, <1>6, <2>2, <2>6, HarnessMoves
<1>8. CASE c.http = 200
  <2>1. PICK p \in {"get", "poll"} : h' = [h EXCEPT !.taskId = c.id, !.pc = p]
    BY <1>1, <1>8 DEF HarnessPosted, SetH
  <2>2. /\ h' \in Harnesses /\ h'.pc = p /\ h'.failed = h.failed /\ h'.key = h.key
        /\ h'.taskId = c.id
    BY <1>2, <1>4, <2>1 DEF Harnesses, HarnessPc, Locals
  <2>3. task[h.key] # NoTask /\ task[h.key].fp = canonical /\ c.id = task[h.key].id
    BY <1>1, <1>2, <1>3, <1>8 DEF CallInv
  <2>4. HarnessInv'
    BY <1>3, <1>5, <2>2, <2>3 DEF HarnessInv, Known, Judged, Waiting
  <2> QED
    BY <1>5, <1>6, <2>2, <2>4, HarnessMoves
<1> QED
  BY <1>7, <1>8

\* The poll: the terminal result is judged, or the deadline or a fault ends it.
LEMMA GetFirstStep ==
  ASSUME Inv, GetFirst
  PROVE  Inv'
<1>1. PICK r : r = task[h.key]
  OBVIOUS
<1>2. /\ Types /\ HarnessInv /\ h \in Harnesses /\ h.pc \in {"get", "poll"}
  BY DEF Inv, Types, GetFirst
<1>3. /\ h.key \in RequestIds /\ ~h.failed /\ r # NoTask /\ r.fp = canonical /\ r.id = h.taskId
      /\ r \in Rows
  BY <1>1, <1>2 DEF HarnessInv, Known, Types
<1>4. /\ task' = task /\ call' = call /\ Keeping
  BY DEF GetFirst, Keeping
<1>5. CASE r.status \in Terminal /\ faults' = faults
           /\ h' = [h EXCEPT !.pc = "second", !.result = r, !.failed = @ \/ ~assertTerminalResult(r)]
  <2>1. PICK f \in BOOLEAN : f = ~assertTerminalResult(r)
    BY DEF assertTerminalResult
  <2>2. h' = [h EXCEPT !.pc = "second", !.result = r, !.failed = f]
    BY <1>2, <1>3, <1>5, <2>1 DEF Harnesses
  <2>3. /\ h' \in Harnesses /\ h'.pc = "second" /\ h'.failed = f /\ h'.key = h.key
        /\ h'.taskId = h.taskId /\ h'.result = r
    BY <1>2, <1>3, <2>2 DEF Harnesses, HarnessPc
  <2>4. Explained'
    BY <1>1, <1>4, <1>5, <2>1, <2>3 DEF Explained, assertTerminalResult
  <2>5. HarnessInv'
    BY <1>1, <1>3, <1>4, <1>5, <2>1, <2>3, <2>4 DEF HarnessInv, Known, Judged, Waiting
  <2>6. faults' \in Nat /\ faults \leq faults'
    BY <1>2, <1>5 DEF Types
  <2> QED
    BY <1>4, <2>3, <2>5, <2>6, HarnessMoves
<1>6. CASE faults' = faults /\ h' = [h EXCEPT !.pc = "second", !.failed = TRUE, !.late = TRUE]
  <2>1. /\ h' \in Harnesses /\ h'.pc = "second" /\ h'.failed = TRUE /\ h'.key = h.key
        /\ h'.taskId = h.taskId /\ h'.late = TRUE
    BY <1>2, <1>6 DEF Harnesses, HarnessPc
  <2>2. Explained'
    BY <2>1 DEF Explained
  <2>3. HarnessInv'
    BY <1>1, <1>3, <1>4, <2>1, <2>2 DEF HarnessInv, Known, Judged, Waiting
  <2>4. faults' \in Nat /\ faults \leq faults'
    BY <1>2, <1>6 DEF Types
  <2> QED
    BY <1>4, <2>1, <2>3, <2>4, HarnessMoves
<1>7. CASE Fault /\ h' = [h EXCEPT !.pc = "second", !.failed = TRUE]
  <2>1. /\ h' \in Harnesses /\ h'.pc = "second" /\ h'.failed = TRUE /\ h'.key = h.key
        /\ h'.taskId = h.taskId
    BY <1>2, <1>7 DEF Harnesses, HarnessPc
  <2>2. faults' \in Nat /\ faults \leq faults' /\ faults' # 0
    BY <1>2, <1>7 DEF Types, Fault
  <2>3. Explained'
    BY <2>2 DEF Explained
  <2>4. HarnessInv'
    BY <1>1, <1>3, <1>4, <2>1, <2>3 DEF HarnessInv, Known, Judged, Waiting
  <2> QED
    BY <1>4, <2>1, <2>2, <2>4, HarnessMoves
<1> QED
  BY <1>1, <1>5, <1>6, <1>7 DEF GetFirst, SetH

\* The step after a judgement: it fails for a fault, or keeps the judgement.
LEMMA JudgedStep ==
  ASSUME Inv, NEW p \in Judged \cup {"end"}, NEW f \in BOOLEAN, p \notin Waiting,
         h.pc \in Judged, h' = [h EXCEPT !.pc = p, !.failed = f], Keeping, call' = call,
         faults' \in Nat, faults \leq faults',
         h.failed => f, f => h.failed \/ faults' # 0
  PROVE  Inv'
<1>1. Types /\ HarnessInv /\ h \in Harnesses /\ h.pc # "start" /\ task' = task
  BY DEF Inv, Types, Judged, Keeping
<1>2. /\ h' \in Harnesses /\ h'.pc = p /\ h'.failed = f /\ h'.key = h.key
      /\ h'.taskId = h.taskId /\ h'.late = h.late /\ h'.result = h.result
  BY <1>1 DEF Harnesses, HarnessPc, Judged
<1>3. faults' = 0 => faults = 0
  BY <1>1 DEF Types
<1>4. Explained /\ h.key \in RequestIds
  BY <1>1 DEF HarnessInv
<1>5. Explained'
  BY <1>1, <1>2, <1>3, <1>4 DEF Explained, assertTerminalResult
<1>6. /\ task[h.key] # NoTask /\ task[h.key].fp = canonical /\ task[h.key].id = h.taskId
      /\ ~h.failed => /\ task[h.key].status \in Terminal /\ assertTerminalResult(task[h.key])
                      /\ h.result = task[h.key]
  BY <1>1 DEF HarnessInv, Known, Judged
<1>7. p \notin {"start", "posted", "get", "poll"}
  BY DEF Judged
<1>8. HarnessInv'
  BY <1>1, <1>2, <1>4, <1>5, <1>6, <1>7 DEF HarnessInv, assertTerminalResult
<1> QED
  BY <1>2, <1>8, HarnessMoves

LEMMA GetSecondStep ==
  ASSUME Inv, GetSecond
  PROVE  Inv'
<1>1. /\ Types /\ HarnessInv /\ h \in Harnesses /\ h.pc = "second" /\ h.pc \in Judged
  BY DEF Inv, Types, GetSecond, Judged
<1>2. call' = call /\ Keeping
  BY DEF GetSecond
<1>3. h.failed \in BOOLEAN /\ (~h.failed => h.result = task[h.key])
  BY <1>1 DEF HarnessInv, Harnesses
<1>4. "replay" \in Judged \ Waiting
  BY DEF Judged, Waiting
<1>5. CASE faults' = faults /\ h' = [h EXCEPT !.pc = "replay", !.failed = @ \/ h.result # task[h.key]]
  <2>1. h' = [h EXCEPT !.pc = "replay", !.failed = h.failed]
    BY <1>1, <1>3, <1>5 DEF Harnesses
  <2>2. faults' \in Nat /\ faults \leq faults'
    BY <1>1, <1>5 DEF Types
  <2> QED
    BY <1>1, <1>2, <1>3, <1>4, <2>1, <2>2, JudgedStep
<1>6. CASE Fault /\ h' = [h EXCEPT !.pc = "replay", !.failed = TRUE]
  <2>1. faults' \in Nat /\ faults \leq faults' /\ faults' # 0
    BY <1>1, <1>6 DEF Types, Fault
  <2> QED
    BY <1>1, <1>2, <1>4, <1>6, <2>1, JudgedStep
<1> QED
  BY <1>5, <1>6 DEF GetSecond, SetH

\* The replay is answered with the task, the conflicting one is refused, and
\* whatever else the harness sees is a fault.
LEMMA HarnessReplayedStep ==
  ASSUME Inv, HarnessReplayed
  PROVE  Inv'
<1>1. PICK c : c = call[harness]
  OBVIOUS
<1>2. /\ Types /\ HarnessInv /\ h \in Harnesses /\ harness \in Clients /\ CallInv(harness)
      /\ c.pc = "done" /\ c.http # 0 /\ h.pc \in {"replayed", "conflicted"}
  BY <1>1 DEF Inv, Types, Clients, HarnessReplayed
<1>3. /\ h.pc \in Judged /\ h.key \in RequestIds /\ c.key = h.key /\ c.body = Body
      /\ task[h.key] # NoTask /\ task[h.key].fp = canonical /\ task[h.key].id = h.taskId
  BY <1>1, <1>2 DEF HarnessInv, Waiting, Known, Judged
<1>4. c \in Locals /\ h.failed \in BOOLEAN
  BY <1>1, <1>2 DEF Types, Harnesses
<1>5. /\ call' = call /\ faults' = faults /\ Keeping
  BY DEF HarnessReplayed
<1>6. faults' \in Nat /\ faults \leq faults' /\ (faults > 0 => faults' # 0)
  BY <1>2, <1>5 DEF Types
<1>7. c.http = 200 \/ c.http = 409 \/ c.http = 500
  BY <1>2, <1>4 DEF Locals, Http
<1>8. CASE h.pc = "replayed"
  <2>1. c.body = canonical
    BY <1>3, <1>8 DEF Body
  <2>2. PICK f \in BOOLEAN : f = (h.failed \/ ~assertExactReplay(c))
    BY DEF assertExactReplay
  <2>3. h' = [h EXCEPT !.pc = "conflict", !.failed = f]
    BY <1>1, <1>2, <1>8, <2>2 DEF HarnessReplayed, SetH, Harnesses
  <2>4. f => h.failed \/ faults > 0
    <3>1. c.http = 500 => faults > 0
      BY <1>1, <1>2 DEF CallInv
    <3>2. c.http # 409
      BY <1>1, <1>2, <1>3, <2>1 DEF CallInv
    <3>3. c.http = 200 => c.id = h.taskId
      BY <1>1, <1>2, <1>3 DEF CallInv
    <3> QED
      BY <1>7, <2>2, <3>1, <3>2, <3>3 DEF assertExactReplay
  <2>5. "conflict" \in Judged \ Waiting
    BY DEF Judged, Waiting
  <2> QED
    BY <1>3, <1>5, <1>6, <2>2, <2>3, <2>4, <2>5, JudgedStep
<1>9. CASE h.pc = "conflicted"
  <2>1. c.body = probe /\ probe # canonical
    BY <1>3, <1>9, BridgeAssumption DEF Body
  <2>2. PICK f \in BOOLEAN : f = (h.failed \/ ~assertConflictingReplayRejected(c))
    BY DEF assertConflictingReplayRejected
  <2>3. h' = [h EXCEPT !.pc = "end", !.failed = f]
    BY <1>1, <1>2, <1>9, <2>2 DEF HarnessReplayed, SetH, Harnesses
  <2>4. f => h.failed \/ faults > 0
    <3>1. c.http = 500 => faults > 0
      BY <1>1, <1>2 DEF CallInv
    <3>2. c.http # 200
      BY <1>1, <1>2, <1>3, <2>1 DEF CallInv
    <3> QED
      BY <1>7, <2>2, <3>1, <3>2 DEF assertConflictingReplayRejected
  <2>5. "end" \notin Waiting
    BY DEF Waiting
  <2> QED
    BY <1>3, <1>5, <1>6, <2>2, <2>3, <2>4, <2>5, JudgedStep
<1> QED
  BY <1>2, <1>8, <1>9

-----------------------------------------------------------------------------
(* Theorems.                                                               *)

\* There is no task at first, and the harness has not begun.
LEMMA InitInv == BridgeInit => Inv
<1> SUFFICES ASSUME BridgeInit PROVE Inv
  OBVIOUS
<1>1. NoTask \in Rows /\ Idle \in Locals /\ NoTask.status \notin Terminal \cup {"DISPATCHING"}
  BY NoTaskFacts
<1>2. h \in Harnesses
  BY DEF BridgeInit, Harnesses, HarnessPc
<1>3. Types
  BY <1>1, <1>2 DEF BridgeInit, Types
<1>4. \A k \in RequestIds : RowInv(k)
  BY <1>1 DEF BridgeInit, RowInv
<1>5. \A c \in Clients : CallInv(c)
  BY DEF BridgeInit, CallInv, Idle
<1>6. HarnessInv
  BY DEF BridgeInit, HarnessInv, Waiting, Known, Judged
<1> QED
  BY <1>3, <1>4, <1>5, <1>6 DEF Inv

\* Every step of a call, of the harness, of time and of the process keeps the invariant.
LEMMA NextInv == Inv /\ [BridgeNext]_bridgeVars => Inv'
<1> SUFFICES ASSUME Inv, [BridgeNext]_bridgeVars PROVE Inv'
  OBVIOUS
<1>1. ASSUME NEW c \in Clients, Serve(c) PROVE Inv'
  BY <1>1, FindStep, CreateStep, DispatchStep, PersistStep DEF Serve
<1>2. CASE Harness
  BY <1>2, HarnessPostsStep, TransportErrorStep, HarnessPostedStep, GetFirstStep, GetSecondStep,
     HarnessReplayedStep DEF Harness
<1>3. CASE UNCHANGED bridgeVars
  BY <1>3 DEF bridgeVars, Inv, Types, RowInv, CallInv, Owns, HarnessInv, Explained, Body,
     assertTerminalResult
<1> QED
  BY <1>1, <1>2, <1>3, SubmitStep, PayloadExpiresStep, CrashStep DEF BridgeNext

\* The inductive invariant of the bridge and its harness holds throughout.
LEMMA Invariance == BridgeSpec => []Inv
BY InitInv, NextInv, PTL DEF BridgeSpec

\* Rows, calls and counters keep their types.
THEOREM TypeCorrect == BridgeSpec => []BridgeTypeOK
<1>1. Inv => BridgeTypeOK
  BY DEF Inv, Types, RowInv, Rows, Locals, Http, Statuses, BridgeTypeOK
<1> QED
  BY <1>1, Invariance, PTL

\* However calls race for a key, are replayed or die, a task is dispatched at most
\* once, with the body that its row holds.
THEOREM OneDispatch == BridgeSpec => []DispatchedOnce
<1>1. Inv => DispatchedOnce
  <2>1. \A x : Len(<<x>>) = 1 /\ <<x>>[1] = x
    OBVIOUS
  <2> QED
    BY <2>1 DEF Inv, RowInv, DispatchedOnce
<1> QED
  BY <1>1, Invariance, PTL

\* The verdict of the harness is right, whoever else submits.
THEOREM VerdictIsRight == BridgeSpec => []HarnessVerdict
<1>1. Inv => HarnessVerdict
  <2> SUFFICES ASSUME Inv, h.pc = "end"
               PROVE  HarnessVerdict
    BY DEF HarnessVerdict
  <2>1. /\ h.key \in RequestIds /\ RowInv(h.key)
        /\ (task[h.key] # NoTask /\ task[h.key].fp # canonical) \/ Explained
        /\ ~h.failed => task[h.key].status \in Terminal /\ assertTerminalResult(task[h.key])
    BY DEF Inv, HarnessInv
  <2>2. dispatched[h.key] # <<>> => Len(dispatched[h.key]) = 1
    <3>1. \A x : Len(<<x>>) = 1
      OBVIOUS
    <3> QED
      BY <2>1, <3>1 DEF RowInv
  <2>3. task[h.key].status \in Terminal => dispatched[h.key] # <<>>
    BY <2>1 DEF RowInv
  <2>4. Len(dispatched[h.key]) = 1 => task[h.key] # NoTask
    <3>1. \A s : s = <<>> => Len(s) # 1
      OBVIOUS
    <3>2. dispatched[h.key] = <<>> \/ task[h.key] # NoTask
      BY <2>1 DEF RowInv
    <3> QED
      BY <3>1, <3>2
  <2>5. task[h.key] # NoTask /\ task[h.key].patch = "proof" => task[h.key].payload
    BY <2>1, BridgeAssumption DEF RowInv
  <2>6. h.failed \in BOOLEAN
    BY DEF Inv, Types, Harnesses
  <2> QED
    BY <2>1, <2>2, <2>3, <2>4, <2>5, <2>6 DEF HarnessVerdict, Explained, assertTerminalResult
<1> QED
  BY <1>1, Invariance, PTL

\* What a step does to the claim of a key: it is taken when the row is created, its
\* effect is the dispatch, and nothing else changes either.
LEMMA StepSimulates ==
  ASSUME Inv, [BridgeNext]_bridgeVars
  PROVE  [TaskClaim!Next]_TaskClaim!vars
<1>1. Types
  BY DEF Inv
<1>2. ASSUME task' = task, dispatched' = dispatched
      PROVE  UNCHANGED TaskClaim!vars
  BY <1>2 DEF TaskClaim!vars, claimant, usedKeys
<1>3. ASSUME NEW c \in Clients, Create(c)
      PROVE  [TaskClaim!Next]_TaskClaim!vars
  <2>1. CASE task' = task
    BY <1>2, <1>3, <2>1 DEF Create
  <2>2. CASE task' # task
    <3>1. PICK k : k = call[c].key
      OBVIOUS
    <3>2. PICK row : row = [NoTask EXCEPT !.id = created + 1, !.owner = c, !.fp = call[c].body,
                                          !.status = "DISPATCHING", !.payload = TRUE]
      OBVIOUS
    <3>3. /\ task[k] = NoTask /\ task' = [task EXCEPT ![k] = row] /\ dispatched' = dispatched
          /\ call[c].pc = "create"
      BY <1>3, <2>2, <3>1, <3>2 DEF Create, isOperatorRequestKeyConflict
    <3>4. k \in RequestIds
      BY <3>1, <3>3 DEF Inv, CallInv
    <3>5. row.owner = c /\ row.status = "DISPATCHING"
      BY <3>2 DEF NoTask
    <3>6. row # NoTask
      BY <3>5, NoTaskFacts
    <3>7. task'[k] = row /\ \A l \in RequestIds \ {k} : task'[l] = task[l]
      BY <1>1, <3>3, <3>4 DEF Types
    <3>8. claimant[k] = ABSENT
      BY <3>3, <3>4 DEF claimant
    <3>9. claimant' = [claimant EXCEPT ![k] = c]
      <4> DEFINE f == claimant'
                 g == [claimant EXCEPT ![k] = c]
      <4>1. f = [l \in RequestIds |-> f[l]] /\ g = [l \in RequestIds |-> g[l]]
        BY DEF claimant
      <4>2. \A l \in RequestIds : f[l] = g[l]
        BY <3>4, <3>5, <3>6, <3>7 DEF claimant
      <4> HIDE DEF f, g
      <4>3. f = g
        BY <4>1, <4>2
      <4> QED
        BY <4>3 DEF f, g
    <3>10. usedKeys' = usedKeys
      BY <3>3 DEF usedKeys
    <3> QED
      BY <3>4, <3>8, <3>9, <3>10 DEF TaskClaim!Next, TaskClaim!Take, TaskClaim!vars
  <2> QED
    BY <2>1, <2>2
<1>4. ASSUME NEW c \in Clients, Dispatch(c)
      PROVE  [TaskClaim!Next]_TaskClaim!vars
  <2>1. PICK k : k = call[c].key
    OBVIOUS
  <2>2. /\ k \in RequestIds /\ task[k] # NoTask /\ task[k].owner = c /\ dispatched[k] = <<>>
    BY <1>4, <2>1 DEF Dispatch, Inv, CallInv, Owns
  <2>3. /\ task' = task /\ dispatched' = [dispatched EXCEPT ![k] = Append(@, call[c].body)]
    BY <1>4, <2>1 DEF Dispatch
  <2>4. Append(<<>>, call[c].body) # <<>>
    OBVIOUS
  <2>5. /\ dispatched'[k] # <<>> /\ \A l \in RequestIds \ {k} : dispatched'[l] = dispatched[l]
    BY <1>1, <2>2, <2>3, <2>4 DEF Types
  <2>6. claimant' = claimant /\ claimant[k] # ABSENT /\ k \notin usedKeys
    BY <2>2, <2>3, BridgeAssumption DEF claimant, usedKeys
  <2>7. usedKeys' = usedKeys \cup {k}
    BY <2>2, <2>5 DEF usedKeys
  <2> QED
    BY <2>2, <2>6, <2>7 DEF TaskClaim!Next, TaskClaim!Fire
<1>5. ASSUME NEW c \in Clients, persistTerminalResult(c)
      PROVE  [TaskClaim!Next]_TaskClaim!vars
  <2>1. CASE task' = task
    BY <1>2, <1>5, <2>1 DEF persistTerminalResult
  <2>2. CASE task' # task
    <3>1. PICK k : k = call[c].key
      OBVIOUS
    <3>2. /\ k \in RequestIds /\ task[k] # NoTask /\ task[k] \in Rows /\ dispatched' = dispatched
          /\ task' = [task EXCEPT ![k] = terminalRow(k, call[c].terminal)]
          /\ call[c].terminal.status \in Terminal
      BY <1>1, <1>5, <2>2, <3>1
         DEF persistTerminalResult, Inv, CallInv, Owns, Types, Terminals, stillDispatching
    <3>3. PICK row : row = terminalRow(k, call[c].terminal)
      OBVIOUS
    <3>4. row.owner = task[k].owner /\ row.status = call[c].terminal.status
      BY <3>2, <3>3 DEF terminalRow, Rows
    <3>5. row # NoTask
      BY <3>2, <3>4, NoTaskFacts
    <3>6. task'[k] = row /\ \A l \in RequestIds \ {k} : task'[l] = task[l]
      BY <1>1, <3>2, <3>3 DEF Types
    <3>7. claimant' = claimant
      BY <3>2, <3>4, <3>5, <3>6 DEF claimant
    <3>8. usedKeys' = usedKeys
      BY <3>2 DEF usedKeys
    <3> QED
      BY <3>7, <3>8 DEF TaskClaim!vars
  <2> QED
    BY <2>1, <2>2
<1>6. ASSUME NEW c \in Clients, Find(c)
      PROVE  UNCHANGED TaskClaim!vars
  BY <1>2, <1>6 DEF Find
<1>7. CASE Harness \/ Crash \/ UNCHANGED bridgeVars
  <2>1. task' = task /\ dispatched' = dispatched
    BY <1>7 DEF Harness, HarnessPosts, TransportError, HarnessPosted, GetFirst, GetSecond,
                HarnessReplayed, Keeping, Crash, bridgeVars
  <2> QED
    BY <1>2, <2>1
<1>8. CASE \/ \E c \in Others, k \in RequestIds, b \in Bodies : Submit(c, k, b)
           \/ \E k \in RequestIds : PayloadExpires(k)
  <2>1. task' = task /\ dispatched' = dispatched
    BY <1>8 DEF Submit, PayloadExpires
  <2> QED
    BY <1>2, <2>1
<1>9. ASSUME NEW c \in Clients, Serve(c)
      PROVE  [TaskClaim!Next]_TaskClaim!vars
  BY <1>3, <1>4, <1>5, <1>6, <1>9 DEF Serve
<1> QED
  BY <1>7, <1>8, <1>9 DEF BridgeNext

\* The claim of a key implements the abstract single-use token: it is taken once and
\* for good, and its dispatch happens at most once and after that.
THEOREM RefinesSingleUse == BridgeSpec => BridgeImplementsSingleUse
<1>1. BridgeInit => TaskClaim!Init
  BY DEF BridgeInit, TaskClaim!Init, claimant, usedKeys
<1>2. Inv /\ [BridgeNext]_bridgeVars => [TaskClaim!Next]_TaskClaim!vars
  BY StepSimulates
<1> QED
  BY <1>1, <1>2, Invariance, PTL DEF BridgeSpec, BridgeImplementsSingleUse, TaskClaim!Spec
=============================================================================
