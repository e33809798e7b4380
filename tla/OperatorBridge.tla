--------------------------- MODULE OperatorBridge ---------------------------
(***************************************************************************)
(* The operator bridge (OperatorBridgeService.submitTask and getTask) and  *)
(* its client, the real-flow harness of scripts/operator-bridge-real-flow. *)
(*                                                                         *)
(* The row of a task is its claim: the unique index on (organization,      *)
(* requestId), here a key, lets one submission create it, and that one     *)
(* dispatches.  A transaction ends an action, and so does the dispatch:    *)
(* other calls and the death of the process come between.  A request body  *)
(* is its fingerprint; a result is what the harness tells apart.           *)
(***************************************************************************)
EXTENDS Naturals, Sequences, FiniteSets

CONSTANTS
  RequestIds,        \* (organization, requestId)
  Bodies,      \* request fingerprints, canonical among them
  canonical,   \* the body the harness submits and replays
  probe,       \* the one it expects to be refused
  Others,      \* calls of other clients, one submission each
  harness,     \* the call slot of the harness
  Outcomes,    \* what a dispatch can end with: an execution or a thrown error
  MaxFaults,   \* bound on failing transactions, lost connections and crashes
  ABSENT

VARIABLES
  task,        \* the row of each key
  call,        \* each call
  h,           \* the harness: pc, taskId, result, failed and whether it gave up polling
  expired,     \* tasks whose sensitivePayloadExpiresAt has passed
  dispatched,  \* per key: the bodies dispatched, in order
  created,     \* rows created so far: the next id
  faults

bridgeVars == <<task, call, h, expired, dispatched, created, faults>>

Clients == Others \cup {harness}
Terminal == {"COMPLETED", "HUMAN_GATE", "FAILED"}

\* The two bodies of the harness are requests and differ; ABSENT is no call, no status
\* and not the proof; whether a workspace was cleaned is known of every outcome.
ASSUME BridgeAssumption ==
  /\ canonical \in Bodies /\ probe \in Bodies /\ canonical # probe
  /\ ABSENT \notin Clients /\ ABSENT \notin Terminal \cup {"DISPATCHING", "proof"}
  /\ \A o \in Outcomes : o.cleaned \in BOOLEAN

NoTask ==
  [id |-> 0, owner |-> ABSENT, fp |-> ABSENT, status |-> ABSENT, payload |-> FALSE, files |-> ABSENT,
   patch |-> ABSENT, provider |-> ABSENT, cleaned |-> FALSE]
Idle == [pc |-> "idle", key |-> ABSENT, body |-> ABSENT, terminal |-> ABSENT, http |-> 0, id |-> 0, status |-> ABSENT]

BridgeInit ==
  /\ task = [k \in RequestIds |-> NoTask]
  /\ call = [c \in Clients |-> Idle]
  /\ h = [pc |-> "start", key |-> ABSENT, taskId |-> 0, result |-> ABSENT, failed |-> FALSE, late |-> FALSE]
  /\ expired = {}
  /\ dispatched = [k \in RequestIds |-> <<>>]
  /\ created = 0
  /\ faults = 0

-----------------------------------------------------------------------------
(* submitTask.                                                             *)

Fault == faults < MaxFaults /\ faults' = faults + 1
Set(c, local) == call' = [call EXCEPT ![c] = local]
Answer(c, http, id, status) ==
  [call[c] EXCEPT !.pc = "done", !.http = http, !.id = id, !.status = status]

\* A task that exists is answered as it stands, and never dispatched again.
resolveExisting(c, row) ==
  IF row.fp # call[c].body THEN Answer(c, 409, 0, ABSENT) ELSE Answer(c, 200, row.id, row.status)

Posted(k, b) == [Idle EXCEPT !.pc = "find", !.key = k, !.body = b]

Submit(c, k, b) ==
  /\ call[c].pc = "idle"
  /\ Set(c, Posted(k, b))
  /\ UNCHANGED <<task, h, expired, dispatched, created, faults>>

\* The first read of transaction A, or the read after a lost race for the key.
Find(c) ==
  LET row == task[call[c].key] IN
  /\ call[c].pc \in {"find", "reread"}
  /\ \/ /\ IF row # NoTask THEN Set(c, resolveExisting(c, row))
           ELSE Set(c, [call[c] EXCEPT !.pc = "create"])
        /\ UNCHANGED faults
     \/ Fault /\ Set(c, Answer(c, 500, 0, ABSENT))
  /\ UNCHANGED <<task, h, expired, dispatched, created>>

\* @@unique([organizationId, requestId])
isOperatorRequestKeyConflict(k) == task[k] # NoTask

\* Mutant: a task that is still DISPATCHING is taken over by whoever asks for it.
CreateOrReclaim(c) ==
  LET k == call[c].key IN
  /\ call[c].pc = "create"
  /\ task[k].status \in {ABSENT, "DISPATCHING"}
  /\ created' = created + 1
  /\ task' = [task EXCEPT ![k] = [NoTask EXCEPT !.id = created + 1, !.owner = c, !.fp = call[c].body,
                                              !.status = "DISPATCHING", !.payload = TRUE]]
  /\ Set(c, [call[c] EXCEPT !.pc = "dispatch", !.id = created + 1])
  /\ UNCHANGED <<h, expired, dispatched, faults>>

\* The insert of transaction A and its commit.
Create(c) ==
  LET k == call[c].key IN
  /\ call[c].pc = "create"
  /\ \/ /\ isOperatorRequestKeyConflict(k)
        /\ Set(c, [call[c] EXCEPT !.pc = "reread"])
        /\ UNCHANGED <<task, created, faults>>
     \/ /\ ~isOperatorRequestKeyConflict(k)
        /\ created' = created + 1
        /\ task' = [task EXCEPT ![k] = [NoTask EXCEPT !.id = created + 1, !.owner = c, !.fp = call[c].body,
                                              !.status = "DISPATCHING", !.payload = TRUE]]
        /\ Set(c, [call[c] EXCEPT !.pc = "dispatch", !.id = created + 1])
        /\ UNCHANGED faults
     \/ Fault /\ Set(c, Answer(c, 500, 0, ABSENT)) /\ UNCHANGED <<task, created>>
  /\ UNCHANGED <<h, expired, dispatched>>

\* mapDispatchResult and mapDispatchFailure: the update of the row.
terminalOf(o) ==
  [status |-> CASE o.execution = "SUCCEEDED" -> "COMPLETED"
                [] o.execution = "POLICY_BLOCKED" -> "HUMAN_GATE"
                [] OTHER -> "FAILED",
   files |-> o.files, patch |-> o.patch, provider |-> o.provider, cleaned |-> o.cleaned]

\* Mutant: an error thrown by dispatch is the answer.
dispatchThrows(c, o) ==
  IF o.execution = "THROWN" THEN Answer(c, 500, 0, ABSENT)
  ELSE [call[c] EXCEPT !.pc = "persist", !.terminal = terminalOf(o)]

\* Mutant: an error thrown by dispatch is a reason to try again.
dispatchRetries(c, o) ==
  IF o.execution = "THROWN" THEN call[c]
  ELSE [call[c] EXCEPT !.pc = "persist", !.terminal = terminalOf(o)]

\* Whatever dispatch does, its outcome is to be stored.
dispatchEnds(c, o) == [call[c] EXCEPT !.pc = "persist", !.terminal = terminalOf(o)]

Dispatch(c) ==
  /\ call[c].pc = "dispatch"
  /\ dispatched' = [dispatched EXCEPT ![call[c].key] = Append(@, call[c].body)]
  /\ \E o \in Outcomes : Set(c, dispatchEnds(c, o))
  /\ UNCHANGED <<task, h, expired, created, faults>>

\* SELECT ... WHERE status = 'DISPATCHING' FOR UPDATE
stillDispatching(row) == row # NoTask /\ row.status = "DISPATCHING"

\* The row after the terminal update; an expired payload is deleted with it.
terminalRow(k, t) ==
  [task[k] EXCEPT !.status = t.status, !.files = t.files, !.provider = t.provider,
                  !.cleaned = t.cleaned,
                  !.payload = task[k].payload /\ k \notin expired,
                  !.patch = IF task[k].payload /\ k \notin expired THEN t.patch ELSE ABSENT]

persistTerminalResult(c) ==
  LET k == call[c].key IN
  /\ call[c].pc = "persist"
  /\ \/ /\ stillDispatching(task[k])
        /\ task' = [task EXCEPT ![k] = terminalRow(k, call[c].terminal)]
        /\ Set(c, Answer(c, 200, task[k].id, call[c].terminal.status))
        /\ UNCHANGED faults
     \/ /\ stillDispatching(task[k]) => Fault
        /\ ~stillDispatching(task[k]) => UNCHANGED faults
        /\ Set(c, Answer(c, 500, 0, ABSENT))
        /\ UNCHANGED task
  /\ UNCHANGED <<h, expired, dispatched, created>>

PayloadExpires(k) ==
  /\ task[k] # NoTask
  /\ expired' = expired \cup {k}
  /\ UNCHANGED <<task, call, h, dispatched, created, faults>>

\* The API process dies with its calls; the client sees a broken connection.
Crash ==
  /\ Fault
  /\ call' = [c \in Clients |-> IF call[c].pc \in {"idle", "done"} THEN call[c]
                                ELSE Answer(c, 0, 0, ABSENT)]
  /\ UNCHANGED <<task, h, expired, dispatched, created>>

Serve(c) == Find(c) \/ Create(c) \/ Dispatch(c) \/ persistTerminalResult(c)

-----------------------------------------------------------------------------
(* The harness: run.                                                       *)

SetH(local) == h' = local
Keeping == UNCHANGED <<task, expired, dispatched, created>>

\* run issues a POST when no request of its own is under way.
HarnessPosts ==
  /\ h.pc \in {"start", "replay", "conflict"}
  /\ \E k \in RequestIds :
       /\ h.pc = "start" \/ k = h.key
       /\ Set(harness, Posted(k, IF h.pc = "conflict" THEN probe ELSE canonical))
       /\ SetH([h EXCEPT !.pc = CASE h.pc = "start" -> "posted" [] h.pc = "replay" -> "replayed"
                                  [] OTHER -> "conflicted",
                         !.key = k])
  /\ Keeping /\ UNCHANGED faults

\* postTask or getTask: a transport error ends the run with an exception, while
\* the server goes on.
TransportError ==
  /\ h.pc \in {"posted", "poll", "get", "second", "replayed", "conflicted"}
  /\ \/ call[harness].http = 0 /\ call[harness].pc = "done" /\ UNCHANGED faults
     \/ Fault
  /\ SetH([h EXCEPT !.pc = "threw", !.failed = TRUE])
  /\ Keeping /\ UNCHANGED call

HarnessPosted ==
  LET c == call[harness] IN
  /\ h.pc = "posted" /\ c.pc = "done" /\ c.http # 0
  /\ SetH(IF c.http # 200 THEN [h EXCEPT !.pc = "end", !.failed = TRUE]
          ELSE [h EXCEPT !.taskId = c.id, !.pc = IF c.status \in Terminal THEN "get" ELSE "poll"])
  /\ Keeping /\ UNCHANGED <<call, faults>>

\* Mutant: a payload that has expired is not looked at.
assertIfAvailable(r) ==
  r.status = "COMPLETED" /\ r.provider # ABSENT /\ r.files = "proof"
  /\ (r.payload => r.patch = "proof") /\ r.cleaned

\* The terminal result is a success of the canonical task.
assertTerminalResult(r) ==
  r.status = "COMPLETED" /\ r.provider # ABSENT /\ r.files = "proof"
  /\ r.payload /\ r.patch = "proof" /\ r.cleaned

GetFirst ==
  /\ h.pc \in {"get", "poll"}
  /\ \/ LET r == task[h.key] IN
        /\ \/ r.status \in Terminal /\ SetH([h EXCEPT !.pc = "second", !.result = r,
                                                !.failed = @ \/ ~assertTerminalResult(r)])
           \/ /\ h.pc = "poll" /\ r.status \notin Terminal  \* the deadline has passed
              /\ SetH([h EXCEPT !.pc = "second", !.failed = TRUE, !.late = TRUE])
        /\ UNCHANGED faults
     \/ Fault /\ SetH([h EXCEPT !.pc = "second", !.failed = TRUE])
  /\ Keeping /\ UNCHANGED call

\* assertDurableConsistency
GetSecond ==
  /\ h.pc = "second"
  /\ \/ SetH([h EXCEPT !.pc = "replay", !.failed = @ \/ h.result # task[h.key]]) /\ UNCHANGED faults
     \/ Fault /\ SetH([h EXCEPT !.pc = "replay", !.failed = TRUE])
  /\ Keeping /\ UNCHANGED call

assertExactReplay(c) == c.http = 200 /\ c.id = h.taskId
assertConflictingReplayRejected(c) == c.http = 409

HarnessReplayed ==
  LET c == call[harness] IN
  /\ c.pc = "done" /\ c.http # 0
  /\ \/ /\ h.pc = "replayed"
        /\ SetH([h EXCEPT !.pc = "conflict", !.failed = @ \/ ~assertExactReplay(c)])
     \/ /\ h.pc = "conflicted"
        /\ SetH([h EXCEPT !.pc = "end", !.failed = @ \/ ~assertConflictingReplayRejected(c)])
  /\ Keeping /\ UNCHANGED <<call, faults>>

Harness == HarnessPosts \/ TransportError \/ HarnessPosted \/ GetFirst \/ GetSecond \/ HarnessReplayed

BridgeNext ==
  \/ \E c \in Clients : Serve(c)
  \/ \E c \in Others, k \in RequestIds, b \in Bodies : Submit(c, k, b)
  \/ Harness
  \/ \E k \in RequestIds : PayloadExpires(k)
  \/ Crash

\* A call the process works on goes on: dispatch ends (its execution has a
\* timeout) and so do transactions.
Fairness == \A c \in Clients : WF_bridgeVars(Serve(c))

BridgeSpec == BridgeInit /\ [][BridgeNext]_bridgeVars /\ Fairness

-----------------------------------------------------------------------------
(* Properties.                                                             *)

\* Rows, calls and counters have their declared values.
BridgeTypeOK ==
  /\ \A k \in RequestIds : task[k] = NoTask \/ /\ task[k].id \in 1..created
                                               /\ task[k].status \in Terminal \cup {"DISPATCHING"}
                                               /\ task[k].fp \in Bodies
                                               /\ task[k].payload \/ task[k].patch = ABSENT
  /\ \A c \in Clients : call[c].http \in {0, 200, 409, 500}
  /\ dispatched \in [RequestIds -> Seq(Bodies)]

\* A task is dispatched at most once, with the request that its row holds:
\* whatever is replayed or raced, before or after a crash, and never a request
\* that was answered as a conflict.
DispatchedOnce ==
  \A k \in RequestIds : \/ dispatched[k] = <<>>
                        \/ Len(dispatched[k]) = 1 /\ task[k] # NoTask /\ task[k].fp = dispatched[k][1]

\* The harness reports success exactly when its task was dispatched once, ended
\* well and its patch is there, provided that no transaction or connection failed,
\* the poll deadline did not pass and the key was not used with another body: the
\* replay then finds the same task and the conflicting replay is refused, whoever
\* else submits at the same time.
HarnessVerdict ==
  LET row == task[h.key]
      good == Len(dispatched[h.key]) = 1 /\ row.status = "COMPLETED" /\ row.provider # ABSENT
              /\ row.files = "proof" /\ row.patch = "proof" /\ row.cleaned
  IN  h.pc = "end" => /\ ~h.failed => good
                      /\ good /\ row.fp = canonical /\ faults = 0 /\ ~h.late => ~h.failed

\* Every task leaves DISPATCHING unless a crash or a failing transaction takes
\* its owner away, after which it stays there for ever.
TaskSettles ==
  \A k \in RequestIds : task[k] # NoTask ~> (task[k].status \in Terminal \/ faults > 0)

\* The claim of a key implements the abstract single-use token: its holder is the
\* call that created the row, its effect the dispatch.
claimant == [k \in RequestIds |-> IF task[k] = NoTask THEN ABSENT ELSE task[k].owner]
usedKeys == {k \in RequestIds : dispatched[k] # <<>>}

TaskClaim == INSTANCE SingleUse WITH
  Tokens <- RequestIds, Holders <- Clients, Nobody <- ABSENT, holder <- claimant, fired <- usedKeys

BridgeImplementsSingleUse == TaskClaim!Spec
=============================================================================
