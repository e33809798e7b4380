------------------------ MODULE ExecutionWorkerProofs ------------------------
(***************************************************************************)
(* Proofs about ExecutionWorker, for any runs, executions, requests and    *)
(* bounds: an execution of a cancelled run is told to stop, a workspace    *)
(* holds one execution, and a result is true.                              *)
(***************************************************************************)
EXTENDS ExecutionWorker, SequenceTheorems, TLAPS

\* The errors that the requests can lead to, and those of the worker itself.
launchError(flaws) ==
  firstError(<<materializeCredential(flaws), buildProcessEnv(flaws), buildRunArgs(flaws)>>)
ErrorsOf(e) ==
  {registryError(answer) : answer \in Request[e].repository}
  \cup {firstLacking(Requirements[Request[e].tier], lacking) : lacking \in Request[e].lacks \ {{}}}
  \cup {buildSandboxEnv(flaws) : flaws \in Request[e].launch}
  \cup {launchError(flaws) : flaws \in Request[e].launch}
Errors ==
  {NONE, "STARTUP", "WORKSPACE_PROVISION_FAILED", "CLOUD_SESSION_CLEANUP_FAILED",
   "CHANGESET_CAPTURE_FAILED", "CLEANUP_FAILED"} \cup (UNION {ErrorsOf(e) : e \in Execs})

Provisioning == {"ref", "init", "remote", "fetch", "checkout"}
Pc == {"idle", "validate", "execute", "running", "teardown", "capture", "cleanup", "done", "orphan"}
      \cup Provisioning
Away == {"idle", "done", "orphan"}
Holding == {"fetch", "checkout", "execute", "running", "teardown", "capture", "cleanup"}

Locals ==
  [pc : Pc, aborted : BOOLEAN, cancelled : BOOLEAN, timedOut : BOOLEAN,
   signal : {NONE, "TERM", "KILL"}, exit : {NONE, "0", "1"}, identity : BOOLEAN,
   session : BOOLEAN, changes : SUBSET Execs, error : Errors, stopped : BOOLEAN,
   result : {NONE, "ERROR", "LOST", "CANCELLED", "TIMED_OUT", "SUCCEEDED", "FAILED"}]

Types ==
  /\ active \subseteq Execs /\ requested \subseteq active
  /\ tombstones \in Seq(Runs) /\ Len(tombstones) \leq MAX_CANCELLATION_TOMBSTONES
  /\ dir \in [Runs -> Levels]
  /\ written \in [Runs -> SUBSET Execs]
  /\ x \in [Execs -> Locals]

\* The flags of an execution, by how far it is.
Flags(e, l) ==
  /\ l.pc = "running" /\ l.aborted => l.cancelled
  /\ l.pc # "done" /\ l.stopped => l.cancelled
  /\ l.session => l.pc \in {"running", "teardown", "cleanup", "done", "orphan"}
  /\ l.session /\ l.pc = "running" => Cloud(e)
  /\ l.session /\ l.pc = "cleanup" => l.error # NONE

Occupied == {"origin", "tree"}

ExecInv(e) ==
  /\ e \in active <=> x[e].pc \notin Away
  /\ e \in requested => x[e].aborted
  /\ e \in active /\ isWorkflowCancelled(RunOf(e)) => e \in requested
  /\ Flags(e, x[e])
  /\ x[e].pc \in Holding => dir[RunOf(e)] \in Occupied

Inv ==
  /\ Types
  /\ \A e \in Execs : ExecInv(e)
  /\ WorkspaceExclusive

-----------------------------------------------------------------------------
(* The registry of cancelled runs.                                         *)

\* Deleting an entry adds none.
LEMMA DeleteFacts ==
  ASSUME NEW s \in Seq(Runs), NEW w
  PROVE  /\ deleteEntry(s, w) \in Seq(Runs)
         /\ \A i \in DOMAIN deleteEntry(s, w) : \E j \in DOMAIN s : deleteEntry(s, w)[i] = s[j]
<1>1. CASE \A i \in DOMAIN s : s[i] # w
  <2>1. deleteEntry(s, w) = s
    BY <1>1 DEF deleteEntry
  <2> QED
    BY <2>1
<1>2. CASE ~(\A i \in DOMAIN s : s[i] # w)
  <2>1. PICK k \in DOMAIN s : deleteEntry(s, w) = SubSeq(s, 1, k - 1) \o SubSeq(s, k + 1, Len(s))
    BY <1>2 DEF deleteEntry
  <2>2. k \in 1..Len(s) /\ Len(s) \in Nat
    OBVIOUS
  <2>3. PICK a : a = SubSeq(s, 1, k - 1)
    OBVIOUS
  <2>4. PICK b : b = SubSeq(s, k + 1, Len(s))
    OBVIOUS
  <2>5. a \in Seq(Runs) /\ Len(a) = k - 1 /\ \A i \in 1..Len(a) : a[i] = s[i]
    BY <2>2, <2>3
  <2>6. b \in Seq(Runs) /\ Len(b) = Len(s) - k /\ \A i \in 1..Len(b) : b[i] = s[k + i]
    BY <2>2, <2>4
  <2>7. PICK c : c = a \o b
    OBVIOUS
  <2>8. /\ c \in Seq(Runs) /\ Len(c) = Len(a) + Len(b)
        /\ \A i \in 1..(Len(a) + Len(b)) : c[i] = IF i \leq Len(a) THEN a[i] ELSE b[i - Len(a)]
    BY <2>5, <2>6, <2>7, ConcatProperties
  <2>9. \A i \in 1..(Len(a) + Len(b)) : \E j \in 1..Len(s) : c[i] = s[j]
    <3> TAKE i \in 1..(Len(a) + Len(b))
    <3>1. CASE i \leq Len(a)
      <4>1. i \in 1..Len(a) /\ i \in 1..Len(s) /\ c[i] = a[i]
        BY <2>2, <2>5, <2>6, <2>8, <3>1
      <4> QED
        BY <2>5, <4>1
    <3>2. CASE ~(i \leq Len(a))
      <4>1. PICK j \in Int : j = i - Len(a)
        BY <2>2, <2>5
      <4>2. j \in 1..Len(b) /\ k + j \in 1..Len(s)
        <5>1. PICK m \in Int : m = Len(a) /\ m = k - 1
          BY <2>2, <2>5
        <5>2. PICK n \in Int : n = Len(b) /\ n = Len(s) - k
          BY <2>2, <2>6
        <5>3. PICK l \in Int : l = Len(s)
          BY <2>2
        <5>4. i \in 1..(m + n) /\ ~(i \leq m) /\ j = i - m /\ n = l - k /\ k \in 1..l
          BY <2>2, <3>2, <4>1, <5>1, <5>2, <5>3
        <5>5. j \in 1..n /\ k + j \in 1..l
          BY <5>4
        <5> QED
          BY <5>2, <5>3, <5>5
      <4>3. c[i] = b[j]
        BY <2>8, <3>2, <4>1
      <4> QED
        BY <2>6, <4>2, <4>3
    <3> QED
      BY <3>1, <3>2
  <2>10. DOMAIN c = 1..(Len(a) + Len(b)) /\ DOMAIN s = 1..Len(s)
    BY <2>8
  <2> QED
    <3>1. deleteEntry(s, w) = c
      BY <2>1, <2>3, <2>4, <2>7
    <3> QED
      BY <2>8, <2>9, <2>10, <3>1
<1> QED
  BY <1>1, <1>2

\* The bound keeps the newest entries.
LEMMA BoundFacts ==
  ASSUME NEW s \in Seq(Runs)
  PROVE  /\ enforceTombstoneBound(s) \in Seq(Runs)
         /\ Len(enforceTombstoneBound(s)) \leq MAX_CANCELLATION_TOMBSTONES
         /\ \A i \in DOMAIN enforceTombstoneBound(s) :
              \E j \in DOMAIN s : enforceTombstoneBound(s)[i] = s[j]
<1> DEFINE M == MAX_CANCELLATION_TOMBSTONES
<1>1. M \in Nat /\ M > 0 /\ Len(s) \in Nat
  BY WorkerAssumption
<1>2. CASE Len(s) > M
  <2>1. PICK b : b = SubSeq(s, Len(s) - M + 1, Len(s))
    OBVIOUS
  <2>2. b \in Seq(Runs) /\ Len(b) = M /\ \A i \in 1..Len(b) : b[i] = s[Len(s) - M + i]
    BY <1>1, <1>2, <2>1
  <2>3. \A i \in 1..Len(b) : Len(s) - M + i \in 1..Len(s)
    BY <1>1, <1>2, <2>2
  <2>4. enforceTombstoneBound(s) = b
    BY <1>2, <2>1 DEF enforceTombstoneBound
  <2>5. \A i \in DOMAIN b : \E j \in DOMAIN s : b[i] = s[j]
    <3>1. DOMAIN b = 1..Len(b) /\ DOMAIN s = 1..Len(s)
      BY <2>2
    <3> QED
      BY <2>2, <2>3, <3>1
  <2> QED
    BY <1>1, <2>2, <2>4, <2>5
<1>3. CASE ~(Len(s) > M)
  <2>1. enforceTombstoneBound(s) = s
    BY <1>3 DEF enforceTombstoneBound
  <2> QED
    BY <1>1, <1>3, <2>1
<1> QED
  BY <1>2, <1>3

\* What cancelWorkflow leaves of the registry: the run it cancels, and no other that
\* was not there.
LEMMA TombstonesOf ==
  ASSUME NEW s \in Seq(Runs), NEW w \in Runs, NEW t, t = enforceTombstoneBound(Append(deleteEntry(s, w), w))
  PROVE  /\ t \in Seq(Runs) /\ Len(t) \leq MAX_CANCELLATION_TOMBSTONES
         /\ \A i \in DOMAIN t : t[i] = w \/ \E j \in DOMAIN s : t[i] = s[j]
<1>1. PICK d \in Seq(Runs) : /\ d = deleteEntry(s, w)
                             /\ \A i \in DOMAIN d : \E j \in DOMAIN s : d[i] = s[j]
  BY DeleteFacts
<1>2. PICK a : a = Append(d, w)
  OBVIOUS
<1>3. a \in Seq(Runs) /\ \A i \in DOMAIN a : a[i] = w \/ \E j \in DOMAIN d : a[i] = d[j]
  <2>1. a \in Seq(Runs) /\ Len(a) = Len(d) + 1 /\ a[Len(d) + 1] = w /\ \A i \in 1..Len(d) : a[i] = d[i]
    BY <1>2
  <2>2. DOMAIN a = 1..(Len(d) + 1) /\ DOMAIN d = 1..Len(d) /\ Len(d) \in Nat
    BY <2>1
  <2>3. \A i \in 1..(Len(d) + 1) : i = Len(d) + 1 \/ i \in 1..Len(d)
    BY <2>2
  <2> QED
    BY <2>1, <2>2, <2>3
<1>4. /\ t \in Seq(Runs) /\ Len(t) \leq MAX_CANCELLATION_TOMBSTONES
      /\ \A i \in DOMAIN t : \E j \in DOMAIN a : t[i] = a[j]
  BY <1>1, <1>2, <1>3, BoundFacts
<1>5. \A i \in DOMAIN t : t[i] = w \/ \E j \in DOMAIN s : t[i] = s[j]
  <2> TAKE i \in DOMAIN t
  <2>1. PICK j \in DOMAIN a : t[i] = a[j]
    BY <1>4
  <2> QED
    BY <1>1, <1>3, <2>1
<1> QED
  BY <1>4, <1>5

-----------------------------------------------------------------------------
(* A step of one execution.                                                *)

\* An execution that the step leaves alone.
LEMMA OtherKept ==
  ASSUME NEW f \in Execs, ExecInv(f), x'[f] = x[f], f \in active' <=> f \in active,
         f \in requested' <=> f \in requested, tombstones' = tombstones,
         x[f].pc \in Holding => dir'[RunOf(f)] \in Occupied
  PROVE  ExecInv(f)'
<1>1. isWorkflowCancelled(RunOf(f))' = isWorkflowCancelled(RunOf(f))
  BY DEF isWorkflowCancelled
<1> QED
  BY <1>1 DEF ExecInv, Flags

\* A step of one execution, which enters the workspace of its run only when nobody
\* holds it, and changes its state only when it holds it or nobody does.
LEMMA Moves ==
  ASSUME Inv, NEW e \in Execs, NEW q \in Locals, x' = [x EXCEPT ![e] = q],
         active' \subseteq Execs, requested' \subseteq active',
         \A f \in Execs \ {e} : (f \in active' <=> f \in active) /\ (f \in requested' <=> f \in requested),
         tombstones' = tombstones, dir' \in [Runs -> Levels], written' \in [Runs -> SUBSET Execs],
         \A w \in Runs \ {RunOf(e)} : dir'[w] = dir[w],
         \/ dir'[RunOf(e)] = dir[RunOf(e)]
         \/ dir'[RunOf(e)] \in Occupied
         \/ x[e].pc \in Holding
         \/ dir[RunOf(e)] \notin Occupied,
         \/ q.pc \notin Holding
         \/ x[e].pc \in Holding
         \/ dir[RunOf(e)] \notin Occupied,
         ExecInv(e)'
  PROVE  Inv'
<1>1. Types /\ x' \in [Execs -> Locals] /\ x'[e] = q /\ \A f \in Execs \ {e} : x'[f] = x[f]
  BY DEF Inv, Types
<1>2. Types'
  BY <1>1 DEF Types
<1>3. \A f \in Execs : RunOf(f) \in Runs
  BY WorkerAssumption DEF RunOf
<1>4. \A f \in Execs : Holds(f) <=> x[f].pc \in Holding
  BY DEF Holds, Holding
<1>5. \A f \in Execs : Holds(f)' <=> x'[f].pc \in Holding
  BY DEF Holds, Holding
<1>6. ASSUME NEW f \in Execs \ {e}, x[f].pc \in Holding
      PROVE  dir'[RunOf(f)] \in Occupied /\ (RunOf(f) = RunOf(e) => q.pc \notin Holding)
  <2>1. dir[RunOf(f)] \in Occupied
    BY <1>6 DEF Inv, ExecInv
  <2>2. RunOf(f) = RunOf(e) => x[e].pc \notin Holding
    BY <1>4, <1>6 DEF Inv, WorkspaceExclusive
  <2> QED
    BY <1>3, <2>1, <2>2
<1>7. \A f \in Execs \ {e} : ExecInv(f)'
  <2> TAKE f \in Execs \ {e}
  <2>1. ExecInv(f)
    BY DEF Inv
  <2> QED
    BY <1>1, <1>6, <2>1, OtherKept
<1>8. WorkspaceExclusive'
  <2>1. \A f \in Execs : RunOf(f)' = RunOf(f)
    BY DEF RunOf
  <2> SUFFICES ASSUME NEW f \in Execs, NEW g \in Execs, Holds(f)', Holds(g)', RunOf(f) = RunOf(g),
                      f # g
               PROVE  FALSE
    BY <2>1 DEF WorkspaceExclusive
  <2>2. CASE f # e /\ g # e
    BY <1>1, <1>4, <1>5, <2>2 DEF Inv, WorkspaceExclusive
  <2>3. CASE f = e
    BY <1>1, <1>5, <1>6, <2>3
  <2>4. CASE g = e
    BY <1>1, <1>5, <1>6, <2>4
  <2> QED
    BY <2>2, <2>3, <2>4
<1> QED
  BY <1>2, <1>7, <1>8 DEF Inv

\* A step in which an execution goes on, in the workspace as it is.
LEMMA GoesOn ==
  ASSUME Inv, NEW e \in Execs, NEW q \in Locals, x' = [x EXCEPT ![e] = q],
         active' = active, requested' = requested, tombstones' = tombstones, dir' = dir,
         written' \in [Runs -> SUBSET Execs],
         x[e].pc \notin Away, q.pc \notin Away, x[e].aborted => q.aborted, Flags(e, q),
         q.pc \in Holding => x[e].pc \in Holding
  PROVE  Inv'
<1>1. Types /\ x'[e] = q /\ ExecInv(e)
  BY DEF Inv, Types
<1>2. isWorkflowCancelled(RunOf(e))' = isWorkflowCancelled(RunOf(e)) /\ Flags(e, x'[e]) = Flags(e, x[e])'
  BY DEF isWorkflowCancelled, Flags, Cloud
<1>3. ExecInv(e)'
  BY <1>1, <1>2 DEF ExecInv
<1> QED
  BY <1>1, <1>3, Moves DEF Types

\* An execution that has not begun has its type, and a call that returned as well.
LEMMA ReturnedFacts ==
  ASSUME NEW l \in Locals
  PROVE  /\ NewExecution \in Locals
         /\ Returned(l) \in Locals /\ Returned(l).pc = "done" /\ Returned(l).session = l.session
         /\ Returned(l).stopped = l.stopped /\ Returned(l).result = l.result
<1>1. NewExecution \in Locals
  BY DEF NewExecution, Locals, Pc, Errors
<1> QED
  BY <1>1 DEF Returned, Locals, Pc

\* executeSandboxed ends, whatever it leaves of the workspace it holds.
LEMMA Leaves ==
  ASSUME Inv, NEW e \in Execs, NEW l \in Locals, Leave(e, l), tombstones' = tombstones,
         written' \in [Runs -> SUBSET Execs],
         \/ dir' = dir
         \/ x[e].pc \in Holding /\ \E d \in Levels : dir' = [dir EXCEPT ![RunOf(e)] = d]
  PROVE  Inv'
<1>1. PICK q : q = Returned(l)
  OBVIOUS
<1>2. q \in Locals /\ q.pc = "done"
  BY <1>1, ReturnedFacts
<1>3. /\ x' = [x EXCEPT ![e] = q] /\ active' = active \ {e} /\ requested' = requested \ {e}
  BY <1>1 DEF Leave, Set
<1>4. Types /\ RunOf(e) \in Runs
  BY WorkerAssumption DEF Inv, RunOf
<1>5. /\ active' \subseteq Execs /\ requested' \subseteq active' /\ e \notin active' /\ e \notin requested'
      /\ \A f \in Execs \ {e} : (f \in active' <=> f \in active) /\ (f \in requested' <=> f \in requested)
  BY <1>3, <1>4 DEF Types
<1>6. /\ dir' \in [Runs -> Levels] /\ \A w \in Runs \ {RunOf(e)} : dir'[w] = dir[w]
  BY <1>4 DEF Types
<1>7. x'[e] = q
  BY <1>3, <1>4 DEF Types
<1>8. "done" \in Away /\ "done" \notin Holding
  BY DEF Away, Holding
<1>9. ExecInv(e)'
  BY <1>2, <1>5, <1>7, <1>8 DEF ExecInv, Flags
<1>10. \/ dir'[RunOf(e)] = dir[RunOf(e)]
       \/ x[e].pc \in Holding
  OBVIOUS
<1> QED
  BY <1>2, <1>3, <1>5, <1>6, <1>8, <1>9, <1>10, Moves

LEMMA RegisterStep ==
  ASSUME Inv, NEW e \in Execs, Register(e)
  PROVE  Inv'
<1>1. Types /\ x[e] \in Locals /\ x[e].pc = "idle" /\ RunOf(e) \in Runs /\ ExecInv(e)
  BY WorkerAssumption DEF Inv, Types, Register, At, RunOf
<1>2. PICK b \in BOOLEAN : b = isWorkflowCancelled(RunOf(e))
  BY DEF isWorkflowCancelled
<1>3. PICK q : q = [x[e] EXCEPT !.pc = "validate", !.aborted = b]
  OBVIOUS
<1>4. /\ q \in Locals /\ q.pc = "validate" /\ q.aborted = b /\ q.session = x[e].session
      /\ q.stopped = x[e].stopped /\ q.cancelled = x[e].cancelled
  BY <1>1, <1>3 DEF Locals, Pc
<1>5. /\ x' = [x EXCEPT ![e] = q] /\ active' = active \cup {e}
      /\ requested' = IF b THEN requested \cup {e} ELSE requested
      /\ tombstones' = tombstones /\ dir' = dir /\ written' = written
  BY <1>2, <1>3 DEF Register, Set, signalledAtOnce
<1>6. e \notin active
  BY <1>1 DEF ExecInv, Away
<1>7. /\ active' \subseteq Execs /\ requested' \subseteq active' /\ e \in active' /\ (e \in requested' <=> b)
      /\ \A f \in Execs \ {e} : (f \in active' <=> f \in active) /\ (f \in requested' <=> f \in requested)
  BY <1>1, <1>5, <1>6 DEF Types
<1>8. x'[e] = q
  BY <1>1, <1>5 DEF Types
<1>9. Flags(e, q)
  BY <1>1, <1>4 DEF ExecInv, Flags
<1>10. isWorkflowCancelled(RunOf(e))' = b /\ Flags(e, q)' = Flags(e, q)
  BY <1>2, <1>5 DEF isWorkflowCancelled, Flags, Cloud
<1>11. "validate" \notin Away /\ "validate" \notin Holding
  BY DEF Away, Holding
<1>12. Flags(e, x[e])'
  BY <1>4, <1>8, <1>9 DEF Flags
<1>13. ExecInv(e)'
  BY <1>4, <1>7, <1>8, <1>10, <1>11, <1>12 DEF ExecInv
<1> QED
  BY <1>1, <1>4, <1>5, <1>7, <1>11, <1>13, Moves DEF Types

LEMMA RefusesStep ==
  ASSUME Inv, NEW e \in Execs, AdapterRefuses(e)
  PROVE  Inv'
<1>1. Types /\ x[e] \in Locals /\ x[e].pc = "idle" /\ RunOf(e) \in Runs /\ ExecInv(e)
  BY WorkerAssumption DEF Inv, Types, AdapterRefuses, At, RunOf
<1>2. PICK lacking \in Request[e].lacks \ {{}} :
        x' = [x EXCEPT ![e] = [x[e] EXCEPT !.pc = "done", !.result = "ERROR",
                 !.error = firstLacking(Requirements[Request[e].tier], lacking)]]
  BY DEF AdapterRefuses, Set
<1>3. PICK err : err = firstLacking(Requirements[Request[e].tier], lacking)
  OBVIOUS
<1>4. err \in Errors
  BY <1>3 DEF Errors, ErrorsOf
<1>5. PICK q : q = [x[e] EXCEPT !.pc = "done", !.result = "ERROR", !.error = err]
  OBVIOUS
<1>6. q \in Locals /\ q.pc = "done"
  BY <1>1, <1>4, <1>5 DEF Locals, Pc
<1>7. /\ x' = [x EXCEPT ![e] = q] /\ active' = active /\ requested' = requested
      /\ tombstones' = tombstones /\ dir' = dir /\ written' = written
  BY <1>2, <1>3, <1>5 DEF AdapterRefuses
<1>8. x'[e] = q /\ e \notin active /\ e \notin requested /\ "done" \in Away /\ "done" \notin Holding
  BY <1>1, <1>7 DEF Types, ExecInv, Away, Holding
<1>9. ExecInv(e)'
  BY <1>6, <1>7, <1>8 DEF ExecInv, Flags
<1> QED
  BY <1>1, <1>6, <1>7, <1>8, <1>9, Moves DEF Types

LEMMA ValidateStep ==
  ASSUME Inv, NEW e \in Execs, Validate(e)
  PROVE  Inv'
<1>1. Types /\ x[e] \in Locals /\ x[e].pc = "validate" /\ RunOf(e) \in Runs /\ ExecInv(e)
  BY WorkerAssumption DEF Inv, Types, Validate, At, RunOf
<1>2. tombstones' = tombstones /\ written' = written
  BY DEF Validate
<1>3. ASSUME NEW err \in Errors,
             Leave(e, [x[e] EXCEPT !.error = err, !.result = "ERROR"]), dir' = dir
      PROVE  Inv'
  <2>1. [x[e] EXCEPT !.error = err, !.result = "ERROR"] \in Locals
    BY <1>1 DEF Locals
  <2> QED
    BY <1>1, <1>2, <1>3, <2>1, Leaves DEF Types
<1>4. ASSUME NEW answer \in Request[e].repository
      PROVE  registryError(answer) \in Errors
  BY DEF Errors, ErrorsOf
<1>5. CASE /\ dir' = [dir EXCEPT ![RunOf(e)] = IF @ = "none" THEN "dir" ELSE @]
           /\ Go(e, "ref")
           /\ UNCHANGED <<active, requested, spent>>
  <2>1. PICK q : q = [x[e] EXCEPT !.pc = "ref"]
    OBVIOUS
  <2>2. /\ q \in Locals /\ q.pc = "ref" /\ q.aborted = x[e].aborted /\ q.session = x[e].session
        /\ q.stopped = x[e].stopped /\ q.cancelled = x[e].cancelled
    BY <1>1, <2>1 DEF Locals, Pc, Provisioning
  <2>3. /\ x' = [x EXCEPT ![e] = q] /\ x'[e] = q /\ active' = active /\ requested' = requested
    BY <1>1, <1>5, <2>1 DEF Go, Set, Types
  <2>4. /\ dir' \in [Runs -> Levels] /\ \A w \in Runs \ {RunOf(e)} : dir'[w] = dir[w]
        /\ dir'[RunOf(e)] = dir[RunOf(e)] \/ dir[RunOf(e)] \notin Occupied
    BY <1>1, <1>5 DEF Types, Levels, Occupied
  <2>5. "ref" \notin Away /\ "ref" \notin Holding /\ "validate" \notin Away
    BY DEF Away, Holding
  <2>6. isWorkflowCancelled(RunOf(e))' = isWorkflowCancelled(RunOf(e))
    BY <1>2 DEF isWorkflowCancelled
  <2>7. Flags(e, x[e])'
    BY <1>1, <2>2, <2>3 DEF ExecInv, Flags
  <2>8. ExecInv(e)'
    BY <1>1, <2>2, <2>3, <2>5, <2>6, <2>7 DEF ExecInv
  <2> QED
    BY <1>1, <1>2, <2>2, <2>3, <2>4, <2>5, <2>8, Moves DEF Types
<1>6. "STARTUP" \in Errors
  BY DEF Errors
<1> QED
  BY <1>3, <1>4, <1>5, <1>6 DEF Validate

\* A git command that succeeds: it enters the workspace only when nobody holds it.
LEMMA Provisions ==
  ASSUME Inv, NEW e \in Execs, x[e].pc \in Provisioning,
         NEW next \in Provisioning \cup {"execute"}, NEW d \in Levels,
         dir' = [dir EXCEPT ![RunOf(e)] = d], Go(e, next),
         active' = active, requested' = requested, tombstones' = tombstones, written' = written,
         d = dir[RunOf(e)] \/ d \in Occupied \/ dir[RunOf(e)] \notin Occupied,
         next \in Holding => /\ d \in Occupied
                             /\ x[e].pc \in Holding \/ dir[RunOf(e)] \notin Occupied
  PROVE  Inv'
<1>1. Types /\ x[e] \in Locals /\ RunOf(e) \in Runs /\ ExecInv(e)
  BY WorkerAssumption DEF Inv, Types, RunOf
<1>2. next \in Pc /\ next \notin Away /\ x[e].pc \notin Away
  BY DEF Pc, Provisioning, Away
<1>3. PICK q : q = [x[e] EXCEPT !.pc = next]
  OBVIOUS
<1>4. /\ q \in Locals /\ q.pc = next /\ q.aborted = x[e].aborted /\ q.session = x[e].session
      /\ q.stopped = x[e].stopped /\ q.cancelled = x[e].cancelled
  BY <1>1, <1>2, <1>3 DEF Locals
<1>5. /\ x' = [x EXCEPT ![e] = q] /\ x'[e] = q
  BY <1>1, <1>3 DEF Go, Set, Types
<1>6. /\ dir' \in [Runs -> Levels] /\ \A w \in Runs \ {RunOf(e)} : dir'[w] = dir[w]
      /\ dir'[RunOf(e)] = d
  BY <1>1 DEF Types
<1>7. isWorkflowCancelled(RunOf(e))' = isWorkflowCancelled(RunOf(e))
  BY DEF isWorkflowCancelled
<1>8. ~x[e].session /\ (x[e].stopped => x[e].cancelled)
  BY <1>1 DEF ExecInv, Flags, Provisioning
<1>9. Flags(e, x[e])'
  BY <1>4, <1>5, <1>8 DEF Flags, Provisioning
<1>10. RunOf(e)' = RunOf(e)
  BY DEF RunOf
<1>11. ExecInv(e)'
  BY <1>1, <1>2, <1>4, <1>5, <1>6, <1>7, <1>9, <1>10 DEF ExecInv
<1> QED
  BY <1>1, <1>4, <1>5, <1>6, <1>11, Moves DEF Types

LEMMA ProvisionStep ==
  ASSUME Inv, NEW e \in Execs, Provision(e)
  PROVE  Inv'
<1>1. Types /\ x[e] \in Locals /\ RunOf(e) \in Runs /\ ExecInv(e)
  BY WorkerAssumption DEF Inv, Types, RunOf
<1>2. tombstones' = tombstones /\ written' = written
  BY DEF Provision
<1>3. PICK i \in DOMAIN GitSteps :
        /\ x[e].pc = GitSteps[i]
        /\ \/ /\ gitSucceeds(GitSteps[i], dir[RunOf(e)])
              /\ dir' = [dir EXCEPT ![RunOf(e)] = gitLeaves(GitSteps[i], @)]
              /\ Go(e, IF i < Len(GitSteps) THEN GitSteps[i + 1] ELSE "execute")
              /\ UNCHANGED <<active, requested>>
           \/ /\ Leave(e, [x[e] EXCEPT !.error = "WORKSPACE_PROVISION_FAILED", !.result = "ERROR"])
              /\ UNCHANGED dir
  BY DEF Provision, At
<1>4. CASE Leave(e, [x[e] EXCEPT !.error = "WORKSPACE_PROVISION_FAILED", !.result = "ERROR"])
           /\ UNCHANGED dir
  <2>1. [x[e] EXCEPT !.error = "WORKSPACE_PROVISION_FAILED", !.result = "ERROR"] \in Locals
    BY <1>1 DEF Locals, Errors
  <2> QED
    BY <1>1, <1>2, <1>4, <2>1, Leaves DEF Types
<1>5. CASE /\ gitSucceeds(GitSteps[i], dir[RunOf(e)])
           /\ dir' = [dir EXCEPT ![RunOf(e)] = gitLeaves(GitSteps[i], @)]
           /\ Go(e, IF i < Len(GitSteps) THEN GitSteps[i + 1] ELSE "execute")
           /\ UNCHANGED <<active, requested>>
  <2>1. PICK step : step = GitSteps[i]
    OBVIOUS
  <2>2. PICK next : next = IF i < Len(GitSteps) THEN GitSteps[i + 1] ELSE "execute"
    OBVIOUS
  <2>3. \/ step = "ref" /\ next = "init"
        \/ step = "init" /\ next = "remote"
        \/ step = "remote" /\ next = "fetch"
        \/ step = "fetch" /\ next = "checkout"
        \/ step = "checkout" /\ next = "execute"
    <3>1. DOMAIN GitSteps = 1..5 /\ Len(GitSteps) = 5
      BY DEF GitSteps
    <3>2. i = 1 \/ i = 2 \/ i = 3 \/ i = 4 \/ i = 5
      BY <3>1
    <3> QED
      BY <2>1, <2>2, <3>1, <3>2 DEF GitSteps
  <2>4. PICK d : d = gitLeaves(step, dir[RunOf(e)])
    OBVIOUS
  <2>5. dir[RunOf(e)] \in Levels
    BY <1>1 DEF Types
  <2>6. /\ d \in Levels
        /\ d = dir[RunOf(e)] \/ d \in Occupied \/ dir[RunOf(e)] \notin Occupied
        /\ next \in Holding => d \in Occupied /\ (step \in Holding \/ dir[RunOf(e)] \notin Occupied)
    <3>1. CASE step = "ref"
      BY <2>3, <2>4, <2>5, <3>1 DEF gitLeaves, Holding
    <3>2. CASE step = "init"
      BY <2>3, <2>4, <2>5, <3>2 DEF gitLeaves, Holding, Levels, Occupied
    <3>3. CASE step = "remote"
      <4>1. dir[RunOf(e)] = "git"
        BY <1>5, <2>1, <3>3 DEF gitSucceeds
      <4> QED
        BY <2>4, <3>3, <4>1 DEF gitLeaves, Levels, Occupied
    <3>4. CASE step = "fetch"
      <4>1. dir[RunOf(e)] \in Occupied
        BY <1>5, <2>1, <3>4 DEF gitSucceeds, Occupied
      <4> QED
        BY <2>4, <2>5, <3>4, <4>1 DEF gitLeaves, Holding
    <3>5. CASE step = "checkout"
      BY <2>4, <3>5 DEF gitLeaves, Levels, Occupied, Holding
    <3> QED
      BY <2>3, <3>1, <3>2, <3>3, <3>4, <3>5
  <2>7. next \in Provisioning \cup {"execute"} /\ step \in Provisioning
    BY <2>3 DEF Provisioning
  <2>8. dir' = [dir EXCEPT ![RunOf(e)] = d]
    BY <1>1, <1>5, <2>1, <2>4 DEF Types
  <2>9. Go(e, next) /\ x[e].pc = step
    BY <1>3, <1>5, <2>1, <2>2
  <2> QED
    BY <1>2, <1>5, <2>6, <2>7, <2>8, <2>9, Provisions
<1> QED
  BY <1>3, <1>4, <1>5

-----------------------------------------------------------------------------
(* The sandbox and the result.                                             *)

LEMMA ExecuteStep ==
  ASSUME Inv, NEW e \in Execs, ExecuteLocal(e) \/ ExecuteCloud(e)
  PROVE  Inv'
<1>1. Types /\ x[e] \in Locals /\ x[e].pc = "execute" /\ ExecInv(e)
  BY DEF Inv, Types, ExecuteLocal, ExecuteCloud, At
<1>2. /\ active' = active /\ requested' = requested /\ tombstones' = tombstones /\ dir' = dir
      /\ written' \in [Runs -> SUBSET Execs]
  BY <1>1 DEF ExecuteLocal, ExecuteCloud, Types
<1>3. ~x[e].session /\ (x[e].stopped => x[e].cancelled)
  BY <1>1 DEF ExecInv, Flags
<1>4. /\ x[e].pc \in Holding /\ x[e].pc \notin Away
      /\ {"capture", "running", "cleanup", "teardown"} \subseteq Pc \ Away
  BY <1>1 DEF Holding, Away, Pc
<1>5. CASE Set(e, notStarted(x[e]))
  <2>1. PICK q : q = [x[e] EXCEPT !.pc = "capture", !.cancelled = TRUE, !.stopped = TRUE]
    OBVIOUS
  <2>2. /\ q \in Locals /\ q.pc = "capture" /\ q.cancelled = TRUE /\ q.session = x[e].session
        /\ q.aborted = x[e].aborted
    BY <1>1, <1>4, <2>1 DEF Locals
  <2>3. x' = [x EXCEPT ![e] = q]
    BY <1>5, <2>1 DEF Set, notStarted
  <2>4. Flags(e, q)
    BY <1>3, <2>2 DEF Flags
  <2> QED
    BY <1>2, <1>4, <2>2, <2>3, <2>4, GoesOn
<1>6. ASSUME NEW err \in Errors, ~x[e].aborted,
             Set(e, [x[e] EXCEPT !.error = err, !.pc = IF err = NONE THEN "running" ELSE "cleanup"])
      PROVE  Inv'
  <2>1. PICK p \in {"running", "cleanup"} : p = IF err = NONE THEN "running" ELSE "cleanup"
    OBVIOUS
  <2>2. PICK q : q = [x[e] EXCEPT !.error = err, !.pc = p]
    OBVIOUS
  <2>3. /\ q \in Locals /\ q.pc = p /\ q.cancelled = x[e].cancelled /\ q.session = x[e].session
        /\ q.aborted = x[e].aborted /\ q.stopped = x[e].stopped
    BY <1>1, <1>4, <2>1, <2>2 DEF Locals
  <2>4. x' = [x EXCEPT ![e] = q]
    BY <1>6, <2>1, <2>2 DEF Set
  <2>5. Flags(e, q)
    BY <1>3, <1>6, <2>1, <2>3 DEF Flags
  <2> QED
    BY <1>2, <1>4, <2>1, <2>3, <2>4, <2>5, GoesOn
<1>7. ASSUME NEW err \in Errors, ~x[e].aborted, Cloud(e),
             Set(e, [x[e] EXCEPT !.session = TRUE, !.error = err,
                                 !.pc = IF err = NONE THEN "running" ELSE "teardown"])
      PROVE  Inv'
  <2>1. PICK p \in {"running", "teardown"} : p = IF err = NONE THEN "running" ELSE "teardown"
    OBVIOUS
  <2>2. PICK q : q = [x[e] EXCEPT !.session = TRUE, !.error = err, !.pc = p]
    OBVIOUS
  <2>3. /\ q \in Locals /\ q.pc = p /\ q.cancelled = x[e].cancelled
        /\ q.aborted = x[e].aborted /\ q.stopped = x[e].stopped
    BY <1>1, <1>4, <2>1, <2>2 DEF Locals
  <2>4. x' = [x EXCEPT ![e] = q]
    BY <1>7, <2>1, <2>2 DEF Set
  <2>5. Flags(e, q)
    BY <1>3, <1>7, <2>1, <2>3 DEF Flags
  <2> QED
    BY <1>2, <1>4, <2>1, <2>3, <2>4, <2>5, GoesOn
<1>8. CASE ExecuteLocal(e) /\ ~x[e].aborted
  <2>1. PICK flaws \in Request[e].launch :
          Set(e, [x[e] EXCEPT !.error = buildSandboxEnv(flaws),
                              !.pc = IF buildSandboxEnv(flaws) = NONE THEN "running" ELSE "cleanup"])
    BY <1>8 DEF ExecuteLocal
  <2>2. buildSandboxEnv(flaws) \in Errors
    BY DEF Errors, ErrorsOf
  <2> QED
    BY <1>6, <1>8, <2>1, <2>2
<1>9. CASE ExecuteCloud(e) /\ ~x[e].aborted
  <2>1. PICK flaws \in Request[e].launch :
          Set(e, [x[e] EXCEPT !.session = TRUE, !.error = launchError(flaws),
                              !.pc = IF launchError(flaws) = NONE THEN "running" ELSE "teardown"])
    BY <1>9 DEF ExecuteCloud, launchError
  <2>2. launchError(flaws) \in Errors
    BY DEF Errors, ErrorsOf
  <2>3. Cloud(e)
    BY <1>9 DEF ExecuteCloud
  <2> QED
    BY <1>7, <1>9, <2>1, <2>2, <2>3
<1> QED
  BY <1>5, <1>8, <1>9 DEF ExecuteLocal, ExecuteCloud

LEMMA WritesStep ==
  ASSUME Inv, NEW e \in Execs, AgentWrites(e)
  PROVE  Inv'
<1>1. Types /\ RunOf(e) \in Runs
  BY WorkerAssumption DEF Inv, RunOf
<1>2. written' \in [Runs -> SUBSET Execs]
  BY <1>1 DEF AgentWrites, Types
<1>3. /\ active' = active /\ requested' = requested /\ tombstones' = tombstones /\ dir' = dir
      /\ x' = x
  BY DEF AgentWrites
<1> QED
  BY <1>1, <1>2, <1>3 DEF Inv, Types, ExecInv, Flags, isWorkflowCancelled, WorkspaceExclusive, Holds

\* The timers and signals of a running agent.
LEMMA TimerStep ==
  ASSUME Inv, NEW e \in Execs, Timeout(e) \/ Kill(e)
  PROVE  Inv'
<1>1. Types /\ x[e] \in Locals /\ x[e].pc = "running" /\ ExecInv(e)
  BY DEF Inv, Types, Timeout, Kill, graceOver, At
<1>2. /\ active' = active /\ requested' = requested /\ tombstones' = tombstones /\ dir' = dir
      /\ written' \in [Runs -> SUBSET Execs]
  BY <1>1 DEF Timeout, Kill, Types
<1>3. x[e].pc \in Holding /\ x[e].pc \notin Away
  BY <1>1 DEF Holding, Away
<1>4. PICK q : x' = [x EXCEPT ![e] = q] /\ \/ q = [x[e] EXCEPT !.signal = "KILL"]
                                           \/ q = [x[e] EXCEPT !.timedOut = TRUE]
                                           \/ q = [x[e] EXCEPT !.timedOut = TRUE, !.signal = "TERM"]
  <2>1. CASE Kill(e)
    BY <2>1 DEF Kill, Set
  <2>2. CASE Timeout(e)
    <3>1. x' = [x EXCEPT ![e] = [x[e] EXCEPT !.timedOut = TRUE,
                                             !.signal = IF x[e].signal = NONE THEN "TERM" ELSE x[e].signal]]
      BY <1>1, <2>2 DEF Timeout, Set, Locals
    <3>2. CASE x[e].signal = NONE
      BY <3>1, <3>2
    <3>3. CASE x[e].signal # NONE
      <4>1. [x[e] EXCEPT !.timedOut = TRUE, !.signal = x[e].signal] = [x[e] EXCEPT !.timedOut = TRUE]
        BY <1>1 DEF Locals
      <4> QED
        BY <3>1, <3>3, <4>1
    <3> QED
      BY <3>2, <3>3
  <2> QED
    BY <2>1, <2>2
<1>5. /\ q \in Locals /\ q.pc = "running" /\ q.cancelled = x[e].cancelled
      /\ q.session = x[e].session /\ q.aborted = x[e].aborted /\ q.stopped = x[e].stopped
  BY <1>1, <1>4 DEF Locals
<1>6. Flags(e, q)
  BY <1>1, <1>5 DEF ExecInv, Flags
<1> QED
  BY <1>1, <1>2, <1>3, <1>4, <1>5, <1>6, GoesOn

LEMMA CloseStep ==
  ASSUME Inv, NEW e \in Execs, CloseLocal(e) \/ CloseCloud(e)
  PROVE  Inv'
<1>1. Types /\ x[e] \in Locals /\ x[e].pc = "running" /\ ExecInv(e)
  BY DEF Inv, Types, CloseLocal, CloseCloud, At
<1>2. /\ active' = active /\ requested' = requested /\ tombstones' = tombstones /\ dir' = dir
      /\ written' \in [Runs -> SUBSET Execs]
  BY <1>1 DEF CloseLocal, CloseCloud, Types
<1>3. /\ x[e].pc \in Holding /\ x[e].pc \notin Away
      /\ {"capture", "teardown"} \subseteq Pc \ Away
  BY <1>1 DEF Holding, Away, Pc
<1>4. CASE CloseLocal(e)
  <2>1. PICK code \in {"0", "1", NONE} :
          x' = [x EXCEPT ![e] = [x[e] EXCEPT !.exit = code, !.stopped = x[e].aborted, !.pc = "capture"]]
    BY <1>4 DEF CloseLocal, Set
  <2>2. PICK q : q = [x[e] EXCEPT !.exit = code, !.stopped = x[e].aborted, !.pc = "capture"]
    OBVIOUS
  <2>3. /\ q \in Locals /\ q.pc = "capture" /\ q.cancelled = x[e].cancelled
        /\ q.session = x[e].session /\ q.aborted = x[e].aborted /\ q.stopped = x[e].aborted
    BY <1>1, <1>3, <2>2 DEF Locals
  <2>4. ~x[e].session
    BY <1>1, <1>4 DEF ExecInv, Flags, CloseLocal
  <2>5. Flags(e, q)
    BY <1>1, <2>3, <2>4 DEF ExecInv, Flags
  <2> QED
    BY <1>2, <1>3, <2>1, <2>2, <2>3, <2>5, GoesOn
<1>5. CASE CloseCloud(e)
  <2>1. PICK code \in {"0", "1", NONE}, lines \in SUBSET {"expected", "another"} :
          x' = [x EXCEPT ![e] = [x[e] EXCEPT !.exit = code, !.identity = evaluateProviderIdentity(lines),
                                             !.stopped = x[e].aborted, !.pc = "teardown"]]
    BY <1>5 DEF CloseCloud, Set
  <2>2. PICK b \in BOOLEAN : b = evaluateProviderIdentity(lines)
    BY DEF evaluateProviderIdentity
  <2>3. PICK q : q = [x[e] EXCEPT !.exit = code, !.identity = b,
                                  !.stopped = x[e].aborted, !.pc = "teardown"]
    OBVIOUS
  <2>4. /\ q \in Locals /\ q.pc = "teardown" /\ q.cancelled = x[e].cancelled
        /\ q.aborted = x[e].aborted /\ q.stopped = x[e].aborted
    BY <1>1, <1>3, <2>3 DEF Locals
  <2>5. Flags(e, q)
    BY <1>1, <2>4 DEF ExecInv, Flags
  <2> QED
    BY <1>2, <1>3, <2>1, <2>2, <2>3, <2>4, <2>5, GoesOn
<1> QED
  BY <1>4, <1>5

LEMMA TeardownStep ==
  ASSUME Inv, NEW e \in Execs, TeardownSession(e)
  PROVE  Inv'
<1>1. Types /\ x[e] \in Locals /\ x[e].pc = "teardown" /\ ExecInv(e)
  BY DEF Inv, Types, TeardownSession, At
<1>2. /\ active' = active /\ requested' = requested /\ tombstones' = tombstones /\ dir' = dir
      /\ written' \in [Runs -> SUBSET Execs]
  BY <1>1 DEF TeardownSession, Types
<1>3. /\ x[e].pc \in Holding /\ x[e].pc \notin Away
      /\ {"capture", "cleanup"} \subseteq Pc \ Away
  BY <1>1 DEF Holding, Away, Pc
<1>4. CASE Set(e, [x[e] EXCEPT !.session = FALSE,
                               !.pc = IF x[e].error = NONE THEN "capture" ELSE "cleanup"])
  <2>1. PICK p \in {"capture", "cleanup"} : p = IF x[e].error = NONE THEN "capture" ELSE "cleanup"
    OBVIOUS
  <2>2. PICK q : q = [x[e] EXCEPT !.session = FALSE, !.pc = p]
    OBVIOUS
  <2>3. /\ q \in Locals /\ q.pc = p /\ q.cancelled = x[e].cancelled /\ q.session = FALSE
        /\ q.aborted = x[e].aborted /\ q.stopped = x[e].stopped
    BY <1>1, <1>3, <2>1, <2>2 DEF Locals
  <2>4. x' = [x EXCEPT ![e] = q]
    BY <1>4, <2>1, <2>2 DEF Set
  <2>5. Flags(e, q)
    BY <1>1, <2>1, <2>3 DEF ExecInv, Flags
  <2> QED
    BY <1>2, <1>3, <2>1, <2>3, <2>4, <2>5, GoesOn
<1>5. CASE ~Set(e, [x[e] EXCEPT !.session = FALSE,
                                !.pc = IF x[e].error = NONE THEN "capture" ELSE "cleanup"])
  <2>1. PICK q : q = [x[e] EXCEPT !.error = "CLOUD_SESSION_CLEANUP_FAILED", !.pc = "cleanup"]
    OBVIOUS
  <2>2. x' = [x EXCEPT ![e] = q]
    BY <1>5, <2>1, WorkerAssumption DEF TeardownSession, cleanupFailure, Set
  <2>3. /\ q \in Locals /\ q.pc = "cleanup" /\ q.cancelled = x[e].cancelled
        /\ q.error = "CLOUD_SESSION_CLEANUP_FAILED"
        /\ q.aborted = x[e].aborted /\ q.stopped = x[e].stopped
    BY <1>1, <1>3, <2>1 DEF Locals, Errors
  <2>4. Flags(e, q)
    BY <1>1, <2>3, WorkerAssumption DEF ExecInv, Flags
  <2> QED
    BY <1>2, <1>3, <2>2, <2>3, <2>4, GoesOn
<1> QED
  BY <1>4, <1>5

LEMMA CaptureStep ==
  ASSUME Inv, NEW e \in Execs, Capture(e)
  PROVE  Inv'
<1>1. Types /\ x[e] \in Locals /\ x[e].pc = "capture" /\ ExecInv(e) /\ RunOf(e) \in Runs
  BY WorkerAssumption DEF Inv, Types, Capture, At, RunOf
<1>2. /\ active' = active /\ requested' = requested /\ tombstones' = tombstones /\ dir' = dir
      /\ written' \in [Runs -> SUBSET Execs]
  BY <1>1 DEF Capture, Types
<1>3. /\ x[e].pc \in Holding /\ x[e].pc \notin Away /\ "cleanup" \in Pc \ Away
  BY <1>1 DEF Holding, Away, Pc
<1>4. written[RunOf(e)] \in SUBSET Execs
  BY <1>1 DEF Types
<1>5. PICK q : x' = [x EXCEPT ![e] = q] /\
                 \/ q = [x[e] EXCEPT !.pc = "cleanup", !.changes = written[RunOf(e)]]
                 \/ q = [x[e] EXCEPT !.pc = "cleanup", !.error = "CHANGESET_CAPTURE_FAILED"]
  BY DEF Capture, Set
<1>6. /\ q \in Locals /\ q.pc = "cleanup" /\ q.cancelled = x[e].cancelled
      /\ q.session = x[e].session /\ q.aborted = x[e].aborted /\ q.stopped = x[e].stopped
  <2>1. PICK changes \in SUBSET Execs : changes = written[RunOf(e)]
    BY <1>4
  <2>2. CASE q = [x[e] EXCEPT !.pc = "cleanup", !.changes = changes]
    BY <1>1, <1>3, <2>2 DEF Locals
  <2>3. CASE q = [x[e] EXCEPT !.pc = "cleanup", !.error = "CHANGESET_CAPTURE_FAILED"]
    BY <1>1, <1>3, <2>3 DEF Locals, Errors
  <2> QED
    BY <1>5, <2>1, <2>2, <2>3
<1>7. Flags(e, q)
  BY <1>1, <1>6 DEF ExecInv, Flags
<1> QED
  BY <1>2, <1>3, <1>5, <1>6, <1>7, GoesOn

LEMMA CleanupStep ==
  ASSUME Inv, NEW e \in Execs, Cleanup(e)
  PROVE  Inv'
<1>1. Types /\ x[e] \in Locals /\ x[e].pc = "cleanup" /\ RunOf(e) \in Runs
  BY WorkerAssumption DEF Inv, Types, Cleanup, At, RunOf
<1>2. tombstones' = tombstones /\ x[e].pc \in Holding
  BY <1>1 DEF Cleanup, Holding
<1>3. PICK r : r = IF x[e].error = NONE THEN mapWorkerResult(e) ELSE "ERROR"
  OBVIOUS
<1>4. r \in {"ERROR", "CANCELLED", "TIMED_OUT", "SUCCEEDED", "FAILED"}
  BY <1>3 DEF mapWorkerResult, mapLocalResult, mapCloudResult
<1>5. CASE /\ dir' = [dir EXCEPT ![RunOf(e)] = "none"]
           /\ written' = [written EXCEPT ![RunOf(e)] = {}]
           /\ Leave(e, [x[e] EXCEPT !.result = r])
  <2>1. [x[e] EXCEPT !.result = r] \in Locals
    BY <1>1, <1>4 DEF Locals
  <2>2. written' \in [Runs -> SUBSET Execs] /\ "none" \in Levels
    BY <1>1, <1>5 DEF Types, Levels
  <2> QED
    BY <1>2, <1>5, <2>1, <2>2, Leaves
<1>6. CASE /\ Leave(e, [x[e] EXCEPT !.error = "CLEANUP_FAILED", !.result = "ERROR"])
           /\ \E left \in {dir[RunOf(e)], "dir"} : dir' = [dir EXCEPT ![RunOf(e)] = left]
           /\ written' = written
  <2>1. [x[e] EXCEPT !.error = "CLEANUP_FAILED", !.result = "ERROR"] \in Locals
    BY <1>1 DEF Locals, Errors
  <2>2. {dir[RunOf(e)], "dir"} \subseteq Levels
    BY <1>1 DEF Types, Levels
  <2> QED
    BY <1>1, <1>2, <1>6, <2>1, <2>2, Leaves DEF Types
<1> QED
  BY <1>3, <1>5, <1>6 DEF Cleanup

LEMMA OrphanStep ==
  ASSUME Inv, NEW e \in Execs, OrphanEnds(e)
  PROVE  Inv'
<1>1. Types /\ x[e] \in Locals /\ x[e].pc = "orphan" /\ ExecInv(e) /\ RunOf(e) \in Runs
  BY WorkerAssumption DEF Inv, Types, OrphanEnds, At, RunOf
<1>2. PICK q : q = [x[e] EXCEPT !.pc = "done"]
  OBVIOUS
<1>3. q \in Locals /\ q.pc = "done"
  BY <1>1, <1>2 DEF Locals, Pc
<1>4. /\ x' = [x EXCEPT ![e] = q] /\ active' = active /\ requested' = requested
      /\ tombstones' = tombstones /\ dir' = dir /\ written' = written
  BY <1>2 DEF OrphanEnds, Go, Set
<1>5. x'[e] = q /\ e \notin active /\ e \notin requested /\ "done" \in Away /\ "done" \notin Holding
  BY <1>1, <1>4 DEF Types, ExecInv, Away, Holding
<1>6. ExecInv(e)'
  BY <1>3, <1>4, <1>5 DEF ExecInv, Flags
<1> QED
  BY <1>1, <1>3, <1>4, <1>5, <1>6, Moves DEF Types

\* cancelWorkflow signals every execution of the run that is registered.
LEMMA CancelStep ==
  ASSUME Inv, NEW w \in Runs, cancelWorkflow(w)
  PROVE  Inv'
<1> DEFINE matches == {e \in active \ requested : RunOf(e) = w}
<1>1. Types
  BY DEF Inv
<1>2. /\ tombstones' = enforceTombstoneBound(Append(deleteEntry(tombstones, w), w))
      /\ requested' = requested \cup matches /\ active' = active /\ dir' = dir /\ written' = written
      /\ x' = [e \in Execs |-> IF e \in matches THEN abort(x[e]) ELSE x[e]]
  BY DEF cancelWorkflow
<1>3. /\ tombstones' \in Seq(Runs) /\ Len(tombstones') \leq MAX_CANCELLATION_TOMBSTONES
      /\ \A i \in DOMAIN tombstones' : tombstones'[i] = w \/ \E j \in DOMAIN tombstones : tombstones'[i] = tombstones[j]
  BY <1>1, <1>2, TombstonesOf DEF Types
<1>4. \A r \in Runs : isWorkflowCancelled(r)' => r = w \/ isWorkflowCancelled(r)
  BY <1>3 DEF isWorkflowCancelled
<1>5. ASSUME NEW l \in Locals
      PROVE  /\ abort(l) \in Locals /\ abort(l).pc = l.pc /\ abort(l).aborted = TRUE
             /\ abort(l).session = l.session /\ abort(l).stopped = l.stopped /\ abort(l).error = l.error
             /\ l.cancelled => abort(l).cancelled
             /\ l.pc = "running" => abort(l).cancelled
  <2>1. PICK s \in {NONE, "TERM", "KILL"} : s = IF l.signal = NONE THEN "TERM" ELSE l.signal
    BY DEF Locals
  <2>2. CASE l.pc = "running" /\ ~l.cancelled
    <3>1. abort(l) = [l EXCEPT !.aborted = TRUE, !.cancelled = TRUE, !.signal = s]
      BY <2>1, <2>2 DEF abort, Locals
    <3> QED
      BY <3>1 DEF Locals
  <2>3. CASE ~(l.pc = "running" /\ ~l.cancelled)
    <3>1. abort(l) = [l EXCEPT !.aborted = TRUE]
      BY <2>3 DEF abort
    <3> QED
      BY <2>3, <3>1 DEF Locals
  <2> QED
    BY <2>2, <2>3
<1> HIDE DEF matches
<1>6. ASSUME NEW e \in Execs
      PROVE  /\ x'[e] \in Locals /\ x'[e].pc = x[e].pc /\ x'[e].session = x[e].session
             /\ x'[e].stopped = x[e].stopped /\ x'[e].error = x[e].error
             /\ x[e].cancelled => x'[e].cancelled
             /\ x[e].aborted => x'[e].aborted
             /\ e \in matches => x'[e].aborted
             /\ x'[e] = x[e] \/ (x[e].pc = "running" => x'[e].cancelled)
  <2>1. x[e] \in Locals
    BY <1>1 DEF Types
  <2>2. CASE e \in matches
    <3>1. x'[e] = abort(x[e])
      BY <1>2, <2>2
    <3> QED
      BY <1>5, <2>1, <3>1
  <2>3. CASE e \notin matches
    <3>1. x'[e] = x[e]
      BY <1>2, <2>3
    <3> QED
      BY <2>1, <2>3, <3>1
  <2> QED
    BY <2>2, <2>3
<1>7. requested' \subseteq active' /\ matches \subseteq active
  BY <1>1, <1>2 DEF Types, matches
<1>8. x' \in [Execs -> Locals]
  BY <1>2, <1>6
<1>9. Types'
  BY <1>1, <1>2, <1>3, <1>7, <1>8 DEF Types
<1>10. ASSUME NEW e \in Execs
       PROVE  ExecInv(e)'
  <2>1. ExecInv(e) /\ RunOf(e) \in Runs /\ RunOf(e)' = RunOf(e)
    BY WorkerAssumption DEF Inv, RunOf
  <2>2. Flags(e, x[e])'
    BY <1>6, <2>1 DEF ExecInv, Flags
  <2>3. e \in active' /\ isWorkflowCancelled(RunOf(e))' => e \in requested'
    <3>1. e \in active /\ RunOf(e) = w => e \in requested \cup matches
      BY DEF matches
    <3> QED
      BY <1>2, <1>4, <2>1, <3>1 DEF ExecInv
  <2>4. e \in requested' => x'[e].aborted
    BY <1>2, <1>6, <2>1 DEF ExecInv
  <2> QED
    BY <1>2, <1>6, <2>1, <2>2, <2>3, <2>4 DEF ExecInv
<1>11. WorkspaceExclusive'
  BY <1>6 DEF Inv, WorkspaceExclusive, Holds, RunOf
<1> QED
  BY <1>9, <1>10, <1>11 DEF Inv

LEMMA ExpiresStep ==
  ASSUME Inv, TombstoneExpires
  PROVE  Inv'
<1>1. Types /\ tombstones # <<>> /\ tombstones' = Tail(tombstones)
  BY DEF Inv, TombstoneExpires
<1>2. /\ active' = active /\ requested' = requested /\ dir' = dir /\ written' = written /\ x' = x
  BY DEF TombstoneExpires
<1>3. /\ tombstones' \in Seq(Runs) /\ Len(tombstones') = Len(tombstones) - 1
      /\ \A i \in 1..Len(tombstones') : tombstones'[i] = tombstones[i + 1]
  BY <1>1 DEF Types
<1>4. /\ Len(tombstones') \leq MAX_CANCELLATION_TOMBSTONES
      /\ \A i \in 1..Len(tombstones') : i + 1 \in 1..Len(tombstones)
  BY <1>1, <1>3, WorkerAssumption DEF Types
<1>5. DOMAIN tombstones = 1..Len(tombstones) /\ DOMAIN tombstones' = 1..Len(tombstones')
  BY <1>1, <1>3 DEF Types
<1>6. \A r : isWorkflowCancelled(r)' => isWorkflowCancelled(r)
  BY <1>3, <1>4, <1>5 DEF isWorkflowCancelled
<1>7. Types'
  BY <1>1, <1>2, <1>3, <1>4 DEF Types
<1>8. \A e \in Execs : ExecInv(e)'
  BY <1>2, <1>6 DEF Inv, ExecInv, Flags, RunOf
<1>9. WorkspaceExclusive'
  BY <1>2 DEF Inv, WorkspaceExclusive, Holds
<1> QED
  BY <1>7, <1>8, <1>9 DEF Inv

\* The process dies: nothing is registered, and nobody holds a workspace.
LEMMA CrashStep ==
  ASSUME Inv, Crash
  PROVE  Inv'
<1>1. Types
  BY DEF Inv
<1>2. /\ active' = {} /\ requested' = {} /\ tombstones' = <<>> /\ dir' = dir /\ written' = written
  BY DEF Crash
<1>3. ASSUME NEW e \in Execs
      PROVE  /\ x'[e] \in Locals /\ x'[e].pc \in Away
             /\ x'[e].stopped = x[e].stopped /\ x'[e].cancelled = x[e].cancelled
             /\ x'[e].pc # "done" => x[e].pc # "done"
  <2>1. x[e] \in Locals
    BY <1>1 DEF Types
  <2>2. CASE x[e].pc \in {"idle", "done", "orphan"}
    BY <2>1, <2>2 DEF Crash, Away
  <2>3. CASE x[e].pc \notin {"idle", "done", "orphan"}
    <3>1. PICK p \in {"orphan", "done"} : p = IF x[e].pc = "running" /\ Cloud(e) THEN "orphan" ELSE "done"
      OBVIOUS
    <3>2. x'[e] = [x[e] EXCEPT !.pc = p, !.result = "LOST"]
      BY <2>3, <3>1 DEF Crash
    <3> QED
      BY <2>1, <2>3, <3>1, <3>2 DEF Locals, Pc, Away
  <2> QED
    BY <2>2, <2>3
<1>4. x' \in [Execs -> Locals]
  BY <1>3 DEF Crash
<1>5. 0 \leq MAX_CANCELLATION_TOMBSTONES /\ <<>> \in Seq(Runs) /\ Len(<<>>) = 0
  BY WorkerAssumption
<1>6. Types'
  BY <1>1, <1>2, <1>4, <1>5 DEF Types
<1>7. Away \cap Holding = {} /\ \A e \in Execs : ~Holds(e)'
  BY <1>3 DEF Away, Holding, Holds
<1>8. ASSUME NEW e \in Execs PROVE ExecInv(e)'
  <2>1. ExecInv(e)
    BY DEF Inv
  <2>2. x'[e].session => x'[e].pc \in {"done", "orphan"}
    <3>1. CASE x[e].pc = "idle"
      <4>1. x'[e] = x[e]
        BY <3>1 DEF Crash
      <4> QED
        BY <2>1, <3>1, <4>1 DEF ExecInv, Flags
    <3>2. CASE x[e].pc # "idle"
      <4>1. x'[e].pc # "idle"
        <5>1. x[e] \in Locals
          BY <1>1 DEF Types
        <5> QED
          BY <3>2, <5>1 DEF Crash, Locals
      <4> QED
        BY <1>3, <4>1 DEF Away
    <3> QED
      BY <3>1, <3>2
  <2>3. Flags(e, x[e])'
    BY <1>3, <2>1, <2>2 DEF ExecInv, Flags, Away
  <2> QED
    BY <1>2, <1>3, <1>7, <2>3 DEF ExecInv
<1>9. WorkspaceExclusive'
  BY <1>7 DEF WorkspaceExclusive
<1> QED
  BY <1>6, <1>8, <1>9 DEF Inv

-----------------------------------------------------------------------------
(* Theorems.                                                               *)

\* Nothing is registered at first, and no workspace is there.
LEMMA InitInv == Init => Inv
<1> SUFFICES ASSUME Init PROVE Inv
  OBVIOUS
<1>1. NewExecution \in Locals
  BY DEF NewExecution, Locals, Pc, Errors
<1>2. 0 \leq MAX_CANCELLATION_TOMBSTONES /\ <<>> \in Seq(Runs) /\ Len(<<>>) = 0
  BY WorkerAssumption
<1>3. Types
  BY <1>1, <1>2 DEF Init, Types, Levels
<1>4. \A e \in Execs : x[e] = NewExecution
  BY DEF Init
<1>5. \A e \in Execs : ExecInv(e)
  BY <1>4 DEF Init, ExecInv, Flags, NewExecution, Away, Holding
<1>6. WorkspaceExclusive
  BY <1>4 DEF WorkspaceExclusive, Holds, NewExecution
<1> QED
  BY <1>3, <1>5, <1>6 DEF Inv

\* Every step of an execution, of its agent, of cancellation and of the process keeps
\* the invariant.
LEMMA NextInv == Inv /\ [Next]_vars => Inv'
<1> SUFFICES ASSUME Inv, [Next]_vars PROVE Inv'
  OBVIOUS
<1>1. ASSUME NEW e \in Execs, Advance(e) PROVE Inv'
  BY <1>1, ValidateStep, ProvisionStep, ExecuteStep, TeardownStep, CaptureStep, CleanupStep DEF Advance
<1>2. CASE UNCHANGED vars
  BY <1>2 DEF vars, Inv, Types, ExecInv, Flags, isWorkflowCancelled, WorkspaceExclusive, Holds
<1> QED
  BY <1>1, <1>2, RegisterStep, RefusesStep, WritesStep, TimerStep, CloseStep, OrphanStep, CancelStep,
     ExpiresStep, CrashStep DEF Next

\* The inductive invariant of the worker holds throughout.
LEMMA Invariance == Spec => []Inv
BY InitInv, NextInv, PTL DEF Spec

\* Registry, workspaces and executions keep their types, and an execution is
\* registered exactly while its call is under way.
THEOREM TypeCorrect == Spec => []TypeOK
<1>1. Inv => TypeOK
  BY DEF Inv, Types, ExecInv, Locals, Away, TypeOK
<1> QED
  BY <1>1, Invariance, PTL

\* However register and cancelWorkflow interleave, and whichever tombstones were
\* dropped for age or number, a registered execution of a run that has one was
\* told to stop.
THEOREM CancellationReaches == Spec => []CancelledIsSignalled
<1>1. Inv => CancelledIsSignalled
  BY DEF Inv, Types, ExecInv, CancelledIsSignalled
<1> QED
  BY <1>1, Invariance, PTL

\* However many executions share a run, and whatever git, the file system or the
\* process does, one at a time is past `git remote add` in its workspace.
THEOREM OneInTheWorkspace == Spec => []WorkspaceExclusive
<1>1. Inv => WorkspaceExclusive
  BY DEF Inv
<1> QED
  BY <1>1, Invariance, PTL

\* A result that is not an error comes from the cleanup of its workspace.
LEMMA ResultOfCleanup ==
  ASSUME Inv, Next, NEW e \in Execs, x[e].result = NONE, x'[e].result \notin {NONE, "ERROR", "LOST"}
  PROVE  /\ x[e].pc = "cleanup" /\ x[e].error = NONE
         /\ dir' = [dir EXCEPT ![RunOf(e)] = "none"]
         /\ Set(e, Returned([x[e] EXCEPT !.result = mapWorkerResult(e)]))
<1>1. Types /\ x[e] \in Locals
  BY DEF Inv, Types
<1>2. ASSUME NEW f \in Execs, NEW q, Set(f, q), f = e => q.result \in {x[f].result, "ERROR", "LOST"}
      PROVE  FALSE
  BY <1>1, <1>2 DEF Set, Types
<1>3. ASSUME NEW f \in Execs, NEW l, Leave(f, l), f = e => l.result \in {x[f].result, "ERROR", "LOST"}
      PROVE  FALSE
  <2>1. Returned(l).result = l.result
    BY DEF Returned, NewExecution
  <2> QED
    BY <1>2, <1>3, <2>1 DEF Leave
<1>4. \A f \in Execs : x[f] \in Locals
  BY <1>1 DEF Types
<1>5. ASSUME NEW f \in Execs, Register(f) \/ AdapterRefuses(f) \/ Timeout(f) \/ Kill(f) \/ OrphanEnds(f)
                              \/ CloseLocal(f) \/ CloseCloud(f)
      PROVE  FALSE
  <2>1. CASE Register(f)
    <3>1. PICK q : Set(f, q) /\ q = [x[f] EXCEPT !.pc = "validate", !.aborted = signalledAtOnce(RunOf(f))]
      BY <2>1 DEF Register
    <3> QED
      BY <1>2, <1>4, <3>1 DEF Locals
  <2>2. CASE AdapterRefuses(f)
    <3>1. PICK err, q : Set(f, q) /\ q = [x[f] EXCEPT !.pc = "done", !.result = "ERROR", !.error = err]
      BY <2>2 DEF AdapterRefuses
    <3> QED
      BY <1>2, <1>4, <3>1 DEF Locals
  <2>3. CASE Timeout(f)
    <3>1. PICK s, q : Set(f, q) /\ q = [x[f] EXCEPT !.timedOut = TRUE, !.signal = s]
      BY <1>4, <2>3 DEF Timeout, Locals
    <3> QED
      BY <1>2, <1>4, <3>1 DEF Locals
  <2>4. CASE Kill(f)
    <3>1. PICK q : Set(f, q) /\ q = [x[f] EXCEPT !.signal = "KILL"]
      BY <2>4 DEF Kill
    <3> QED
      BY <1>2, <1>4, <3>1 DEF Locals
  <2>5. CASE OrphanEnds(f)
    <3>1. PICK q : Set(f, q) /\ q = [x[f] EXCEPT !.pc = "done"]
      BY <2>5 DEF OrphanEnds, Go
    <3> QED
      BY <1>2, <1>4, <3>1 DEF Locals
  <2>6. CASE CloseLocal(f)
    <3>1. PICK code, q : Set(f, q) /\ q = [x[f] EXCEPT !.exit = code, !.stopped = x[f].aborted, !.pc = "capture"]
      BY <2>6 DEF CloseLocal
    <3> QED
      BY <1>2, <1>4, <3>1 DEF Locals
  <2>7. CASE CloseCloud(f)
    <3>1. PICK code, b, q :
            /\ Set(f, q)
            /\ q = [x[f] EXCEPT !.exit = code, !.identity = b, !.stopped = x[f].aborted, !.pc = "teardown"]
      BY <2>7 DEF CloseCloud
    <3> QED
      BY <1>2, <1>4, <3>1 DEF Locals
  <2> QED
    BY <1>5, <2>1, <2>2, <2>3, <2>4, <2>5, <2>6, <2>7
<1>6. ASSUME NEW f \in Execs, ExecuteLocal(f) \/ ExecuteCloud(f) \/ TeardownSession(f) \/ Capture(f)
      PROVE  FALSE
  <2>1. ASSUME NEW q, q.result = x[f].result PROVE ~Set(f, q)
    BY <1>2, <2>1
  <2>2. ~Set(f, [x[f] EXCEPT !.pc = "capture", !.cancelled = TRUE, !.stopped = TRUE])
    BY <1>4, <2>1 DEF Locals
  <2>3. \A err, p : ~Set(f, [x[f] EXCEPT !.error = err, !.pc = p])
    BY <1>4, <2>1 DEF Locals
  <2>4. \A b, err, p : ~Set(f, [x[f] EXCEPT !.session = b, !.error = err, !.pc = p])
    BY <1>4, <2>1 DEF Locals
  <2>5. \A b, p : ~Set(f, [x[f] EXCEPT !.session = b, !.pc = p])
    BY <1>4, <2>1 DEF Locals
  <2>6. \A p, changes : ~Set(f, [x[f] EXCEPT !.pc = p, !.changes = changes])
    BY <1>4, <2>1 DEF Locals
  <2>7. \A p, err : ~Set(f, [x[f] EXCEPT !.pc = p, !.error = err])
    BY <1>4, <2>1 DEF Locals
  <2>8. CASE ExecuteLocal(f)
    BY <2>2, <2>3, <2>8 DEF ExecuteLocal, notStarted
  <2>9. CASE ExecuteCloud(f)
    BY <2>2, <2>4, <2>9 DEF ExecuteCloud, notStarted
  <2>10. CASE TeardownSession(f)
    BY <2>3, <2>5, <2>10 DEF TeardownSession
  <2>11. CASE Capture(f)
    BY <2>6, <2>7, <2>11 DEF Capture
  <2> QED
    BY <1>6, <2>8, <2>9, <2>10, <2>11
<1>7. ASSUME NEW f \in Execs, Validate(f) \/ Provision(f)
      PROVE  FALSE
  <2>1. CASE \E q : Set(f, q) /\ q.result = x[f].result
    BY <1>2, <2>1
  <2>2. CASE \E l : Leave(f, l) /\ l.result = "ERROR"
    BY <1>3, <2>2
  <2>3. \A p : [x[f] EXCEPT !.pc = p].result = x[f].result
    BY <1>4 DEF Locals
  <2>4. \A err : [x[f] EXCEPT !.error = err, !.result = "ERROR"].result = "ERROR"
    BY <1>4 DEF Locals
  <2> QED
    BY <1>7, <2>1, <2>2, <2>3, <2>4 DEF Validate, Provision, Go
<1>8. ASSUME NEW f \in Execs, AgentWrites(f) \/ TombstoneExpires
      PROVE  FALSE
  BY <1>8 DEF AgentWrites, TombstoneExpires
<1>9. ASSUME NEW w \in Runs, cancelWorkflow(w)
      PROVE  FALSE
  <2>1. abort(x[e]).result = x[e].result
    BY <1>1 DEF abort, Locals
  <2> QED
    BY <1>9, <2>1 DEF cancelWorkflow
<1>10. CASE Crash
  <2>1. \A p : [x[e] EXCEPT !.pc = p, !.result = "LOST"].result = "LOST"
    BY <1>1 DEF Locals
  <2> QED
    BY <1>10, <2>1 DEF Crash
<1>11. ASSUME NEW f \in Execs, Cleanup(f)
       PROVE  /\ x[e].pc = "cleanup" /\ x[e].error = NONE
              /\ dir' = [dir EXCEPT ![RunOf(e)] = "none"]
              /\ Set(e, Returned([x[e] EXCEPT !.result = mapWorkerResult(e)]))
  <2>1. CASE Leave(f, [x[f] EXCEPT !.error = "CLEANUP_FAILED", !.result = "ERROR"])
    <3>1. [x[f] EXCEPT !.error = "CLEANUP_FAILED", !.result = "ERROR"].result = "ERROR"
      BY <1>4 DEF Locals
    <3> QED
      BY <1>3, <2>1, <3>1
  <2>2. CASE /\ dir' = [dir EXCEPT ![RunOf(f)] = "none"]
             /\ Leave(f, [x[f] EXCEPT !.result = IF x[f].error = NONE THEN mapWorkerResult(f) ELSE "ERROR"])
    <3>1. f = e
      BY <1>3, <2>2
    <3>2. x[e].error = NONE
      <4>1. [x[e] EXCEPT !.result = "ERROR"].result = "ERROR"
        BY <1>1 DEF Locals
      <4> QED
        BY <1>3, <2>2, <3>1, <4>1
    <3> QED
      BY <1>11, <2>2, <3>1, <3>2 DEF Cleanup, At, Leave
  <2> QED
    BY <1>11, <2>1, <2>2 DEF Cleanup
<1> QED
  BY <1>5, <1>6, <1>7, <1>8, <1>9, <1>10, <1>11 DEF Next, Advance

\* A result that is not an error is true: its workspace and its session are gone, and
\* an execution told to stop before its process ended reads CANCELLED.
THEOREM ResultsAreTrue == Spec => ResultIsTrue
<1> DEFINE True == \A e \in Execs : x[e].result = NONE /\ x'[e].result \notin {NONE, "ERROR", "LOST"} =>
                     /\ dir'[RunOf(e)] = "none" /\ ~x'[e].session
                     /\ x'[e].stopped => x'[e].result = "CANCELLED"
<1>1. Inv /\ [Next]_vars => [True]_vars
  <2> SUFFICES ASSUME Inv, Next, NEW e \in Execs, x[e].result = NONE,
                      x'[e].result \notin {NONE, "ERROR", "LOST"}
               PROVE  /\ dir'[RunOf(e)] = "none" /\ ~x'[e].session
                      /\ x'[e].stopped => x'[e].result = "CANCELLED"
    OBVIOUS
  <2>1. Types /\ x[e] \in Locals /\ ExecInv(e) /\ RunOf(e) \in Runs
    BY WorkerAssumption DEF Inv, Types, RunOf
  <2>2. PICK r : r = mapWorkerResult(e)
    OBVIOUS
  <2>3. /\ x[e].pc = "cleanup" /\ x[e].error = NONE
        /\ dir' = [dir EXCEPT ![RunOf(e)] = "none"]
        /\ Set(e, Returned([x[e] EXCEPT !.result = r]))
    BY <2>2, ResultOfCleanup
  <2>4. ~x[e].session /\ (x[e].stopped => x[e].cancelled)
    BY <2>1, <2>3 DEF ExecInv, Flags
  <2>5. PICK l : l = [x[e] EXCEPT !.result = r]
    OBVIOUS
  <2>6. l.session = x[e].session /\ l.stopped = x[e].stopped /\ l.result = r
    BY <2>1, <2>5 DEF Locals
  <2>7. /\ Returned(l).session = l.session /\ Returned(l).stopped = l.stopped
        /\ Returned(l).result = l.result
    BY DEF Returned, NewExecution
  <2>8. x'[e] = Returned(l)
    BY <2>1, <2>3, <2>5 DEF Set, Types
  <2>9. x[e].cancelled => r = "CANCELLED"
    BY <2>2 DEF mapWorkerResult, mapLocalResult, mapCloudResult
  <2>10. dir'[RunOf(e)] = "none"
    BY <2>1, <2>3 DEF Types
  <2> QED
    BY <2>4, <2>6, <2>7, <2>8, <2>9, <2>10
<1> QED
  BY <1>1, Invariance, PTL DEF Spec, ResultIsTrue
=============================================================================
