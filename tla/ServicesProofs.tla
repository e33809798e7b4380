--------------------------- MODULE ServicesProofs ---------------------------
(***************************************************************************)
(* Theorems about the services beside the workflow, for every value of     *)
(* their constants: who executes a step (AgentIdentity), the bootstraps    *)
(* (Provisioning), what is learned from an experience (Learning) and the   *)
(* users of an organization (Users).                                       *)
(***************************************************************************)
EXTENDS AgentIdentity, Provisioning, Learning, Users,
        FiniteSetTheorems, SequenceTheorems, TLAPS

-----------------------------------------------------------------------------
(* Who executes a step.                                                    *)

Tasks == [user : Humans \cup {ABSENT}, agent : Agents \cup {ABSENT}]

LookupPc ==
  {"idle", "reviewed", "checked", "target", "unbound", "inserted", "bound", "assigned", "named",
   "resolved", "failed", "done"}

Lookups ==
  [pc : LookupPc, agent : Agents \cup {ABSENT}, data : Tasks \cup {ABSENT},
   assigned : Assignments \cup {ABSENT}, capability : Codes \cup {ABSENT}]

IdentityTypes ==
  /\ agent \in [Agents -> [status : {"DRAFT", "ACTIVE", "PAUSED", "ARCHIVED"},
                          link : [Codes -> {"none", "enabled", "disabled"}]]]
  /\ plan \in Codes \cup {ABSENT}
  /\ assignment \in Assignments \cup {ABSENT}
  /\ task \in Tasks
  /\ lookup \in [Processes -> Lookups]
  /\ approved \subseteq Agents \X Codes
  /\ edits \in 0..MaxEdits

\* What a call has read and still relies on: a resolution past the plan found
\* the capability of its own version there, and an assignment it holds was
\* approved for it; an approval found its agent fit; an edit computed a target
\* with one side.
LookupInv(p) ==
  LET l == lookup[p]
  IN  /\ p \in Resolvers /\ l.pc \in {"bound", "assigned", "named", "resolved"} => plan = Mapping[p]
      /\ p \in Resolvers /\ l.pc \in {"assigned", "named", "resolved"} /\ l.assigned # ABSENT =>
           /\ l.assigned.capability = Mapping[p]
           /\ <<l.assigned.agent, Mapping[p]>> \in approved
           /\ l.pc # "assigned" => l.agent = l.assigned.agent
      /\ p \in Resolvers /\ l.pc = "resolved" => l.capability = Mapping[p]
      /\ p \in Approvers /\ l.pc = "checked" => l.agent \in Agents /\ <<l.agent, Mapping[p]>> \in approved
      /\ p \in Activators /\ l.pc = "reviewed" => l.agent \in Agents
      /\ p \in Editors /\ l.pc = "target" => l.data \in Tasks /\ ~Both(l.data)

IdentityInv ==
  /\ IdentityTypes
  /\ assignment # ABSENT => <<assignment.agent, assignment.capability>> \in approved
  /\ OneAssignee
  /\ \A p \in Processes : LookupInv(p)

\* What a call relies on survives the steps of others.
LEMMA LookupKept ==
  ASSUME IdentityInv, NEW p \in Processes, lookup'[p] = lookup[p],
         plan' = plan \/ plan = ABSENT, approved \subseteq approved'
  PROVE  LookupInv(p)'
<1>1. LookupInv(p)
  BY DEF IdentityInv
<1>2. p \in Resolvers => Mapping[p] # ABSENT
  BY IdentityAssumption
<1> QED
  BY <1>1, <1>2 DEF LookupInv

\* A step of one call: the rest follows from the call's own new state.
LEMMA LookupStep ==
  ASSUME IdentityInv, NEW p \in Processes, NEW q \in Lookups, Becomes(p, q),
         agent' = agent, edits' = edits, plan' \in Codes \cup {ABSENT}, plan' = plan \/ plan = ABSENT,
         approved \subseteq approved', approved' \subseteq Agents \X Codes,
         task' \in Tasks, OneAssignee', assignment' = assignment, LookupInv(p)'
  PROVE  IdentityInv'
<1>1. IdentityTypes'
  BY DEF IdentityInv, IdentityTypes, Becomes
<1>2. assignment' # ABSENT => <<assignment'.agent, assignment'.capability>> \in approved'
  BY DEF IdentityInv
<1>3. ASSUME NEW r \in Processes PROVE LookupInv(r)'
  <2>1. r # p => lookup'[r] = lookup[r]
    BY DEF IdentityInv, IdentityTypes, Becomes
  <2> QED
    BY <2>1, LookupKept
<1> QED
  BY <1>1, <1>2, <1>3 DEF IdentityInv

\* Administration of the agents touches no call.
LEMMA AdministerStep ==
  ASSUME IdentityInv, NEW e \in Agents,
         \/ \E status \in {"PAUSED", "ARCHIVED"} : update(e, status)
         \/ \E c \in Codes : revokeFromDigitalEmployee(e, c)
         \/ \E c \in Codes, b \in BOOLEAN : grantToDigitalEmployee(e, c, b)
  PROVE  IdentityInv'
<1>1. agent' \in [Agents -> [status : {"DRAFT", "ACTIVE", "PAUSED", "ARCHIVED"},
                            link : [Codes -> {"none", "enabled", "disabled"}]]]
  <2>1. /\ agent \in [Agents -> [status : {"DRAFT", "ACTIVE", "PAUSED", "ARCHIVED"},
                                link : [Codes -> {"none", "enabled", "disabled"}]]]
        /\ agent[e].link \in [Codes -> {"none", "enabled", "disabled"}]
    BY DEF IdentityInv, IdentityTypes
  <2>2. CASE \E status \in {"PAUSED", "ARCHIVED"} : update(e, status)
    BY <2>1, <2>2 DEF update
  <2>3. ASSUME NEW c \in Codes, NEW l \in {"none", "enabled", "disabled"},
               agent' = [agent EXCEPT ![e].link[c] = l]
        PROVE  agent' \in [Agents -> [status : {"DRAFT", "ACTIVE", "PAUSED", "ARCHIVED"},
                                     link : [Codes -> {"none", "enabled", "disabled"}]]]
    BY <2>1, <2>3
  <2> QED
    BY <2>2, <2>3 DEF revokeFromDigitalEmployee, grantToDigitalEmployee
<1>2. /\ edits' \in 0..MaxEdits
      /\ UNCHANGED <<plan, assignment, task, lookup, approved>>
  BY IdentityAssumption DEF IdentityInv, IdentityTypes, update, revokeFromDigitalEmployee,
     grantToDigitalEmployee, Administer
<1>3. \A p \in Processes : LookupInv(p)'
  BY <1>2, LookupKept
<1> QED
  BY <1>1, <1>2, <1>3 DEF IdentityInv, IdentityTypes, OneAssignee, Both

LEMMA ActivateStep ==
  ASSUME IdentityInv, NEW p \in Activators, NEW e \in Agents, activate(p, e)
  PROVE  IdentityInv'
<1>1. PICK q : q = [lookup[p] EXCEPT !.pc = "reviewed", !.agent = e]
  OBVIOUS
<1>2. p \in Processes /\ lookup[p] \in Lookups
  BY DEF Processes, IdentityInv, IdentityTypes
<1>3. q \in Lookups /\ q.pc = "reviewed" /\ q.agent = e
  BY <1>1, <1>2 DEF Lookups, LookupPc
<1>4. lookup'[p] = q
  BY <1>1, <1>2 DEF activate, Becomes, IdentityInv, IdentityTypes
<1>5. LookupInv(p)'
  BY <1>3, <1>4 DEF LookupInv
<1> QED
  BY <1>1, <1>2, <1>3, <1>5, LookupStep DEF activate, IdentityInv, IdentityTypes, OneAssignee, Both

LEMMA WriteActiveStep ==
  ASSUME IdentityInv, NEW p \in Activators, WriteActive(p)
  PROVE  IdentityInv'
<1>1. PICK q : q = [lookup[p] EXCEPT !.pc = "done"]
  OBVIOUS
<1>2. p \in Processes /\ lookup[p] \in Lookups
  BY DEF Processes, IdentityInv, IdentityTypes
<1>3. q \in Lookups /\ q.pc = "done"
  BY <1>1, <1>2 DEF Lookups, LookupPc
<1>4. lookup' = [lookup EXCEPT ![p] = q]
  BY <1>1 DEF WriteActive, Goto, Becomes
<1>5. LookupInv(p)'
  BY <1>2, <1>3, <1>4 DEF LookupInv, IdentityInv, IdentityTypes
<1>6. lookup[p].agent \in Agents
  BY <1>2 DEF IdentityInv, LookupInv, WriteActive, IsAt
<1>7. IdentityTypes'
  BY <1>2, <1>3, <1>4, <1>6 DEF WriteActive, IdentityInv, IdentityTypes
<1>8. ASSUME NEW r \in Processes PROVE LookupInv(r)'
  <2>1. r # p => lookup'[r] = lookup[r]
    BY <1>4 DEF IdentityInv, IdentityTypes
  <2> QED
    BY <1>5, <2>1, LookupKept DEF WriteActive
<1> QED
  BY <1>7, <1>8 DEF WriteActive, IdentityInv, OneAssignee, Both

LEMMA ApproveStep ==
  ASSUME IdentityInv, NEW p \in Approvers, NEW e \in Agents, approve(p, e)
  PROVE  IdentityInv'
<1>1. PICK q : q = [lookup[p] EXCEPT !.pc = "checked", !.agent = e]
  OBVIOUS
<1>2. p \in Processes /\ lookup[p] \in Lookups
  BY DEF Processes, IdentityInv, IdentityTypes
<1>3. q \in Lookups /\ q.pc = "checked" /\ q.agent = e
  BY <1>1, <1>2 DEF Lookups, LookupPc
<1>4. lookup'[p] = q
  BY <1>1, <1>2 DEF approve, Becomes, IdentityInv, IdentityTypes
<1>5. approved' = approved \cup {<<e, Mapping[p]>>} /\ Mapping[p] \in Codes
  BY IdentityAssumption DEF approve
<1>6. LookupInv(p)'
  BY <1>3, <1>4, <1>5 DEF LookupInv
<1> QED
  BY <1>1, <1>2, <1>3, <1>5, <1>6, LookupStep DEF approve, IdentityInv, IdentityTypes, OneAssignee, Both

LEMMA WriteAssignmentStep ==
  ASSUME IdentityInv, NEW p \in Approvers, WriteAssignment(p)
  PROVE  IdentityInv'
<1>1. PICK q : q = [lookup[p] EXCEPT !.pc = "done"]
  OBVIOUS
<1>2. p \in Processes /\ lookup[p] \in Lookups
  BY DEF Processes, IdentityInv, IdentityTypes
<1>3. q \in Lookups /\ q.pc = "done"
  BY <1>1, <1>2 DEF Lookups, LookupPc
<1>4. lookup' = [lookup EXCEPT ![p] = q]
  BY <1>1 DEF WriteAssignment, Goto, Becomes
<1>5. LookupInv(p)'
  BY <1>2, <1>3, <1>4 DEF LookupInv, IdentityInv, IdentityTypes
<1>6. /\ lookup[p].agent \in Agents /\ <<lookup[p].agent, Mapping[p]>> \in approved
      /\ Mapping[p] \in Codes
  BY <1>2, IdentityAssumption DEF IdentityInv, LookupInv, WriteAssignment, IsAt
<1>7. /\ assignment' \in Assignments
      /\ <<assignment'.agent, assignment'.capability>> \in approved
  BY <1>6 DEF WriteAssignment, Assignments
<1>8. IdentityTypes'
  BY <1>2, <1>3, <1>4, <1>7 DEF WriteAssignment, IdentityInv, IdentityTypes
<1>9. ASSUME NEW r \in Processes PROVE LookupInv(r)'
  <2>1. r # p => lookup'[r] = lookup[r]
    BY <1>4 DEF IdentityInv, IdentityTypes
  <2> QED
    BY <1>5, <2>1, LookupKept DEF WriteAssignment
<1> QED
  BY <1>7, <1>8, <1>9 DEF WriteAssignment, IdentityInv, OneAssignee, Both

LEMMA RevokeStep ==
  ASSUME IdentityInv, revoke
  PROVE  IdentityInv'
<1>1. /\ assignment' \in Assignments
      /\ assignment'.agent = assignment.agent /\ assignment'.capability = assignment.capability
  BY DEF revoke, IdentityInv, IdentityTypes, Assignments
<1>2. \A p \in Processes : LookupInv(p)'
  BY LookupKept DEF revoke
<1> QED
  BY <1>1, <1>2 DEF revoke, IdentityInv, IdentityTypes, OneAssignee, Both

\* Whatever a request names, both sides of the target are values of their kind.
LEMMA TargetTyped ==
  ASSUME NEW t \in Tasks, NEW dto \in TaskInputs
  PROVE  assignmentData(dto, t) \in Tasks
<1>1. t.user \in Humans \cup {ABSENT} /\ t.agent \in Agents \cup {ABSENT}
  BY DEF Tasks
<1>2. /\ "user" \in DOMAIN dto => dto["user"] \in Humans \cup {ABSENT}
      /\ "agent" \in DOMAIN dto => dto["agent"] \in Agents \cup {ABSENT}
  <2>1. DOMAIN <<>> = {}
    OBVIOUS
  <2> QED
    BY <2>1 DEF TaskInputs
<1> QED
  BY <1>1, <1>2 DEF assignmentData, resolveAssignmentTarget, Tasks

LEMMA UpdateTaskStep ==
  ASSUME IdentityInv, NEW p \in Editors, NEW dto \in TaskInputs, updateTask(p, dto)
  PROVE  IdentityInv'
<1>1. PICK target : target = assignmentData(dto, task)
  OBVIOUS
<1>2. target \in Tasks /\ ~Both(target)
  BY <1>1, TargetTyped DEF updateTask, assignmentData, IdentityInv, IdentityTypes
<1>3. PICK q : q = [lookup[p] EXCEPT !.pc = "target", !.data = target]
  OBVIOUS
<1>4. p \in Processes /\ lookup[p] \in Lookups
  BY DEF Processes, IdentityInv, IdentityTypes
<1>5. q \in Lookups /\ q.pc = "target" /\ q.data = target
  BY <1>2, <1>3, <1>4 DEF Lookups, LookupPc
<1>6. lookup'[p] = q
  BY <1>1, <1>3, <1>4 DEF updateTask, Becomes, IdentityInv, IdentityTypes
<1>7. LookupInv(p)'
  BY <1>2, <1>5, <1>6 DEF LookupInv
<1> QED
  BY <1>1, <1>3, <1>4, <1>5, <1>7, LookupStep DEF updateTask, IdentityInv, IdentityTypes, OneAssignee, Both

LEMMA WriteTaskStep ==
  ASSUME IdentityInv, NEW p \in Editors, WriteTask(p)
  PROVE  IdentityInv'
<1>1. PICK q : q = [Idle EXCEPT !.pc = "done"]
  OBVIOUS
<1>2. p \in Processes /\ lookup[p] \in Lookups
  BY DEF Processes, IdentityInv, IdentityTypes
<1>3. q \in Lookups /\ q.pc = "done"
  BY <1>1 DEF Lookups, LookupPc, Idle
<1>4. lookup'[p] = q
  BY <1>1, <1>2 DEF WriteTask, Becomes, IdentityInv, IdentityTypes
<1>5. LookupInv(p)'
  BY <1>3, <1>4 DEF LookupInv
<1>6. PICK data : data = lookup[p].data /\ data \in Tasks /\ ~Both(data)
  BY <1>2 DEF IdentityInv, LookupInv, WriteTask, IsAt
<1>7. task' = data
  BY <1>6 DEF WriteTask, Sides, Tasks
<1> QED
  BY <1>1, <1>2, <1>3, <1>5, <1>6, <1>7, LookupStep DEF WriteTask, IdentityInv, IdentityTypes, OneAssignee, Both

\* A resolution that moves on and writes nothing.
LEMMA ReadStep ==
  ASSUME IdentityInv, NEW p \in Resolvers, NEW q \in Lookups, Becomes(p, q),
         UNCHANGED <<agent, plan, assignment, task, approved, edits>>,
         q.pc \in {"bound", "assigned", "named", "resolved"} => plan = Mapping[p],
         q.pc \in {"assigned", "named", "resolved"} /\ q.assigned # ABSENT =>
           /\ q.assigned.capability = Mapping[p]
           /\ <<q.assigned.agent, Mapping[p]>> \in approved
           /\ q.pc # "assigned" => q.agent = q.assigned.agent,
         q.pc = "resolved" => q.capability = Mapping[p],
         q.pc \notin {"checked", "reviewed", "target"}
  PROVE  IdentityInv'
<1>1. p \in Processes
  BY DEF Processes
<1>2. lookup'[p] = q
  BY <1>1 DEF Becomes, IdentityInv, IdentityTypes
<1>3. LookupInv(p)'
  BY <1>2 DEF LookupInv
<1> QED
  BY <1>1, <1>3, LookupStep DEF IdentityInv, IdentityTypes, OneAssignee, Both

LEMMA ResolveStep ==
  ASSUME IdentityInv, NEW p \in Resolvers, Resolve(p) \/ ReadBack(p)
  PROVE  IdentityInv'
<1>1. PICK pc \in {"unbound", "bound", "failed"} :
        /\ Goto(p, pc)
        /\ pc = "bound" => plan = Mapping[p]
        /\ UNCHANGED <<agent, plan, assignment, task, approved, edits>>
  BY DEF Resolve, ReadBack, assertImmutable
<1>2. PICK q : q = [lookup[p] EXCEPT !.pc = pc]
  OBVIOUS
<1>3. lookup[p] \in Lookups
  BY DEF Processes, IdentityInv, IdentityTypes
<1>4. q \in Lookups /\ q.pc = pc
  BY <1>1, <1>2, <1>3 DEF Lookups, LookupPc
<1>5. Becomes(p, q)
  BY <1>1, <1>2 DEF Goto
<1> QED
  BY <1>1, <1>4, <1>5, ReadStep

LEMMA BindPlanStep ==
  ASSUME IdentityInv, NEW p \in Resolvers, BindPlan(p)
  PROVE  IdentityInv'
<1>1. PICK q : q = [lookup[p] EXCEPT !.pc = "inserted"]
  OBVIOUS
<1>2. p \in Processes /\ lookup[p] \in Lookups
  BY DEF Processes, IdentityInv, IdentityTypes
<1>3. q \in Lookups /\ q.pc = "inserted"
  BY <1>1, <1>2 DEF Lookups, LookupPc
<1>4. Becomes(p, q)
  BY <1>1 DEF BindPlan, Goto
<1>5. lookup'[p] = q
  BY <1>2, <1>4 DEF Becomes, IdentityInv, IdentityTypes
<1>6. LookupInv(p)'
  BY <1>3, <1>5 DEF LookupInv
<1>7. plan' \in Codes \cup {ABSENT} /\ (plan' = plan \/ plan = ABSENT)
  BY IdentityAssumption DEF BindPlan, IdentityInv, IdentityTypes
<1> QED
  BY <1>2, <1>3, <1>4, <1>6, <1>7, LookupStep DEF BindPlan, IdentityInv, IdentityTypes, OneAssignee, Both

LEMMA ReadAssignmentStep ==
  ASSUME IdentityInv, NEW p \in Resolvers, ReadAssignment(p)
  PROVE  IdentityInv'
<1>1. PICK a : a = resolveApproved
  OBVIOUS
<1>2. a \in Assignments \cup {ABSENT} /\ (a # ABSENT => <<a.agent, a.capability>> \in approved)
  BY <1>1 DEF resolveApproved, IdentityInv, IdentityTypes
<1>3. PICK q, r : q = [lookup[p] EXCEPT !.pc = "assigned", !.assigned = a] /\ r = [lookup[p] EXCEPT !.pc = "failed"]
  OBVIOUS
<1>4. lookup[p] \in Lookups /\ lookup[p].pc = "bound" /\ LookupInv(p)
  BY DEF Processes, IdentityInv, IdentityTypes, ReadAssignment, IsAt
<1>5. q \in Lookups /\ q.pc = "assigned" /\ q.assigned = a
  BY <1>2, <1>3, <1>4 DEF Lookups, LookupPc
<1>6. r \in Lookups /\ r.pc = "failed"
  BY <1>3, <1>4 DEF Lookups, LookupPc
<1>7. plan = Mapping[p]
  BY <1>4 DEF LookupInv
<1>8. CASE assignmentMatches(p, a)
  <2>1. a # ABSENT => a.capability = Mapping[p] /\ <<a.agent, Mapping[p]>> \in approved
    BY <1>2, <1>8 DEF assignmentMatches
  <2>2. Becomes(p, q)
    BY <1>1, <1>3, <1>8 DEF ReadAssignment
  <2> QED
    BY <1>5, <1>7, <2>1, <2>2, ReadStep DEF ReadAssignment
<1>9. CASE ~assignmentMatches(p, a)
  <2>1. Becomes(p, r)
    BY <1>1, <1>3, <1>9 DEF ReadAssignment, Goto
  <2> QED
    BY <1>6, <2>1, ReadStep DEF ReadAssignment
<1> QED
  BY <1>8, <1>9

LEMMA ReadTaskStep ==
  ASSUME IdentityInv, NEW p \in Resolvers, ReadTask(p)
  PROVE  IdentityInv'
<1>1. PICK e : e = IF lookup[p].assigned # ABSENT THEN lookup[p].assigned.agent ELSE task.agent
  OBVIOUS
<1>2. lookup[p] \in Lookups /\ lookup[p].pc = "assigned" /\ LookupInv(p)
  BY DEF Processes, IdentityInv, IdentityTypes, ReadTask, IsAt
<1>3. e \in Agents \cup {ABSENT}
  BY <1>1, <1>2 DEF Lookups, Assignments, IdentityInv, IdentityTypes, Tasks
<1>4. PICK q, r : q = [lookup[p] EXCEPT !.pc = "named", !.agent = e] /\ r = [lookup[p] EXCEPT !.pc = "failed"]
  OBVIOUS
<1>5. q \in Lookups /\ q.pc = "named" /\ q.agent = e /\ q.assigned = lookup[p].assigned
  BY <1>2, <1>3, <1>4 DEF Lookups, LookupPc
<1>6. r \in Lookups /\ r.pc = "failed"
  BY <1>2, <1>4 DEF Lookups, LookupPc
<1>7. Becomes(p, q) \/ Becomes(p, r)
  BY <1>1, <1>4 DEF ReadTask, Goto
<1>8. /\ plan = Mapping[p]
      /\ q.assigned # ABSENT => /\ q.assigned.capability = Mapping[p]
                                /\ <<q.assigned.agent, Mapping[p]>> \in approved
                                /\ q.agent = q.assigned.agent
  BY <1>1, <1>2, <1>5 DEF LookupInv
<1> QED
  BY <1>5, <1>6, <1>7, <1>8, ReadStep DEF ReadTask

LEMMA ReadAgentStep ==
  ASSUME IdentityInv, NEW p \in Resolvers, ReadAgent(p)
  PROVE  IdentityInv'
<1>1. lookup[p] \in Lookups /\ lookup[p].pc = "named" /\ LookupInv(p) /\ Mapping[p] \in Codes
  BY IdentityAssumption DEF Processes, IdentityInv, IdentityTypes, ReadAgent, IsAt
<1>2. PICK q, r : /\ q = [lookup[p] EXCEPT !.pc = "resolved", !.capability = Mapping[p]]
                  /\ r = [lookup[p] EXCEPT !.pc = "failed"]
  OBVIOUS
<1>3. /\ q \in Lookups /\ q.pc = "resolved" /\ q.agent = lookup[p].agent
      /\ q.assigned = lookup[p].assigned /\ q.capability = Mapping[p]
  BY <1>1, <1>2 DEF Lookups, LookupPc
<1>4. r \in Lookups /\ r.pc = "failed"
  BY <1>1, <1>2 DEF Lookups, LookupPc
<1>5. Becomes(p, q) \/ Becomes(p, r)
  BY <1>2 DEF ReadAgent, Goto
<1>6. /\ plan = Mapping[p]
      /\ q.assigned # ABSENT => /\ q.assigned.capability = Mapping[p]
                                /\ <<q.assigned.agent, Mapping[p]>> \in approved
                                /\ q.agent = q.assigned.agent
  BY <1>1, <1>3 DEF LookupInv
<1> QED
  BY <1>3, <1>4, <1>5, <1>6, ReadStep DEF ReadAgent

LEMMA IdentityInitInv == IdentityInit => IdentityInv
<1> SUFFICES ASSUME IdentityInit PROVE IdentityInv
  OBVIOUS
<1>1. Idle \in Lookups /\ Idle.pc = "idle"
  BY DEF Idle, Lookups, LookupPc
<1>2. task \in Tasks /\ OneAssignee
  BY DEF IdentityInit, Tasks, OneAssignee, Both
<1>3. IdentityTypes
  BY <1>1, <1>2, IdentityAssumption DEF IdentityInit, IdentityTypes, NewAgent
<1>4. \A p \in Processes : LookupInv(p)
  BY <1>1 DEF IdentityInit, LookupInv
<1> QED
  BY <1>2, <1>3, <1>4 DEF IdentityInv, IdentityInit

LEMMA IdentityNextInv == IdentityInv /\ [IdentityNext]_identityVars => IdentityInv'
<1> SUFFICES ASSUME IdentityInv, [IdentityNext]_identityVars PROVE IdentityInv'
  OBVIOUS
<1>1. CASE UNCHANGED identityVars
  <2>1. \A p \in Processes : LookupInv(p)'
    BY <1>1, LookupKept DEF identityVars
  <2> QED
    BY <1>1, <2>1 DEF identityVars, IdentityInv, IdentityTypes, OneAssignee, Both
<1>2. CASE IdentityNext
  BY <1>2, AdministerStep, ActivateStep, WriteActiveStep, ApproveStep, WriteAssignmentStep, RevokeStep,
     UpdateTaskStep, WriteTaskStep, ResolveStep, BindPlanStep, ReadAssignmentStep, ReadTaskStep,
     ReadAgentStep DEF IdentityNext
<1> QED
  BY <1>1, <1>2

\* The inductive invariant of plan, assignment, task and calls holds throughout.
LEMMA IdentityInvariance == IdentitySpec => []IdentityInv
BY IdentityInitInv, IdentityNextInv, PTL DEF IdentitySpec

\* Agents, plan, assignment, task and calls keep their types.
THEOREM IdentityTypeCorrect == IdentitySpec => []IdentityTypeOK
<1>1. IdentityInv => IdentityTypeOK
  BY DEF IdentityInv, IdentityTypes, IdentityTypeOK, Tasks, Lookups
<1> QED
  BY <1>1, IdentityInvariance, PTL

\* For any number of versions, resolutions, approvals and edits: all executions
\* of a step are for one capability, and an agent that executes by assignment was
\* found fit for that very capability (resolve of
\* WorkflowExecutionIdentityService).
THEOREM ExecutionFollowsPlan == IdentitySpec => []ExecutedAsPlanned
<1>1. IdentityInv => ExecutedAsPlanned
  <2> SUFFICES ASSUME IdentityInv PROVE ExecutedAsPlanned
    OBVIOUS
  <2>1. ASSUME NEW p \in Resolved
        PROVE  /\ plan = Mapping[p] /\ lookup[p].capability = Mapping[p]
               /\ lookup[p].assigned # ABSENT => <<lookup[p].agent, lookup[p].capability>> \in approved
    BY DEF Resolved, IsAt, IdentityInv, LookupInv, Processes
  <2> QED
    BY <2>1 DEF ExecutedAsPlanned, PlanStable, AssignedIsApproved
<1> QED
  BY <1>1, IdentityInvariance, PTL

\* However many edits overlap, each computing both sides from a row it read before
\* its transaction, a task has one assignee at most (update of TasksService).
THEOREM TaskHasOneAssignee == IdentitySpec => []OneAssignee
<1>1. IdentityInv => OneAssignee
  BY DEF IdentityInv
<1> QED
  BY <1>1, IdentityInvariance, PTL

-----------------------------------------------------------------------------
(* The bootstraps.                                                         *)

CallPc == {"idle", "absent", "found", "assign", "read", "done", "failed"}

CallRecords ==
  [pc : CallPc, rest : SUBSET Current, created : BOOLEAN, defines : SUBSET Current,
   employs : SUBSET Current, provides : SUBSET Current, upgrade : BOOLEAN]

ProvisioningTypes ==
  /\ provider \in ProviderRows \cup {ABSENT}
  /\ employee \in EmployeeRows \cup {ABSENT}
  /\ capability \in [Current -> {"none", "governed", "other"}]
  /\ call \in [Calls -> CallRecords]
  /\ changes \in 0..MaxChanges /\ faults \in 0..MaxFaults

\* What a bootstrap relies on: rows it has seen are still there, and every link
\* it does not have on its list exists.
CallHolds(p) ==
  /\ p \in Bootstrappers /\ call[p].pc \in {"found", "assign", "done"} => provider # ABSENT
  /\ p \in Bootstrappers /\ call[p].pc = "assign" => Missing(provider.link) \subseteq call[p].rest
  /\ p \in Bootstrappers /\ call[p].pc = "done" => Missing(provider.link) = {}
  /\ p \in AgentCalls /\ call[p].pc = "read" /\ ~call[p].created => employee # ABSENT
  /\ p \in ReleaseCalls /\ call[p].pc = "read" => provider # ABSENT /\ employee # ABSENT

\* Without administration nothing is active.
Quiet ==
  changes = 0 =>
    /\ provider # ABSENT => provider.status = "DISABLED" /\ noActiveAuthority(provider.link)
    /\ employee # ABSENT => employee.status = "DRAFT" /\ noActiveAuthority(employee.link)

ProvisioningInv == ProvisioningTypes /\ Quiet /\ \A p \in Calls : CallHolds(p)

\* Rows are never deleted, nor the links of the provider.
RowsStay ==
  /\ provider # ABSENT => /\ provider' # ABSENT
                          /\ Missing(provider'.link) \subseteq Missing(provider.link)
  /\ employee # ABSENT => employee' # ABSENT

\* What a bootstrap relies on survives the steps of others.
LEMMA CallKept ==
  ASSUME ProvisioningInv, RowsStay, NEW p \in Calls, call'[p] = call[p]
  PROVE  CallHolds(p)'
<1>1. CallHolds(p)
  BY DEF ProvisioningInv
<1>2. p \in Bootstrappers /\ call[p].pc = "assign" => Missing(provider'.link) \subseteq call[p].rest
  BY <1>1 DEF CallHolds, RowsStay
<1>3. p \in Bootstrappers /\ call[p].pc = "done" => Missing(provider'.link) = {}
  BY <1>1 DEF CallHolds, RowsStay
<1> QED
  BY <1>1, <1>2, <1>3 DEF CallHolds, RowsStay, Missing

\* A step of one bootstrap.
LEMMA BootstrapStep ==
  ASSUME ProvisioningInv, RowsStay, NEW p \in Calls, NEW q \in CallRecords, Move(p, q),
         provider' \in ProviderRows \cup {ABSENT}, employee' \in EmployeeRows \cup {ABSENT},
         capability' \in [Current -> {"none", "governed", "other"}],
         changes' = changes, faults' \in 0..MaxFaults, Quiet', CallHolds(p)'
  PROVE  ProvisioningInv'
<1>1. ProvisioningTypes'
  BY DEF ProvisioningInv, ProvisioningTypes, Move
<1>2. ASSUME NEW r \in Calls PROVE CallHolds(r)'
  <2>1. r # p => call'[r] = call[r]
    BY DEF ProvisioningInv, ProvisioningTypes, Move
  <2> QED
    BY <2>1, CallKept
<1> QED
  BY <1>1, <1>2 DEF ProvisioningInv

\* A call enters a state in which it holds nothing.
LEMMA EnterFacts ==
  ASSUME ProvisioningInv, NEW p \in Calls, NEW pc \in CallPc, Enter(p, pc)
  PROVE  /\ [NoCall EXCEPT !.pc = pc] \in CallRecords
         /\ Move(p, [NoCall EXCEPT !.pc = pc])
         /\ call'[p].pc = pc /\ call'[p].created = FALSE
<1>1. [NoCall EXCEPT !.pc = pc] \in CallRecords
  BY DEF NoCall, CallRecords
<1> QED
  BY <1>1 DEF Enter, Move, NoCall, ProvisioningInv, ProvisioningTypes

\* A step that leaves the rows alone and ends with a call that holds nothing.
LEMMA EnterStep ==
  ASSUME ProvisioningInv, NEW p \in Calls, NEW pc \in CallPc, Enter(p, pc),
         UNCHANGED <<Rows, changes>>, faults' \in 0..MaxFaults,
         pc \in {"idle", "absent", "failed"} \/ (pc = "found" /\ provider # ABSENT)
  PROVE  ProvisioningInv'
<1>1. /\ [NoCall EXCEPT !.pc = pc] \in CallRecords
      /\ Move(p, [NoCall EXCEPT !.pc = pc])
      /\ call'[p].pc = pc
  BY EnterFacts
<1>2. UNCHANGED <<provider, employee, capability>>
  BY DEF Rows
<1>3. RowsStay /\ Quiet'
  BY <1>2 DEF RowsStay, ProvisioningInv, Quiet, noActiveAuthority
<1>4. CallHolds(p)'
  BY <1>1, <1>2 DEF CallHolds
<1> QED
  BY <1>1, <1>2, <1>3, <1>4, BootstrapStep DEF ProvisioningInv, ProvisioningTypes

\* Of the links of a row: adding fills in what is missing.
LEMMA AddedFacts ==
  ASSUME NEW links \in [Current -> LinkStates], NEW cs \in SUBSET Current
  PROVE  /\ Added(links, cs) \in [Current -> LinkStates]
         /\ Missing(Added(links, cs)) \subseteq Missing(links)
         /\ noActiveAuthority(links) => noActiveAuthority(Added(links, cs))
BY DEF Added, LinkStates, Missing, noActiveAuthority

LEMMA findProviderStep ==
  ASSUME ProvisioningInv, NEW p \in Bootstrappers, findProvider(p)
  PROVE  ProvisioningInv'
<1>1. PICK pc \in {"absent", "found", "failed"} :
        Enter(p, pc) /\ (pc = "found" => provider # ABSENT)
  BY DEF findProvider
<1>2. p \in Calls /\ pc \in CallPc
  BY DEF Calls, CallPc
<1> QED
  BY <1>1, <1>2, EnterStep DEF findProvider, ProvisioningInv, ProvisioningTypes

LEMMA createProviderStep ==
  ASSUME ProvisioningInv, NEW p \in Bootstrappers, createProvider(p)
  PROVE  ProvisioningInv'
<1>1. p \in Calls /\ p \notin AgentCalls \cup ReleaseCalls
  BY ProvisioningAssumption DEF Calls
<1>2. CASE provider = ABSENT
  <2>1. provider' = ENGINEERING_PROVIDER /\ Enter(p, "found")
    BY <1>2 DEF createProvider
  <2>2. NoLinks \in [Current -> LinkStates]
    BY DEF NoLinks, LinkStates
  <2>3. /\ provider' \in ProviderRows
        /\ provider'.status = "DISABLED" /\ noActiveAuthority(provider'.link)
    BY <2>1, <2>2 DEF ENGINEERING_PROVIDER, ProviderRows, noActiveAuthority, NoLinks
  <2>4. /\ [NoCall EXCEPT !.pc = "found"] \in CallRecords
        /\ Move(p, [NoCall EXCEPT !.pc = "found"])
        /\ call'[p].pc = "found"
    BY <1>1, <2>1, EnterFacts DEF CallPc
  <2>5. RowsStay
    BY <1>2 DEF RowsStay, createProvider
  <2>6. Quiet'
    BY <2>3 DEF Quiet, ProvisioningInv, createProvider, noActiveAuthority
  <2>7. CallHolds(p)'
    BY <1>1, <2>3, <2>4, ProvisioningAssumption DEF CallHolds
  <2> QED
    BY <1>1, <2>3, <2>4, <2>5, <2>6, <2>7, BootstrapStep
       DEF createProvider, ProvisioningInv, ProvisioningTypes
<1>3. CASE provider # ABSENT
  BY <1>1, <1>3, EnterStep DEF createProvider, CallPc, Rows, ProvisioningInv, ProvisioningTypes
<1> QED
  BY <1>2, <1>3

LEMMA listCapabilitiesStep ==
  ASSUME ProvisioningInv, NEW p \in Bootstrappers, listCapabilities(p)
  PROVE  ProvisioningInv'
<1>1. p \in Calls /\ p \notin AgentCalls \cup ReleaseCalls
  BY ProvisioningAssumption DEF Calls
<1>2. provider # ABSENT
  BY <1>1 DEF ProvisioningInv, CallHolds, listCapabilities, At
<1>3. CASE noActiveAuthority(provider.link)
  <2>1. PICK q : q = [NoCall EXCEPT !.pc = "assign", !.rest = Missing(provider.link)]
    OBVIOUS
  <2>2. q \in CallRecords /\ q.pc = "assign" /\ q.rest = Missing(provider.link)
    BY <2>1 DEF CallRecords, NoCall, CallPc, Missing
  <2>3. Move(p, q) /\ UNCHANGED <<provider, employee, capability>>
    BY <1>3, <2>1 DEF listCapabilities, Rows
  <2>4. call'[p] = q
    BY <1>1, <2>3 DEF Move, ProvisioningInv, ProvisioningTypes
  <2>5. RowsStay /\ Quiet'
    BY <2>3 DEF listCapabilities, RowsStay, ProvisioningInv, Quiet, noActiveAuthority
  <2>6. CallHolds(p)'
    BY <1>1, <1>2, <2>2, <2>3, <2>4 DEF CallHolds
  <2> QED
    BY <1>1, <2>2, <2>3, <2>5, <2>6, BootstrapStep DEF listCapabilities, ProvisioningInv, ProvisioningTypes
<1>4. CASE ~noActiveAuthority(provider.link)
  BY <1>1, <1>4, EnterStep DEF listCapabilities, CallPc, ProvisioningInv, ProvisioningTypes
<1> QED
  BY <1>3, <1>4

LEMMA AssignStep ==
  ASSUME ProvisioningInv, NEW p \in Bootstrappers, Assign(p)
  PROVE  ProvisioningInv'
<1>1. p \in Calls /\ p \notin AgentCalls \cup ReleaseCalls
  BY ProvisioningAssumption DEF Calls
<1>2. /\ provider \in ProviderRows /\ Missing(provider.link) \subseteq call[p].rest
      /\ call[p] \in CallRecords /\ call[p].pc = "assign"
  BY <1>1 DEF ProvisioningInv, ProvisioningTypes, CallHolds, Assign, At
<1>3. CASE call[p].rest = {}
  <2>1. Enter(p, "done") /\ UNCHANGED <<provider, employee, capability, changes, faults>>
    BY <1>3 DEF Assign
  <2>2. /\ [NoCall EXCEPT !.pc = "done"] \in CallRecords
        /\ Move(p, [NoCall EXCEPT !.pc = "done"])
        /\ call'[p].pc = "done"
    BY <1>1, <2>1, EnterFacts DEF CallPc
  <2>3. RowsStay /\ Quiet'
    BY <2>1 DEF RowsStay, ProvisioningInv, Quiet, noActiveAuthority
  <2>4. CallHolds(p)'
    BY <1>1, <1>2, <1>3, <2>1, <2>2, ProvisioningAssumption DEF CallHolds
  <2> QED
    BY <1>1, <2>1, <2>2, <2>3, <2>4, BootstrapStep DEF ProvisioningInv, ProvisioningTypes
<1>4. CASE call[p].rest # {}
  <2>1. PICK c \in call[p].rest : assignMissing(p, c)
    BY <1>4 DEF Assign
  <2>2. UNCHANGED <<employee, capability, changes, faults>>
    BY DEF Assign
  <2>3. c \in Current
    BY <1>2, <2>1 DEF CallRecords
  <2>4. CASE provider.link[c] = "none"
    <3>1. PICK q : q = [call[p] EXCEPT !.rest = @ \ {c}]
      OBVIOUS
    <3>2. q \in CallRecords /\ q.pc = "assign" /\ q.rest = call[p].rest \ {c}
      BY <1>2, <3>1 DEF CallRecords
    <3>3. Move(p, q) /\ provider' = [provider EXCEPT !.link[c] = "disabled"]
      BY <2>1, <2>4, <3>1 DEF assignMissing
    <3>4. call'[p] = q
      BY <1>1, <3>3 DEF Move, ProvisioningInv, ProvisioningTypes
    <3>5. /\ provider' \in ProviderRows /\ provider'.status = provider.status
          /\ provider'.link = [provider.link EXCEPT ![c] = "disabled"]
      BY <1>2, <2>3, <3>3 DEF ProviderRows, LinkStates
    <3>6. /\ Missing(provider'.link) \subseteq Missing(provider.link) \ {c}
          /\ noActiveAuthority(provider.link) => noActiveAuthority(provider'.link)
      BY <1>2, <2>3, <3>5 DEF Missing, noActiveAuthority, ProviderRows
    <3>7. RowsStay
      BY <2>2, <3>5, <3>6, ProvisioningAssumption DEF RowsStay
    <3>8. Quiet'
      BY <1>2, <2>2, <3>5, <3>6, ProvisioningAssumption DEF ProvisioningInv, Quiet, noActiveAuthority
    <3>9. CallHolds(p)'
      BY <1>1, <1>2, <3>2, <3>4, <3>5, <3>6, ProvisioningAssumption DEF CallHolds
    <3> QED
      BY <1>1, <2>2, <3>2, <3>3, <3>5, <3>7, <3>8, <3>9, BootstrapStep DEF ProvisioningInv, ProvisioningTypes
  <2>5. CASE provider.link[c] # "none"
    BY <1>1, <2>1, <2>2, <2>5, EnterStep DEF assignMissing, CallPc, Rows, ProvisioningInv, ProvisioningTypes
  <2> QED
    BY <2>4, <2>5
<1> QED
  BY <1>3, <1>4

\* The reads of a transaction: the rows it decides to insert, or its end.
LEMMA ReadRowsStep ==
  ASSUME ProvisioningInv, NEW p \in AgentCalls \cup ReleaseCalls, NEW ok \in BOOLEAN, NEW q,
         ok => /\ q \in CallRecords /\ q.pc = "read"
               /\ p \in AgentCalls /\ ~q.created => employee # ABSENT
               /\ p \in ReleaseCalls => provider # ABSENT /\ employee # ABSENT,
         ReadRows(p, ok, q)
  PROVE  ProvisioningInv'
<1>1. p \in Calls /\ p \notin Bootstrappers
  BY ProvisioningAssumption DEF Calls
<1>2. CASE ok
  <2>1. Move(p, q) /\ UNCHANGED <<provider, employee, capability, changes, faults>>
    BY <1>2 DEF ReadRows, Rows
  <2>2. call'[p] = q
    BY <1>1, <2>1 DEF Move, ProvisioningInv, ProvisioningTypes
  <2>3. RowsStay /\ Quiet'
    BY <2>1 DEF RowsStay, ProvisioningInv, Quiet, noActiveAuthority
  <2>4. CallHolds(p)'
    BY <1>1, <1>2, <2>1, <2>2 DEF CallHolds
  <2> QED
    BY <1>1, <1>2, <2>1, <2>3, <2>4, BootstrapStep DEF ProvisioningInv, ProvisioningTypes
<1>3. CASE ~ok
  BY <1>1, <1>3, EnterStep DEF ReadRows, CallPc, ProvisioningInv, ProvisioningTypes
<1> QED
  BY <1>2, <1>3

LEMMA ReadAgentRowsStep ==
  ASSUME ProvisioningInv, NEW p \in AgentCalls, ReadAgentRows(p)
  PROVE  ProvisioningInv'
<1> DEFINE links == IF employee = ABSENT THEN NoLinks ELSE employee.link
           ok == /\ employee # ABSENT => employee.status = "DRAFT"
                 /\ \A c \in Current : declares(c) /\ links[c] # "enabled"
           q == [NoCall EXCEPT !.pc = "read", !.created = (employee = ABSENT),
                               !.defines = {c \in Current : capability[c] = "none"},
                               !.employs = Missing(links)]
<1>1. ReadRows(p, ok, q)
  BY DEF ReadAgentRows
<1>2. q \in CallRecords /\ q.pc = "read" /\ q.created = (employee = ABSENT)
  BY DEF CallRecords, NoCall, CallPc, Missing
<1>3. p \notin ReleaseCalls /\ ok \in BOOLEAN
  BY ProvisioningAssumption
<1> HIDE DEF ok, q
<1> QED
  BY <1>1, <1>2, <1>3, ReadRowsStep

LEMMA ReadReleaseRowsStep ==
  ASSUME ProvisioningInv, NEW p \in ReleaseCalls, ReadReleaseRows(p)
  PROVE  ProvisioningInv'
<1> DEFINE ok == /\ employee # ABSENT /\ provider # ABSENT
                 /\ employee.status \in {"DRAFT", "ACTIVE"} /\ provider.status \in {"DISABLED", "ACTIVE"}
                 /\ provider.caps \in {Base, Current}
                 /\ declares(Release)
                 /\ employee.link[Release] # "enabled" /\ provider.link[Release] # "enabled"
           q == [NoCall EXCEPT !.pc = "read",
                               !.defines = {c \in {Release} : capability[c] = "none"},
                               !.employs = {Release} \cap Missing(employee.link),
                               !.provides = {Release} \cap Missing(provider.link),
                               !.upgrade = (provider.caps = Base)]
<1>1. ReadRows(p, ok, q)
  BY DEF ReadReleaseRows
<1>2. q \in CallRecords /\ q.pc = "read"
  BY DEF CallRecords, NoCall, CallPc, Missing, Current
<1>3. p \notin AgentCalls /\ ok \in BOOLEAN /\ (ok => provider # ABSENT /\ employee # ABSENT)
  BY ProvisioningAssumption
<1> HIDE DEF ok, q
<1> QED
  BY <1>1, <1>2, <1>3, ReadRowsStep

LEMMA ConflictStep ==
  ASSUME ProvisioningInv, NEW p \in AgentCalls \cup ReleaseCalls, Conflict(p)
  PROVE  ProvisioningInv'
<1>1. p \in Calls
  BY DEF Calls
<1> QED
  BY <1>1, EnterStep DEF Conflict, CallPc, ProvisioningInv, ProvisioningTypes

LEMMA FaultStep ==
  ASSUME ProvisioningInv, NEW p \in Calls, Fault(p)
  PROVE  ProvisioningInv'
<1>1. faults' \in 0..MaxFaults
  BY ProvisioningAssumption DEF Fault, ProvisioningInv, ProvisioningTypes
<1> QED
  BY <1>1, EnterStep DEF Fault, CallPc

\* The capabilities a transaction defines.
LEMMA DefinedFacts ==
  ASSUME ProvisioningInv, NEW cs \in SUBSET Current
  PROVE  Defined(cs) \in [Current -> {"none", "governed", "other"}]
BY DEF ProvisioningInv, ProvisioningTypes, Defined

\* The links a transaction adds to an employee that exists.
LEMMA EmployedFacts ==
  ASSUME NEW e \in EmployeeRows, NEW cs \in SUBSET Current, NEW f,
         f = [e EXCEPT !.link = Added(@, cs)]
  PROVE  /\ f \in EmployeeRows /\ f.status = e.status /\ f.link = Added(e.link, cs)
         /\ noActiveAuthority(e.link) => noActiveAuthority(f.link)
<1>1. e.link \in [Current -> LinkStates]
  BY DEF EmployeeRows
<1>2. /\ Added(e.link, cs) \in [Current -> LinkStates]
      /\ noActiveAuthority(e.link) => noActiveAuthority(Added(e.link, cs))
  BY <1>1, AddedFacts
<1>3. f = [status |-> e.status, link |-> Added(e.link, cs)] /\ e.status \in {"DRAFT", "ACTIVE", "ARCHIVED"}
  BY DEF EmployeeRows
<1> QED
  BY <1>2, <1>3 DEF EmployeeRows

\* The links a transaction adds to the provider.
LEMMA ProvidedFacts ==
  ASSUME NEW r \in ProviderRows, NEW cs \in SUBSET Current, NEW caps \in {Base, Current}, NEW s,
         s = [status |-> r.status, caps |-> caps, link |-> Added(r.link, cs)]
  PROVE  /\ s \in ProviderRows /\ s.status = r.status /\ s.link = Added(r.link, cs)
         /\ Missing(s.link) \subseteq Missing(r.link)
         /\ noActiveAuthority(r.link) => noActiveAuthority(s.link)
<1>1. r.link \in [Current -> LinkStates]
  BY DEF ProviderRows
<1>2. /\ Added(r.link, cs) \in [Current -> LinkStates]
      /\ Missing(Added(r.link, cs)) \subseteq Missing(r.link)
      /\ noActiveAuthority(r.link) => noActiveAuthority(Added(r.link, cs))
  BY <1>1, AddedFacts
<1>3. r.status \in {"DISABLED", "ACTIVE"}
  BY DEF ProviderRows
<1> QED
  BY <1>2, <1>3 DEF ProviderRows

\* The employee the bootstrap creates.
LEMMA CreatedFacts ==
  ASSUME NEW e, e = [status |-> "DRAFT", link |-> Added(NoLinks, Current)]
  PROVE  e \in EmployeeRows /\ e.status = "DRAFT" /\ noActiveAuthority(e.link)
<1>1. NoLinks \in [Current -> LinkStates] /\ noActiveAuthority(NoLinks)
  BY DEF NoLinks, LinkStates, noActiveAuthority
<1>2. Added(NoLinks, Current) \in [Current -> LinkStates] /\ noActiveAuthority(Added(NoLinks, Current))
  BY <1>1, AddedFacts
<1> QED
  BY <1>2 DEF EmployeeRows

LEMMA CommitAgentStep ==
  ASSUME ProvisioningInv, NEW p \in AgentCalls, CommitAgent(p)
  PROVE  ProvisioningInv'
<1>1. p \in Calls /\ p \notin Bootstrappers /\ p \notin ReleaseCalls
  BY ProvisioningAssumption DEF Calls
<1>2. /\ Enter(p, "done") /\ UNCHANGED <<provider, changes, faults>>
      /\ call[p] \in CallRecords /\ call[p].pc = "read" /\ ~Clash(p)
  BY <1>1 DEF CommitAgent, Commit, At, ProvisioningInv, ProvisioningTypes
<1>3. /\ [NoCall EXCEPT !.pc = "done"] \in CallRecords
      /\ Move(p, [NoCall EXCEPT !.pc = "done"])
      /\ call'[p].pc = "done"
  BY <1>1, <1>2, EnterFacts DEF CallPc
<1>4. capability' \in [Current -> {"none", "governed", "other"}]
  BY <1>2, DefinedFacts DEF CommitAgent, CallRecords
<1>5. /\ employee' \in EmployeeRows
      /\ changes = 0 => employee'.status = "DRAFT" /\ noActiveAuthority(employee'.link)
  <2>1. CASE call[p].created
    BY <2>1, CreatedFacts DEF CommitAgent
  <2>2. CASE ~call[p].created
    <3>1. employee \in EmployeeRows
      BY <1>1, <1>2, <2>2 DEF ProvisioningInv, ProvisioningTypes, CallHolds
    <3>2. call[p].employs \in SUBSET Current
      BY <1>2 DEF CallRecords
    <3>3. employee' = [employee EXCEPT !.link = Added(@, call[p].employs)]
      BY <2>2 DEF CommitAgent
    <3>4. /\ employee' \in EmployeeRows /\ employee'.status = employee.status
          /\ noActiveAuthority(employee.link) => noActiveAuthority(employee'.link)
      BY <3>1, <3>2, <3>3, EmployedFacts
    <3> QED
      BY <3>1, <3>4, ProvisioningAssumption DEF ProvisioningInv, Quiet
  <2> QED
    BY <2>1, <2>2
<1>6. RowsStay
  BY <1>2, <1>5, ProvisioningAssumption DEF RowsStay
<1>7. Quiet'
  BY <1>2, <1>5 DEF ProvisioningInv, Quiet, noActiveAuthority
<1>8. CallHolds(p)'
  BY <1>1, <1>3 DEF CallHolds
<1> QED
  BY <1>1, <1>2, <1>3, <1>4, <1>5, <1>6, <1>7, <1>8, BootstrapStep DEF ProvisioningInv, ProvisioningTypes

LEMMA CommitReleaseStep ==
  ASSUME ProvisioningInv, NEW p \in ReleaseCalls, CommitRelease(p)
  PROVE  ProvisioningInv'
<1>1. p \in Calls /\ p \notin Bootstrappers /\ p \notin AgentCalls
  BY ProvisioningAssumption DEF Calls
<1>2. /\ Enter(p, "done") /\ UNCHANGED <<changes, faults>>
      /\ call[p] \in CallRecords /\ call[p].pc = "read"
  BY <1>1 DEF CommitRelease, Commit, At, ProvisioningInv, ProvisioningTypes
<1>3. /\ [NoCall EXCEPT !.pc = "done"] \in CallRecords
      /\ Move(p, [NoCall EXCEPT !.pc = "done"])
      /\ call'[p].pc = "done"
  BY <1>1, <1>2, EnterFacts DEF CallPc
<1>4. capability' \in [Current -> {"none", "governed", "other"}]
  BY <1>2, DefinedFacts DEF CommitRelease, CallRecords
<1>5. provider \in ProviderRows /\ employee \in EmployeeRows
  BY <1>1, <1>2 DEF ProvisioningInv, ProvisioningTypes, CallHolds
<1>6. call[p].employs \in SUBSET Current /\ call[p].provides \in SUBSET Current /\ call[p].upgrade \in BOOLEAN
  BY <1>2 DEF CallRecords
<1>7. /\ employee' \in EmployeeRows /\ employee'.status = employee.status
      /\ noActiveAuthority(employee.link) => noActiveAuthority(employee'.link)
  BY <1>5, <1>6, EmployedFacts DEF CommitRelease
<1>8. /\ provider' \in ProviderRows /\ provider'.status = provider.status
      /\ Missing(provider'.link) \subseteq Missing(provider.link)
      /\ noActiveAuthority(provider.link) => noActiveAuthority(provider'.link)
  <2>1. PICK caps \in {Base, Current} :
          provider' = [status |-> provider.status, caps |-> caps, link |-> Added(provider.link, call[p].provides)]
    BY <1>5 DEF CommitRelease, ProviderRows
  <2>2. PICK s : s = provider'
    OBVIOUS
  <2>3. /\ s \in ProviderRows /\ s.status = provider.status
        /\ Missing(s.link) \subseteq Missing(provider.link)
        /\ noActiveAuthority(provider.link) => noActiveAuthority(s.link)
    <3>1. s = [status |-> provider.status, caps |-> caps, link |-> Added(provider.link, call[p].provides)]
      BY <2>1, <2>2
    <3> QED
      BY <1>5, <1>6, <3>1, ProvidedFacts, SMTT(30)
  <2> QED
    BY <2>2, <2>3
<1>9. RowsStay
  BY <1>7, <1>8, ProvisioningAssumption DEF RowsStay
<1>10. Quiet'
  BY <1>2, <1>5, <1>7, <1>8, ProvisioningAssumption DEF ProvisioningInv, Quiet, noActiveAuthority
<1>11. CallHolds(p)'
  BY <1>1, <1>3 DEF CallHolds
<1> QED
  BY <1>1, <1>2, <1>3, <1>4, <1>7, <1>8, <1>9, <1>10, <1>11, BootstrapStep DEF ProvisioningInv, ProvisioningTypes

\* The administration of either row: no bootstrap moves, and some row may be active.
LEMMA AdministrationStep ==
  ASSUME ProvisioningInv, Change, RowsStay,
         provider' \in ProviderRows \cup {ABSENT}, employee' \in EmployeeRows \cup {ABSENT},
         UNCHANGED capability
  PROVE  ProvisioningInv'
<1>1. changes \in 0..MaxChanges /\ changes' = changes + 1 /\ changes < MaxChanges /\ UNCHANGED <<call, faults>>
  BY DEF Change, ProvisioningInv, ProvisioningTypes
<1>2. changes' \in 0..MaxChanges /\ changes' # 0
  BY <1>1, ProvisioningAssumption
<1>3. ProvisioningTypes'
  BY <1>1, <1>2 DEF ProvisioningInv, ProvisioningTypes
<1>4. Quiet'
  BY <1>2 DEF Quiet
<1>5. ASSUME NEW p \in Calls PROVE CallHolds(p)'
  BY <1>1, CallKept
<1> QED
  BY <1>3, <1>4, <1>5 DEF ProvisioningInv

LEMMA AdministerProviderStep ==
  ASSUME ProvisioningInv, AdministerProvider
  PROVE  ProvisioningInv'
<1>1. provider \in ProviderRows /\ UNCHANGED <<employee, capability>>
  BY DEF AdministerProvider, ProvisioningInv, ProvisioningTypes
<1>2. provider' \in ProviderRows /\ Missing(provider'.link) \subseteq Missing(provider.link)
  <2>1. ASSUME NEW s \in {"ACTIVE", "DISABLED"}, provider' = [provider EXCEPT !.status = s]
        PROVE  <1>2!1 /\ <1>2!2
    BY <1>1, <2>1 DEF ProviderRows
  <2>2. ASSUME NEW c \in Current, NEW l \in {"enabled", "disabled"},
               provider' = [provider EXCEPT !.link[c] = l]
        PROVE  <1>2!1 /\ <1>2!2
    <3>1. /\ provider.link \in [Current -> LinkStates]
          /\ provider' = [provider EXCEPT !.link = [provider.link EXCEPT ![c] = l]]
      BY <1>1, <2>2 DEF ProviderRows
    <3>2. [provider.link EXCEPT ![c] = l] \in [Current -> LinkStates]
      BY <3>1 DEF LinkStates
    <3>3. provider' \in ProviderRows /\ provider'.link = [provider.link EXCEPT ![c] = l]
      BY <1>1, <3>1, <3>2 DEF ProviderRows
    <3> QED
      BY <3>1, <3>3 DEF Missing
  <2> QED
    BY <2>1, <2>2 DEF AdministerProvider
<1>3. RowsStay
  BY <1>1, <1>2, ProvisioningAssumption DEF RowsStay
<1> QED
  BY <1>1, <1>2, <1>3, AdministrationStep DEF AdministerProvider, ProvisioningInv, ProvisioningTypes

LEMMA AdministerAgentStep ==
  ASSUME ProvisioningInv, AdministerAgent
  PROVE  ProvisioningInv'
<1>1. employee \in EmployeeRows /\ UNCHANGED <<provider, capability>>
  BY DEF AdministerAgent, ProvisioningInv, ProvisioningTypes
<1>2. employee' \in EmployeeRows
  <2>1. ASSUME NEW s \in {"ACTIVE", "ARCHIVED"}, employee' = [employee EXCEPT !.status = s]
        PROVE  employee' \in EmployeeRows
    BY <1>1, <2>1 DEF EmployeeRows
  <2>2. ASSUME NEW c \in Current, NEW l \in {"enabled", "disabled", "none"},
               employee' = [employee EXCEPT !.link[c] = l]
        PROVE  employee' \in EmployeeRows
    <3>1. /\ employee.link \in [Current -> LinkStates]
          /\ employee' = [employee EXCEPT !.link = [employee.link EXCEPT ![c] = l]]
      BY <1>1, <2>2 DEF EmployeeRows
    <3>2. [employee.link EXCEPT ![c] = l] \in [Current -> LinkStates]
      BY <3>1 DEF LinkStates
    <3> QED
      BY <1>1, <3>1, <3>2 DEF EmployeeRows
  <2> QED
    BY <2>1, <2>2 DEF AdministerAgent
<1>3. RowsStay
  BY <1>1, <1>2, ProvisioningAssumption DEF RowsStay
<1> QED
  BY <1>1, <1>2, <1>3, AdministrationStep DEF AdministerAgent, ProvisioningInv, ProvisioningTypes

LEMMA ProvisioningInitInv == ProvisioningInit => ProvisioningInv
<1> SUFFICES ASSUME ProvisioningInit PROVE ProvisioningInv
  OBVIOUS
<1> DEFINE old == [status |-> "DISABLED", caps |-> Base,
                   link |-> [c \in Current |-> IF c = Release THEN "none" ELSE "disabled"]]
<1>1. old \in ProviderRows /\ old.status = "DISABLED" /\ noActiveAuthority(old.link)
  BY DEF ProviderRows, LinkStates, noActiveAuthority
<1>2. provider \in {ABSENT, old} /\ employee = ABSENT /\ changes = 0 /\ faults = 0
  BY DEF ProvisioningInit
<1>3. capability \in [Current -> {"none", "governed", "other"}]
  BY DEF ProvisioningInit
<1>4. NoCall \in CallRecords /\ NoCall.pc = "idle"
  BY DEF NoCall, CallRecords, CallPc
<1>5. call \in [Calls -> CallRecords] /\ \A p \in Calls : call[p] = NoCall
  BY <1>4 DEF ProvisioningInit
<1> HIDE DEF old
<1>6. ProvisioningTypes
  BY <1>1, <1>2, <1>3, <1>5, ProvisioningAssumption DEF ProvisioningTypes
<1>7. Quiet
  BY <1>1, <1>2 DEF Quiet
<1>8. ASSUME NEW p \in Calls PROVE CallHolds(p)
  BY <1>4, <1>5 DEF CallHolds
<1> QED
  BY <1>6, <1>7, <1>8 DEF ProvisioningInv

LEMMA ProvisioningNextInv == ProvisioningInv /\ [ProvisioningNext]_provisioningVars => ProvisioningInv'
<1> SUFFICES ASSUME ProvisioningInv, [ProvisioningNext]_provisioningVars PROVE ProvisioningInv'
  OBVIOUS
<1>1. ASSUME NEW p \in Bootstrappers,
             findProvider(p) \/ createProvider(p) \/ listCapabilities(p) \/ Assign(p)
      PROVE  ProvisioningInv'
  BY <1>1, findProviderStep, createProviderStep, listCapabilitiesStep, AssignStep
<1>2. ASSUME NEW p \in AgentCalls, ReadAgentRows(p) \/ CommitAgent(p) PROVE ProvisioningInv'
  BY <1>2, ReadAgentRowsStep, CommitAgentStep
<1>3. ASSUME NEW p \in ReleaseCalls, ReadReleaseRows(p) \/ CommitRelease(p) PROVE ProvisioningInv'
  BY <1>3, ReadReleaseRowsStep, CommitReleaseStep
<1>4. ASSUME NEW p \in AgentCalls \cup ReleaseCalls, Conflict(p) PROVE ProvisioningInv'
  BY <1>4, ConflictStep
<1>5. ASSUME NEW p \in Calls, Fault(p) PROVE ProvisioningInv'
  BY <1>5, FaultStep
<1>6. CASE AdministerProvider \/ AdministerAgent
  BY <1>6, AdministerProviderStep, AdministerAgentStep
<1>7. CASE UNCHANGED provisioningVars
  BY <1>7 DEF provisioningVars, ProvisioningInv, ProvisioningTypes, Quiet, CallHolds, Missing, noActiveAuthority
<1> QED
  BY <1>1, <1>2, <1>3, <1>4, <1>5, <1>6, <1>7 DEF ProvisioningNext

LEMMA ProvisioningInvariance == ProvisioningSpec => []ProvisioningInv
BY ProvisioningInitInv, ProvisioningNextInv, PTL DEF ProvisioningSpec

\* The rows and the counters of the bootstraps keep the types the model declares,
\* whatever overlaps (the provisioning services and the registries they call).
THEOREM ProvisioningTypeCorrect == ProvisioningSpec => []ProvisioningTypeOK
<1>1. ProvisioningInv => ProvisioningTypeOK
  <2> SUFFICES ASSUME ProvisioningInv PROVE ProvisioningTypeOK
    OBVIOUS
  <2>1. ASSUME NEW p \in Calls PROVE call[p].rest \subseteq Current
    BY DEF ProvisioningInv, ProvisioningTypes, CallRecords
  <2> QED
    BY <2>1 DEF ProvisioningInv, ProvisioningTypes, ProvisioningTypeOK
<1> QED
  BY <1>1, ProvisioningInvariance, PTL

\* A provider bootstrap that reports success has created every link, although each
\* link is a transaction of its own and others run beside it; and what a bootstrap
\* that failed half way left behind passes the checks of the next one
\* (bootstrap of EngineeringProviderProvisioningService and of the agent's).
THEOREM BootstrapsComplete == ProvisioningSpec => []BootstrapCompletes
<1>1. ProvisioningInv => BootstrapCompletes
  <2> SUFFICES ASSUME ProvisioningInv PROVE BootstrapCompletes
    OBVIOUS
  <2>1. ProvisionedCompletely
    BY DEF ProvisioningInv, CallHolds, ProvisionedCompletely, At, Calls
  <2>2. RetryAccepted
    BY DEF ProvisioningInv, Quiet, RetryAccepted, matchesBootstrap
  <2> QED
    BY <2>1, <2>2 DEF BootstrapCompletes
<1> QED
  BY <1>1, ProvisioningInvariance, PTL

\* What a step that is not administration leaves alone of the rows that exist.
Authority ==
  /\ provider # ABSENT => /\ provider'.status = provider.status
                          /\ Untouched(provider.link, provider'.link)
  /\ employee # ABSENT => /\ employee'.status = employee.status
                          /\ Untouched(employee.link, employee'.link)

\* A row whose links are the same or only added to.
LEMMA AddedUntouched ==
  ASSUME NEW links \in [Current -> LinkStates], NEW cs \in SUBSET Current,
         \A c \in cs : links[c] = "none"
  PROVE  Untouched(links, Added(links, cs))
BY DEF Untouched, Added

\* A bootstrap, beside any administration, changes neither the status nor a link of
\* a row that exists: what its transaction inserts is missing when it commits, or the
\* unique index refuses it ("bootstrap will not modify active authority").
THEOREM AuthorityStays == ProvisioningSpec => AuthorityUntouched
<1>1. ASSUME ProvisioningInv, [ProvisioningNext]_provisioningVars, changes' = changes
      PROVE  Authority
  <2>1. CASE UNCHANGED <<provider, employee>>
    BY <2>1 DEF Authority, Untouched
  <2>2. ASSUME NEW p \in Bootstrappers, createProvider(p) PROVE Authority
    BY <2>2 DEF createProvider, Authority, Untouched
  <2>3. ASSUME NEW p \in Bootstrappers, Assign(p), ~UNCHANGED provider PROVE Authority
    <3>1. p \in Calls /\ call[p] \in CallRecords /\ call[p].pc = "assign" /\ UNCHANGED employee
      BY <1>1, <2>3 DEF ProvisioningInv, ProvisioningTypes, Assign, At, Calls
    <3>2. provider \in ProviderRows
      BY <1>1, <3>1 DEF ProvisioningInv, ProvisioningTypes, CallHolds
    <3>3. PICK c \in call[p].rest : assignMissing(p, c)
      BY <2>3 DEF Assign
    <3>4. c \in Current /\ provider.link[c] = "none"
      BY <2>3, <3>1, <3>3 DEF CallRecords, assignMissing
    <3>5. /\ provider'.status = provider.status
          /\ provider'.link = [provider.link EXCEPT ![c] = "disabled"]
      BY <3>2, <3>3, <3>4 DEF assignMissing, ProviderRows
    <3> QED
      BY <3>1, <3>2, <3>4, <3>5 DEF Authority, Untouched, ProviderRows
  <2>4. ASSUME NEW p \in AgentCalls, CommitAgent(p) PROVE Authority
    <3>1. p \in Calls /\ call[p] \in CallRecords /\ ~Clash(p) /\ UNCHANGED provider
      BY <1>1, <2>4 DEF ProvisioningInv, ProvisioningTypes, CommitAgent, Calls
    <3>2. CASE employee # ABSENT
      <4>1. ~call[p].created /\ \A c \in call[p].employs : employee.link[c] = "none"
        BY <3>1, <3>2 DEF Clash
      <4>2. employee \in EmployeeRows /\ call[p].employs \in SUBSET Current
        BY <1>1, <3>1, <3>2 DEF ProvisioningInv, ProvisioningTypes, CallRecords
      <4>3. employee' = [employee EXCEPT !.link = Added(@, call[p].employs)]
        BY <2>4, <4>1 DEF CommitAgent
      <4>4. employee'.status = employee.status /\ employee'.link = Added(employee.link, call[p].employs)
        BY <4>2, <4>3, EmployedFacts
      <4>5. Untouched(employee.link, employee'.link)
        BY <4>1, <4>2, <4>4, AddedUntouched DEF EmployeeRows
      <4> QED
        BY <3>1, <4>4, <4>5 DEF Authority, Untouched
    <3> QED
      BY <3>1, <3>2 DEF Authority, Untouched
  <2>5. ASSUME NEW p \in ReleaseCalls, CommitRelease(p) PROVE Authority
    <3>1. p \in Calls /\ p \in ReleaseCalls /\ call[p] \in CallRecords /\ call[p].pc = "read" /\ ~Clash(p)
      BY <1>1, <2>5 DEF ProvisioningInv, ProvisioningTypes, CommitRelease, Commit, At, Calls
    <3>2. provider \in ProviderRows /\ employee \in EmployeeRows
      BY <1>1, <3>1 DEF ProvisioningInv, ProvisioningTypes, CallHolds
    <3>3. /\ \A c \in call[p].employs : employee.link[c] = "none"
          /\ \A c \in call[p].provides : provider.link[c] = "none"
      BY <3>1, <3>2, ProvisioningAssumption DEF Clash
    <3>4. call[p].employs \in SUBSET Current /\ call[p].provides \in SUBSET Current /\ call[p].upgrade \in BOOLEAN
      BY <3>1 DEF CallRecords
    <3>5. PICK caps \in {Base, Current} :
            provider' = [status |-> provider.status, caps |-> caps, link |-> Added(provider.link, call[p].provides)]
      BY <2>5, <3>2 DEF CommitRelease, ProviderRows
    <3>6. /\ employee'.status = employee.status /\ employee'.link = Added(employee.link, call[p].employs)
          /\ provider'.status = provider.status /\ provider'.link = Added(provider.link, call[p].provides)
      BY <2>5, <3>2, <3>4, <3>5, EmployedFacts, ProvidedFacts DEF CommitRelease
    <3>7. Untouched(employee.link, employee'.link) /\ Untouched(provider.link, provider'.link)
      BY <3>2, <3>3, <3>4, <3>6, AddedUntouched DEF EmployeeRows, ProviderRows
    <3> QED
      BY <3>6, <3>7 DEF Authority
  <2>6. CASE AdministerProvider \/ AdministerAgent
    <3>1. changes' = changes + 1 /\ changes \in Nat
      BY <1>1, <2>6 DEF AdministerProvider, AdministerAgent, Change, ProvisioningInv, ProvisioningTypes
    <3> QED
      BY <1>1, <3>1
  <2>7. ASSUME NEW p \in Bootstrappers, findProvider(p) \/ listCapabilities(p) PROVE Authority
    BY <2>7, <2>1 DEF findProvider, listCapabilities, Rows
  <2>8. ASSUME NEW p \in Calls, Fault(p) \/ Conflict(p) PROVE Authority
    BY <2>8, <2>1 DEF Fault, Conflict, Rows
  <2>9. ASSUME NEW p \in Calls, ReadAgentRows(p) \/ ReadReleaseRows(p) PROVE Authority
    BY <2>9, <2>1 DEF ReadAgentRows, ReadReleaseRows, ReadRows, Rows
  <2>10. ASSUME NEW p \in Bootstrappers, Assign(p), UNCHANGED provider PROVE Authority
    BY <2>10, <2>1 DEF Assign
  <2>11. CASE UNCHANGED provisioningVars
    BY <2>11, <2>1 DEF provisioningVars
  <2> QED
    BY <1>1, <2>2, <2>3, <2>4, <2>5, <2>6, <2>7, <2>8, <2>9, <2>10, <2>11 DEF ProvisioningNext, Calls
<1>2. ProvisioningInv /\ [ProvisioningNext]_provisioningVars => [LeavesAuthority]_provisioningVars
  BY <1>1 DEF LeavesAuthority, Authority
<1> QED
  BY <1>2, ProvisioningInvariance, PTL DEF ProvisioningSpec, AuthorityUntouched

-----------------------------------------------------------------------------
(* Learning.                                                               *)

\* An operation, and the input it was asked for.
IsWork(w) ==
  /\ w = [pc |-> w.pc, op |-> w.op, in |-> w.in, at |-> w.at]
  /\ w.at \in Nat
  /\ w.pc # "idle" => w.op \in DOMAIN InputTypes /\ w.in \in InputTypes[w.op]

\* The outcomes a reflection is going to cite.
Cited(w) == IF w.op = "pipeline" THEN {w.at} ELSE w.in

\* What an operation has read and relies on when it writes.
WorkHolds(w) ==
  /\ w.pc = "mark" => db.outcomes # <<>>
  /\ w.pc = "reflect" => Cited(w) # {} /\ Cited(w) \subseteq DOMAIN db.outcomes
  /\ w.pc \in {"reflected", "candidate", "observe"} => w.at \in DOMAIN db.reflections
  /\ w.op = "promotion" /\ w.pc \in {"change", "ledger"} =>
       /\ w.in.candidate \in DOMAIN db.candidates
       /\ w.at \in 1..4 /\ (w.in.to = w.at + 1 \/ w.in.to + 1 = w.at)
  /\ w.op = "skill" /\ w.pc = "create" =>
       /\ \E i, j \in w.in.outcomes : i # j
       /\ w.in.outcomes \subseteq DOMAIN db.outcomes
       /\ failures = 0 => WasPattern(w.in.candidate)

LedgerNamesCandidates == \A i \in DOMAIN db.ledger : db.ledger[i].candidate \in DOMAIN db.candidates

SkillsWerePatterns == failures = 0 => \A s \in DOMAIN db.skills : WasPattern(db.skills[s].candidate)

\* Two pending reviews of one skill are the same.
PendingUnique ==
  \A v, w \in DOMAIN db.reviews :
    /\ db.reviews[v].skill = db.reviews[w].skill
    /\ db.reviews[v].status = "PENDING_REVIEW" /\ db.reviews[w].status = "PENDING_REVIEW"
    => v = w

LearningTypes ==
  /\ db \in Tables
  /\ work = [r \in Operations |-> work[r]]
  /\ \A r \in Operations : IsWork(work[r])
  /\ begun \in 0..MaxOperations /\ failures \in 0..MaxFailures

LearningInv ==
  /\ LearningTypes
  /\ EvidenceIn(db)
  /\ LedgerNamesCandidates
  /\ LedgerExplainsMaturity
  /\ SkillsWerePatterns
  /\ PendingUnique
  /\ \A r \in Operations : WorkHolds(work[r])

\* A promotion whose record is about to be written.
AtLedger(w) == w.op = "promotion" /\ w.pc = "ledger"

\* Rows stay, and so does what the ledger shows, unless a statement failed.
Grows ==
  /\ DOMAIN db.outcomes \subseteq DOMAIN db'.outcomes
  /\ DOMAIN db.reflections \subseteq DOMAIN db'.reflections
  /\ DOMAIN db.candidates \subseteq DOMAIN db'.candidates
  /\ failures' = 0 => failures = 0 /\ \A c : WasPattern(c) => WasPattern(c)'

\* Of a table: its rows have numbers, and inserting adds one.
LEMMA TableFacts ==
  ASSUME NEW S, NEW s \in Seq(S)
  PROVE  /\ DOMAIN s = 1..Len(s) /\ Len(s) \in Nat
         /\ s # <<>> <=> 1 \in DOMAIN s
         /\ \A i \in DOMAIN s : s[i] \in S
<1>1. s = <<>> <=> Len(s) = 0
  BY EmptySeq, LenProperties
<1> QED
  BY <1>1

LEMMA InsertFacts ==
  ASSUME NEW S, NEW s \in Seq(S), NEW e \in S, NEW t, t = Append(s, e)
  PROVE  /\ t \in Seq(S) /\ DOMAIN t = DOMAIN s \cup {Len(s) + 1} /\ Len(s) + 1 \notin DOMAIN s
         /\ t[Len(s) + 1] = e /\ \A i \in DOMAIN s : t[i] = s[i]
         /\ t # <<>>
BY AppendProperties, LenProperties, EmptySeq

\* The sets the ledger is counted by are finite.
LEMMA LoggedFinite ==
  ASSUME NEW t \in Tables, NEW c, NEW to, NEW from
  PROVE  IsFiniteSet(logged(t, c, to, from)) /\ Cardinality(logged(t, c, to, from)) \in Nat
<1>1. t.ledger \in Seq([candidate : Nat, from : 1..4, to : 1..4, approved : BOOLEAN])
  BY DEF Tables
<1>2. DOMAIN t.ledger = 1..Len(t.ledger) /\ Len(t.ledger) \in Nat
  BY <1>1, TableFacts
<1>3. IsFiniteSet(DOMAIN t.ledger)
  BY <1>2, FS_Interval
<1>4. logged(t, c, to, from) \in SUBSET DOMAIN t.ledger
  BY DEF logged
<1> QED
  BY <1>3, <1>4, FS_Subset, FS_CardinalityType

LEMMA UnloggedFinite ==
  ASSUME NEW c, NEW to, NEW from
  PROVE  IsFiniteSet(unlogged(c, to, from)) /\ Cardinality(unlogged(c, to, from)) \in Nat
<1>1. unlogged(c, to, from) \in SUBSET Operations
  BY DEF unlogged
<1> QED
  BY <1>1, LearningAssumption, FS_Subset, FS_CardinalityType

\* A step of an operation, as the others see it.
LEMMA WorkFacts ==
  ASSUME LearningInv, NEW r \in Operations, NEW w, SetWork(r, w)
  PROVE  /\ work' = [q \in Operations |-> work'[q]]
         /\ work'[r] = w
         /\ \A q \in Operations : q # r => work'[q] = work[q]
BY DEF LearningInv, LearningTypes, SetWork

\* A step that has nothing to do with promotions leaves the ledger explained.
LEMMA LedgerKept ==
  ASSUME LearningInv, NEW r \in Operations, NEW w, SetWork(r, w), ~AtLedger(work[r]), ~AtLedger(w),
         db'.ledger = db.ledger, db'.candidates = db.candidates, failures' = failures
  PROVE  LedgerNamesCandidates' /\ LedgerExplainsMaturity' /\ \A c : WasPattern(c) <=> WasPattern(c)'
<1>1. \A q \in Operations : /\ WorkAt(q, "promotion", "ledger")' <=> WorkAt(q, "promotion", "ledger")
                            /\ WorkAt(q, "promotion", "ledger") => work'[q] = work[q]
  BY WorkFacts DEF WorkAt, AtLedger
<1>2. ASSUME NEW c, NEW to, NEW from
      PROVE  unlogged(c, to, from)' = unlogged(c, to, from) /\ logged(db, c, to, from)' = logged(db, c, to, from)
  BY <1>1 DEF unlogged, logged
<1>3. LedgerNamesCandidates'
  BY DEF LearningInv, LedgerNamesCandidates
<1>4. LedgerExplainsMaturity'
  BY <1>2 DEF LearningInv, LedgerExplainsMaturity
<1>5. ASSUME NEW c PROVE WasPattern(c) <=> WasPattern(c)'
  BY <1>1 DEF WasPattern, patternOnRecord
<1> QED
  BY <1>3, <1>4, <1>5

\* What an operation relies on survives the steps of others.
LEMMA WorkKept ==
  ASSUME LearningInv, Grows, db' \in Tables, NEW q \in Operations, work'[q] = work[q]
  PROVE  WorkHolds(work[q])'
<1>1. WorkHolds(work[q])
  BY DEF LearningInv
<1>2. db.outcomes # <<>> => db'.outcomes # <<>>
  <2>1. db.outcomes \in Seq([runtime : BOOLEAN, score : Scores]) /\ db'.outcomes \in Seq([runtime : BOOLEAN, score : Scores])
    BY DEF LearningInv, LearningTypes, Tables
  <2> QED
    BY <2>1, TableFacts DEF Grows
<1> QED
  BY <1>1, <1>2 DEF WorkHolds, Grows, Cited

\* One step of one operation.
LEMMA OperationStep ==
  ASSUME LearningInv, NEW r \in Operations, NEW w, SetWork(r, w), IsWork(w), Grows,
         db' \in Tables, begun' \in 0..MaxOperations, failures' \in 0..MaxFailures,
         EvidenceIn(db)', LedgerNamesCandidates', LedgerExplainsMaturity', SkillsWerePatterns', PendingUnique',
         WorkHolds(w)'
  PROVE  LearningInv'
<1>1. /\ work' = [q \in Operations |-> work'[q]] /\ work'[r] = w
      /\ \A q \in Operations : q # r => work'[q] = work[q]
  BY WorkFacts
<1>2. \A q \in Operations : IsWork(work'[q])
  BY <1>1 DEF LearningInv, LearningTypes
<1>3. LearningTypes'
  BY <1>1, <1>2 DEF LearningTypes
<1>4. ASSUME NEW q \in Operations PROVE WorkHolds(work[q])'
  <2>1. CASE q = r
    BY <1>1, <2>1 DEF WorkHolds, Cited
  <2>2. CASE q # r
    BY <1>1, <2>2, WorkKept
  <2> QED
    BY <2>1, <2>2
<1> QED
  BY <1>3, <1>4 DEF LearningInv

\* A step that changes what the tables hold, but neither candidates nor promotions.
LEMMA DataStep ==
  ASSUME LearningInv, NEW r \in Operations, NEW w, SetWork(r, w), IsWork(w),
         ~AtLedger(work[r]), ~AtLedger(w), UNCHANGED failures, begun' \in 0..MaxOperations,
         db' \in Tables, db'.ledger = db.ledger, db'.candidates = db.candidates,
         DOMAIN db.outcomes \subseteq DOMAIN db'.outcomes, DOMAIN db.reflections \subseteq DOMAIN db'.reflections,
         EvidenceIn(db)', PendingUnique', WorkHolds(w)',
         \A s \in DOMAIN db'.skills :
           \/ s \in DOMAIN db.skills /\ db'.skills[s] = db.skills[s]
           \/ failures = 0 => WasPattern(db'.skills[s].candidate)
  PROVE  LearningInv'
<1>1. LedgerNamesCandidates' /\ LedgerExplainsMaturity' /\ \A c : WasPattern(c) <=> WasPattern(c)'
  BY LedgerKept
<1>2. Grows
  BY <1>1 DEF Grows
<1>3. SkillsWerePatterns'
  BY <1>1 DEF LearningInv, SkillsWerePatterns
<1>4. failures' \in 0..MaxFailures
  BY DEF LearningInv, LearningTypes
<1> QED
  BY <1>1, <1>2, <1>3, <1>4, OperationStep

\* A step that only reads.
LEMMA SilentStep ==
  ASSUME LearningInv, NEW r \in Operations, NEW w, SetWork(r, w), IsWork(w),
         ~AtLedger(work[r]), ~AtLedger(w), UNCHANGED <<db, failures>>, begun' \in 0..MaxOperations, WorkHolds(w)
  PROVE  LearningInv'
<1>1. db' \in Tables /\ EvidenceIn(db)' /\ PendingUnique'
  BY DEF LearningInv, LearningTypes, EvidenceIn, PendingUnique
<1>2. \A c : WasPattern(c) <=> WasPattern(c)'
  BY LedgerKept
<1>3. WorkHolds(w)'
  BY <1>2 DEF WorkHolds, Cited
<1> QED
  BY <1>1, <1>3, DataStep

\* An operation that has ended holds nothing.
LEMMA NoOperationFacts ==
  /\ IsWork(NoOperation) /\ ~AtLedger(NoOperation)
  /\ WorkHolds(NoOperation) /\ WorkHolds(NoOperation)'
BY DEF IsWork, NoOperation, AtLedger, WorkHolds, Cited

LEMMA FinishSilently ==
  ASSUME LearningInv, NEW r \in Operations, Finish(r), ~AtLedger(work[r]), UNCHANGED <<db, begun, failures>>
  PROVE  LearningInv'
BY NoOperationFacts, SilentStep DEF Finish, LearningInv, LearningTypes

\* The operation moves on as w, and keeps its kind and its input.
Moved(r, w, pc, at) ==
  /\ SetWork(r, w) /\ IsWork(w) /\ w.pc = pc /\ w.at = at
  /\ w.op = work[r].op /\ w.in = work[r].in /\ w.in \in InputTypes[w.op]

LEMMA RememberFacts ==
  ASSUME LearningInv, NEW r \in Operations, work[r].pc # "idle", NEW pc, NEW at \in Nat, Remember(r, pc, at)
  PROVE  \E w : Moved(r, w, pc, at)
<1>1. IsWork(work[r])
  BY DEF LearningInv, LearningTypes
<1>2. PICK w : w = [pc |-> pc, op |-> work[r].op, in |-> work[r].in, at |-> at]
  OBVIOUS
<1>3. SetWork(r, w)
  <2>1. w = [work[r] EXCEPT !.pc = pc, !.at = at]
    <3>1. PICK u : u = [pc |-> pc, op |-> work[r].op, in |-> work[r].in, at |-> work[r].at]
      OBVIOUS
    <3>2. u = [work[r] EXCEPT !.pc = pc]
      BY <1>1, <3>1 DEF IsWork
    <3>3. w = [u EXCEPT !.at = at]
      BY <1>2, <3>1
    <3> QED
      BY <3>2, <3>3
  <2> QED
    BY <2>1 DEF Remember
<1> QED
  BY <1>1, <1>2, <1>3 DEF IsWork, Moved

LEMMA ContinueFacts ==
  ASSUME LearningInv, NEW r \in Operations, work[r].pc # "idle", NEW pc, Continue(r, pc)
  PROVE  \E w : Moved(r, w, pc, work[r].at)
<1>1. IsWork(work[r])
  BY DEF LearningInv, LearningTypes
<1>2. PICK w : w = [pc |-> pc, op |-> work[r].op, in |-> work[r].in, at |-> work[r].at]
  OBVIOUS
<1>3. SetWork(r, w)
  <2>1. w = [work[r] EXCEPT !.pc = pc]
    BY <1>1, <1>2 DEF IsWork
  <2> QED
    BY <2>1 DEF Continue
<1> QED
  BY <1>1, <1>2, <1>3 DEF IsWork, Moved

LEMMA BeginStep ==
  ASSUME LearningInv, NEW r \in Operations, NEW op \in DOMAIN Inputs, NEW in \in Inputs[op], Begin(r, op, in)
  PROVE  LearningInv'
<1>1. PICK w : w = [NoOperation EXCEPT !.pc = "begin", !.op = op, !.in = in]
  OBVIOUS
<1>2. w = [pc |-> "begin", op |-> op, in |-> in, at |-> 0]
  BY <1>1 DEF NoOperation
<1>3. op \in DOMAIN InputTypes /\ in \in InputTypes[op]
  BY LearningAssumption
<1>4. IsWork(w) /\ ~AtLedger(w) /\ WorkHolds(w)
  BY <1>2, <1>3 DEF IsWork, AtLedger, WorkHolds
<1>5. SetWork(r, w) /\ UNCHANGED <<db, failures>> /\ ~AtLedger(work[r])
  BY <1>1 DEF Begin, AtLedger
<1>6. begun' \in 0..MaxOperations
  BY LearningAssumption DEF Begin, LearningInv, LearningTypes
<1> QED
  BY <1>4, <1>5, <1>6, SilentStep

\* A statement that failed explains a gap in the ledger.
LEMMA FailsStep ==
  ASSUME LearningInv, NEW r \in Operations, Fails(r)
  PROVE  LearningInv'
<1>1. failures' \in 0..MaxFailures /\ failures' # 0 /\ UNCHANGED <<db, begun>> /\ SetWork(r, NoOperation)
  BY LearningAssumption DEF Fails, Finish, LearningInv, LearningTypes
<1>2. Grows
  BY <1>1 DEF Grows
<1>3. /\ db' \in Tables /\ EvidenceIn(db)' /\ PendingUnique' /\ LedgerNamesCandidates'
      /\ begun' \in 0..MaxOperations
  BY <1>1 DEF LearningInv, LearningTypes, EvidenceIn, PendingUnique, LedgerNamesCandidates
<1>4. LedgerExplainsMaturity' /\ SkillsWerePatterns'
  BY <1>1 DEF LedgerExplainsMaturity, SkillsWerePatterns
<1> QED
  BY <1>1, <1>2, <1>3, <1>4, NoOperationFacts, OperationStep

LEMMA ReadOutcomesStep ==
  ASSUME LearningInv, NEW r \in Operations, ReadOutcomes(r), UNCHANGED <<begun, failures>>
  PROVE  LearningInv'
<1>1. work[r].op \in {"outcome", "pipeline"} /\ work[r].pc = "begin" /\ UNCHANGED db /\ ~AtLedger(work[r])
  BY DEF ReadOutcomes, AtLedger
<1>2. CASE Finish(r)
  BY <1>1, <1>2, FinishSilently
<1>3. ASSUME NEW pc \in {"process", "create"}, Continue(r, pc) PROVE LearningInv'
  <2>1. PICK w : Moved(r, w, pc, work[r].at)
    BY <1>1, <1>3, ContinueFacts
  <2>2. ~AtLedger(w) /\ WorkHolds(w)
    BY <1>1, <2>1 DEF Moved, AtLedger, WorkHolds
  <2> QED
    BY <1>1, <2>1, <2>2, SilentStep DEF Moved, LearningInv, LearningTypes
<1> QED
  BY <1>2, <1>3 DEF ReadOutcomes

LEMMA ProcessStep ==
  ASSUME LearningInv, NEW r \in Operations, Process(r), UNCHANGED <<begun, failures>>
  PROVE  LearningInv'
<1>1. work[r].op = "pipeline" /\ work[r].pc = "process" /\ UNCHANGED db /\ ~AtLedger(work[r])
  BY DEF Process, WorkAt, AtLedger
<1>2. CASE Finish(r)
  BY <1>1, <1>2, FinishSilently
<1>3. /\ \A i \in DOMAIN db.outcomes : i \in Nat
      /\ \A j \in DOMAIN db.reflections : j \in Nat
  <2>1. /\ db.outcomes \in Seq([runtime : BOOLEAN, score : Scores])
        /\ db.reflections \in Seq(SUBSET Nat)
    BY DEF LearningInv, LearningTypes, Tables
  <2> QED
    BY <2>1, TableFacts
<1>4. ASSUME NEW i \in DOMAIN db.outcomes, Remember(r, "reflect", i)
      PROVE  LearningInv'
  <2>1. i \in Nat
    BY <1>3
  <2>2. PICK w : Moved(r, w, "reflect", i)
    BY <1>1, <1>4, <2>1, RememberFacts
  <2>3. ~AtLedger(w) /\ WorkHolds(w)
    BY <1>1, <2>2 DEF Moved, AtLedger, WorkHolds, Cited
  <2> QED
    BY <1>1, <2>2, <2>3, SilentStep DEF Moved, LearningInv, LearningTypes
<1>5. ASSUME NEW j \in DOMAIN db.reflections, Remember(r, "candidate", j)
      PROVE  LearningInv'
  <2>1. j \in Nat
    BY <1>3
  <2>2. PICK w : Moved(r, w, "candidate", j)
    BY <1>1, <1>5, <2>1, RememberFacts
  <2>3. ~AtLedger(w) /\ WorkHolds(w)
    BY <1>1, <2>2 DEF Moved, AtLedger, WorkHolds
  <2> QED
    BY <1>1, <2>2, <2>3, SilentStep DEF Moved, LearningInv, LearningTypes
<1> QED
  BY <1>2, <1>4, <1>5 DEF Process, runtimeOutcomes, reflectionsOf

LEMMA ReadForReflectionStep ==
  ASSUME LearningInv, NEW r \in Operations, ReadForReflection(r), UNCHANGED <<begun, failures>>
  PROVE  LearningInv'
<1>1. work[r].op = "reflection" /\ work[r].pc = "begin" /\ UNCHANGED db /\ ~AtLedger(work[r])
  BY DEF ReadForReflection, WorkAt, AtLedger
<1>2. CASE Finish(r)
  BY <1>1, <1>2, FinishSilently
<1>3. CASE Continue(r, "reflect") /\ work[r].in \subseteq DOMAIN db.outcomes
  <2>1. PICK w : Moved(r, w, "reflect", work[r].at)
    BY <1>1, <1>3, ContinueFacts
  <2>2. w.in # {}
    BY <1>1, <2>1 DEF Moved, InputTypes
  <2>3. ~AtLedger(w) /\ WorkHolds(w)
    BY <1>1, <1>3, <2>1, <2>2 DEF Moved, AtLedger, WorkHolds, Cited
  <2> QED
    BY <1>1, <2>1, <2>3, SilentStep DEF Moved, LearningInv, LearningTypes
<1> QED
  BY <1>2, <1>3 DEF ReadForReflection

LEMMA FindCandidateStep ==
  ASSUME LearningInv, NEW r \in Operations, FindCandidate(r), UNCHANGED <<begun, failures>>
  PROVE  LearningInv'
<1>1. work[r].op = "pipeline" /\ work[r].pc = "candidate" /\ UNCHANGED db /\ ~AtLedger(work[r])
  BY DEF FindCandidate, WorkAt, AtLedger
<1>2. CASE Finish(r)
  BY <1>1, <1>2, FinishSilently
<1>3. CASE Continue(r, "observe")
  <2>1. PICK w : Moved(r, w, "observe", work[r].at)
    BY <1>1, <1>3, ContinueFacts
  <2>2. work[r].at \in DOMAIN db.reflections
    BY <1>1 DEF LearningInv, WorkHolds
  <2>3. ~AtLedger(w) /\ WorkHolds(w)
    BY <1>1, <2>1, <2>2 DEF Moved, AtLedger, WorkHolds
  <2> QED
    BY <1>1, <2>1, <2>3, SilentStep DEF Moved, LearningInv, LearningTypes
<1> QED
  BY <1>2, <1>3 DEF FindCandidate

LEMMA ReadForObservationStep ==
  ASSUME LearningInv, NEW r \in Operations, ReadForObservation(r), UNCHANGED <<begun, failures>>
  PROVE  LearningInv'
<1>1. work[r].op = "observation" /\ work[r].pc = "begin" /\ UNCHANGED db /\ ~AtLedger(work[r])
  BY DEF ReadForObservation, WorkAt, AtLedger
<1>2. CASE Finish(r)
  BY <1>1, <1>2, FinishSilently
<1>3. CASE /\ work[r].in \in DOMAIN db.reflections
           /\ Remember(r, "observe", work[r].in)
  <2>1. work[r].in \in Nat
    <3>1. db.reflections \in Seq(SUBSET Nat)
      BY DEF LearningInv, LearningTypes, Tables
    <3> QED
      BY <1>3, <3>1, TableFacts
  <2>2. PICK w : Moved(r, w, "observe", work[r].in)
    BY <1>1, <1>3, <2>1, RememberFacts
  <2>3. ~AtLedger(w) /\ WorkHolds(w)
    BY <1>1, <1>3, <2>2 DEF Moved, AtLedger, WorkHolds
  <2> QED
    BY <1>1, <2>2, <2>3, SilentStep DEF Moved, LearningInv, LearningTypes
<1> QED
  BY <1>2, <1>3 DEF ReadForObservation

LEMMA ReadForPromotionStep ==
  ASSUME LearningInv, NEW r \in Operations, ReadForPromotion(r), UNCHANGED <<begun, failures>>
  PROVE  LearningInv'
<1>1. work[r].op = "promotion" /\ work[r].pc = "begin" /\ UNCHANGED db /\ ~AtLedger(work[r])
  BY DEF ReadForPromotion, WorkAt, AtLedger
<1>2. CASE Finish(r)
  BY <1>1, <1>2, FinishSilently
<1>3. CASE ~Finish(r)
  <2> DEFINE c == work[r].in.candidate
             m == db.candidates[c].maturity
  <2>1. /\ c \in DOMAIN db.candidates /\ (work[r].in.to = m + 1 \/ work[r].in.to + 1 = m)
        /\ Remember(r, "change", m)
    BY <1>3 DEF ReadForPromotion
  <2>2. m \in 1..4
    <3>1. db.candidates \in Seq([reflection : Nat, maturity : 1..4, confident : BOOLEAN])
      BY DEF LearningInv, LearningTypes, Tables
    <3>2. db.candidates[c] \in [reflection : Nat, maturity : 1..4, confident : BOOLEAN]
      BY <2>1, <3>1, TableFacts
    <3> QED
      BY <3>2
  <2> HIDE DEF m
  <2>3. PICK w : Moved(r, w, "change", m)
    BY <1>1, <2>1, <2>2, RememberFacts
  <2>4. ~AtLedger(w) /\ WorkHolds(w)
    BY <1>1, <2>1, <2>2, <2>3 DEF Moved, AtLedger, WorkHolds
  <2> QED
    BY <1>1, <2>3, <2>4, SilentStep DEF Moved, LearningInv, LearningTypes
<1> QED
  BY <1>2, <1>3

\* Two outcomes are two.
LEMMA TwoOutcomes ==
  ASSUME NEW S, IsFiniteSet(S), Cardinality(S) >= 2
  PROVE  \E i, j \in S : i # j
<1>1. PICK i : i \in S
  BY FS_EmptySet
<1>2. IsFiniteSet(S \ {i}) /\ Cardinality(S \ {i}) = Cardinality(S) - 1 /\ Cardinality(S) \in Nat
  BY <1>1, FS_RemoveElement, FS_CardinalityType
<1>3. PICK j : j \in S \ {i}
  BY <1>2, FS_EmptySet
<1> QED
  BY <1>1, <1>3

\* A candidate that has become a pattern has a promotion to show for it.
LEMMA PatternIsExplained ==
  ASSUME LearningInv, failures = 0, NEW c \in DOMAIN db.candidates, db.candidates[c].maturity \in {3, 4}
  PROVE  WasPattern(c)
<1> DEFINE up == Cardinality(logged(db, c, 3, 2)) + Cardinality(unlogged(c, 3, 2))
           down == Cardinality(logged(db, c, 2, 3)) + Cardinality(unlogged(c, 2, 3))
<1>1. db \in Tables
  BY DEF LearningInv, LearningTypes
<1>2. up = down + 1
  <2>1. /\ Cardinality(logged(db, c, 2 + 1, 2)) + Cardinality(unlogged(c, 2 + 1, 2)) =
             Cardinality(logged(db, c, 2, 2 + 1)) + Cardinality(unlogged(c, 2, 2 + 1))
               + Beyond(db.candidates[c].maturity, 2)
    BY DEF LearningInv, LedgerExplainsMaturity
  <2>2. Beyond(db.candidates[c].maturity, 2) = 1 /\ 2 + 1 = 3
    BY DEF Beyond
  <2> QED
    BY <2>1, <2>2
<1>3. down \in Nat
  BY <1>1, LoggedFinite, UnloggedFinite
<1>4. logged(db, c, 3, 2) # {} \/ unlogged(c, 3, 2) # {}
  <2> SUFFICES ASSUME logged(db, c, 3, 2) = {}, unlogged(c, 3, 2) = {} PROVE FALSE
    OBVIOUS
  <2>1. up = 0
    BY FS_EmptySet
  <2> HIDE DEF up, down
  <2> QED
    BY <1>2, <1>3, <2>1
<1> QED
  BY <1>4 DEF WasPattern, patternOnRecord, logged, unlogged

LEMMA ReadForSkillStep ==
  ASSUME LearningInv, NEW r \in Operations, ReadForSkill(r), UNCHANGED <<begun, failures>>
  PROVE  LearningInv'
<1>1. work[r].op = "skill" /\ work[r].pc = "begin" /\ UNCHANGED db /\ ~AtLedger(work[r])
  BY DEF ReadForSkill, WorkAt, AtLedger
<1>2. CASE Finish(r)
  BY <1>1, <1>2, FinishSilently
<1>3. CASE ~Finish(r)
  <2>1. /\ work[r].in.candidate \in DOMAIN db.candidates /\ mature(work[r].in.candidate)
        /\ Cardinality(work[r].in.outcomes) >= 2 /\ work[r].in.outcomes \subseteq DOMAIN db.outcomes
        /\ Continue(r, "create")
    BY <1>3 DEF ReadForSkill
  <2>2. PICK w : Moved(r, w, "create", work[r].at)
    BY <1>1, <2>1, ContinueFacts
  <2>3. w.in \in InputTypes["skill"] /\ w.in = work[r].in /\ w.op = "skill" /\ w.pc = "create"
    BY <1>1, <2>2 DEF Moved
  <2>4. \E i, j \in w.in.outcomes : i # j
    <3>1. IsFiniteSet(w.in.outcomes)
      BY <2>3 DEF InputTypes
    <3> QED
      BY <2>1, <2>3, <3>1, TwoOutcomes
  <2>5. failures = 0 => WasPattern(w.in.candidate)
    <3>1. db.candidates \in Seq([reflection : Nat, maturity : 1..4, confident : BOOLEAN])
      BY DEF LearningInv, LearningTypes, Tables
    <3>2. db.candidates[w.in.candidate] \in [reflection : Nat, maturity : 1..4, confident : BOOLEAN]
      BY <2>1, <2>3, <3>1, TableFacts
    <3>3. db.candidates[w.in.candidate].maturity \in 1..4
      BY <3>2
    <3>4. db.candidates[w.in.candidate].maturity \in {3, 4}
      BY <2>1, <2>3, <3>3 DEF mature, ORDER
    <3> QED
      BY <2>1, <2>3, <3>4, PatternIsExplained
  <2>6. ~AtLedger(w) /\ WorkHolds(w)
    BY <2>1, <2>3, <2>4, <2>5 DEF AtLedger, WorkHolds
  <2> QED
    BY <1>1, <2>2, <2>6, SilentStep DEF Moved, LearningInv, LearningTypes
<1> QED
  BY <1>2, <1>3

LEMMA ReadForProposalStep ==
  ASSUME LearningInv, NEW r \in Operations, ReadForProposal(r), UNCHANGED <<begun, failures>>
  PROVE  LearningInv'
<1>1. work[r].op = "proposal" /\ work[r].pc = "begin" /\ UNCHANGED db /\ ~AtLedger(work[r])
  BY DEF ReadForProposal, WorkAt, AtLedger
<1>2. CASE Finish(r)
  BY <1>1, <1>2, FinishSilently
<1>3. CASE Continue(r, "create")
  <2>1. PICK w : Moved(r, w, "create", work[r].at)
    BY <1>1, <1>3, ContinueFacts
  <2>2. ~AtLedger(w) /\ WorkHolds(w)
    BY <1>1, <2>1 DEF Moved, AtLedger, WorkHolds
  <2> QED
    BY <1>1, <2>1, <2>2, SilentStep DEF Moved, LearningInv, LearningTypes
<1> QED
  BY <1>2, <1>3 DEF ReadForProposal

\* The status of the experience changes, with the rows that justify it.
LEMMA StatusStep ==
  ASSUME LearningInv, NEW r \in Operations, NEW w, SetWork(r, w), IsWork(w),
         ~AtLedger(work[r]), ~AtLedger(w), UNCHANGED <<begun, failures>>, WorkHolds(w),
         NEW status \in {"OBSERVED", "EVALUATED", "REFLECTED"}, db' = [db EXCEPT !.status = status],
         status \in {"EVALUATED", "REFLECTED"} => db.outcomes # <<>>,
         status = "REFLECTED" => db.reflections # <<>>
  PROVE  LearningInv'
<1>1. db \in Tables /\ EvidenceIn(db) /\ PendingUnique /\ begun \in 0..MaxOperations
  BY DEF LearningInv, LearningTypes
<1>2. /\ db' \in Tables /\ db'.status = status /\ db'.outcomes = db.outcomes /\ db'.reflections = db.reflections
      /\ db'.candidates = db.candidates /\ db'.ledger = db.ledger /\ db'.patterns = db.patterns
      /\ db'.skills = db.skills /\ db'.reviews = db.reviews
  BY <1>1 DEF Tables
<1>3. EvidenceIn(db)'
  BY <1>1, <1>2 DEF EvidenceIn
<1>4. PendingUnique'
  BY <1>1, <1>2 DEF PendingUnique
<1>5. \A c : WasPattern(c) <=> WasPattern(c)'
  BY <1>2, LedgerKept
<1>6. WorkHolds(w)'
  BY <1>2, <1>5 DEF WorkHolds, Cited
<1> QED
  BY <1>1, <1>2, <1>3, <1>4, <1>6, DataStep

LEMMA ExperienceStep ==
  ASSUME LearningInv, NEW r \in Operations, Capture(r) \/ RecordExperience(r), UNCHANGED <<begun, failures>>
  PROVE  LearningInv'
<1>1. Finish(r) /\ ~AtLedger(work[r])
  BY DEF Capture, RecordExperience, WorkAt, AtLedger
<1>2. UNCHANGED db \/ db' = [db EXCEPT !.status = "OBSERVED"]
  BY DEF Capture, RecordExperience, createExperience
<1>3. CASE UNCHANGED db
  BY <1>1, <1>3, FinishSilently
<1>4. CASE db' = [db EXCEPT !.status = "OBSERVED"]
  BY <1>1, <1>4, NoOperationFacts, StatusStep DEF Finish
<1> QED
  BY <1>2, <1>3, <1>4

LEMMA MarkEvaluatedStep ==
  ASSUME LearningInv, NEW r \in Operations, MarkEvaluated(r), UNCHANGED <<begun, failures>>
  PROVE  LearningInv'
<1>1. work[r].op \in {"outcome", "pipeline"} /\ work[r].pc = "mark" /\ ~AtLedger(work[r])
  BY DEF MarkEvaluated, AtLedger
<1>2. UNCHANGED db \/ db' = [db EXCEPT !.status = "EVALUATED"]
  BY DEF MarkEvaluated, markExperienceEvaluated
<1>3. PICK w : SetWork(r, w) /\ IsWork(w) /\ ~AtLedger(w) /\ WorkHolds(w)
  <2>1. CASE Finish(r)
    BY <2>1, NoOperationFacts DEF Finish
  <2>2. CASE Continue(r, "process")
    <3>1. PICK w : Moved(r, w, "process", work[r].at)
      BY <1>1, <2>2, ContinueFacts
    <3> QED
      BY <1>1, <3>1 DEF Moved, AtLedger, WorkHolds
  <2> QED
    BY <2>1, <2>2 DEF MarkEvaluated
<1>4. db.outcomes # <<>>
  BY <1>1 DEF LearningInv, WorkHolds
<1>5. CASE UNCHANGED db
  BY <1>1, <1>3, <1>5, SilentStep DEF LearningInv, LearningTypes
<1>6. CASE db' = [db EXCEPT !.status = "EVALUATED"]
  BY <1>1, <1>3, <1>4, <1>6, StatusStep
<1> QED
  BY <1>2, <1>5, <1>6

LEMMA MarkReflectedStep ==
  ASSUME LearningInv, NEW r \in Operations, MarkReflected(r), UNCHANGED <<begun, failures>>
  PROVE  LearningInv'
<1>1. work[r].pc = "reflected" /\ ~AtLedger(work[r]) /\ work[r].at \in DOMAIN db.reflections
  BY DEF MarkReflected, AtLedger, LearningInv, WorkHolds
<1>2. \/ UNCHANGED db
      \/ db' = [db EXCEPT !.status = "REFLECTED"] /\ db.status = "EVALUATED"
  BY DEF MarkReflected, markExperienceReflected
<1>3. PICK w : SetWork(r, w) /\ IsWork(w) /\ ~AtLedger(w) /\ WorkHolds(w)
  <2>1. CASE Finish(r)
    BY <2>1, NoOperationFacts DEF Finish
  <2>2. CASE Continue(r, "candidate")
    <3>1. PICK w : Moved(r, w, "candidate", work[r].at)
      BY <1>1, <2>2, ContinueFacts
    <3> QED
      BY <1>1, <3>1 DEF Moved, AtLedger, WorkHolds
  <2> QED
    BY <2>1, <2>2 DEF MarkReflected
<1>4. db.reflections # <<>>
  BY <1>1
<1>5. CASE UNCHANGED db
  BY <1>1, <1>3, <1>5, SilentStep DEF LearningInv, LearningTypes
<1>6. CASE db' = [db EXCEPT !.status = "REFLECTED"] /\ db.status = "EVALUATED"
  <2>1. db.outcomes # <<>>
    BY <1>6 DEF LearningInv, EvidenceIn
  <2> QED
    BY <1>1, <1>3, <1>4, <1>6, <2>1, StatusStep
<1> QED
  BY <1>2, <1>5, <1>6

LEMMA CreateOutcomeStep ==
  ASSUME LearningInv, NEW r \in Operations, CreateOutcome(r), UNCHANGED <<begun, failures>>
  PROVE  LearningInv'
<1>1. work[r].op \in {"outcome", "pipeline"} /\ work[r].pc = "create" /\ ~AtLedger(work[r])
  BY DEF CreateOutcome, AtLedger
<1>2. PICK w : Moved(r, w, "mark", work[r].at)
  BY <1>1, ContinueFacts DEF CreateOutcome
<1>3. PICK entry : /\ entry = [runtime |-> work[r].op = "pipeline", score |-> work[r].in]
                   /\ entry \in [runtime : BOOLEAN, score : Scores]
  <2>1. work[r].in \in Scores
    BY <1>1, <1>2 DEF Moved, InputTypes
  <2>2. PICK b \in BOOLEAN : b = (work[r].op = "pipeline")
    OBVIOUS
  <2>3. [runtime |-> b, score |-> work[r].in] \in [runtime : BOOLEAN, score : Scores]
    BY <2>1
  <2> QED
    BY <2>2, <2>3
<1>4. db \in Tables /\ db.outcomes \in Seq([runtime : BOOLEAN, score : Scores])
  BY DEF LearningInv, LearningTypes, Tables
<1>5. db' = [db EXCEPT !.outcomes = Append(db.outcomes, entry)]
  BY <1>3, <1>4 DEF CreateOutcome, Insert, Tables
<1>6. /\ Append(db.outcomes, entry) \in Seq([runtime : BOOLEAN, score : Scores])
      /\ DOMAIN db.outcomes \subseteq DOMAIN Append(db.outcomes, entry) /\ Append(db.outcomes, entry) # <<>>
  BY <1>3, <1>4, InsertFacts
<1>7. /\ db' \in Tables /\ db'.status = db.status /\ db'.outcomes = Append(db.outcomes, entry)
      /\ db'.reflections = db.reflections /\ db'.candidates = db.candidates /\ db'.ledger = db.ledger
      /\ db'.patterns = db.patterns /\ db'.skills = db.skills /\ db'.reviews = db.reviews
  BY <1>4, <1>5, <1>6 DEF Tables
<1>8. EvidenceIn(db)'
  BY <1>6, <1>7 DEF LearningInv, EvidenceIn
<1>9. PendingUnique' /\ begun \in 0..MaxOperations
  BY <1>7 DEF LearningInv, LearningTypes, PendingUnique
<1>10. ~AtLedger(w) /\ WorkHolds(w)'
  BY <1>1, <1>2, <1>6, <1>7 DEF Moved, AtLedger, WorkHolds
<1> QED
  BY <1>1, <1>2, <1>6, <1>7, <1>8, <1>9, <1>10, DataStep DEF Moved

LEMMA CreateReflectionStep ==
  ASSUME LearningInv, NEW r \in Operations, CreateReflection(r), UNCHANGED <<begun, failures>>
  PROVE  LearningInv'
<1>1. work[r].pc = "reflect" /\ ~AtLedger(work[r])
  BY DEF CreateReflection, AtLedger
<1>2. PICK cited : cited = Cited(work[r]) /\ cited # {} /\ cited \subseteq DOMAIN db.outcomes
  BY <1>1 DEF LearningInv, WorkHolds
<1>3. /\ db \in Tables /\ db.reflections \in Seq(SUBSET Nat) /\ Len(db.reflections) + 1 \in Nat
      /\ cited \in SUBSET Nat
  <2>1. db \in Tables /\ db.reflections \in Seq(SUBSET Nat) /\ db.outcomes \in Seq([runtime : BOOLEAN, score : Scores])
    BY DEF LearningInv, LearningTypes, Tables
  <2>2. DOMAIN db.outcomes \subseteq Nat /\ Len(db.reflections) \in Nat
    BY <2>1, TableFacts
  <2> QED
    BY <1>2, <2>1, <2>2
<1>4. PICK w : Moved(r, w, "reflected", Len(db.reflections) + 1)
  BY <1>1, <1>3, RememberFacts DEF CreateReflection
<1>5. db' = [db EXCEPT !.reflections = Append(db.reflections, cited)]
  BY <1>2, <1>3 DEF CreateReflection, Insert, Cited, Tables
<1>6. PICK t : t = Append(db.reflections, cited)
  OBVIOUS
<1>7. /\ t \in Seq(SUBSET Nat) /\ DOMAIN t = DOMAIN db.reflections \cup {Len(db.reflections) + 1}
      /\ t[Len(db.reflections) + 1] = cited /\ \A i \in DOMAIN db.reflections : t[i] = db.reflections[i]
      /\ t # <<>>
  BY <1>3, <1>6, InsertFacts
<1>8. /\ db' \in Tables /\ db'.status = db.status /\ db'.outcomes = db.outcomes
      /\ db'.reflections = t /\ db'.candidates = db.candidates /\ db'.ledger = db.ledger
      /\ db'.patterns = db.patterns /\ db'.skills = db.skills /\ db'.reviews = db.reviews
  BY <1>3, <1>5, <1>6, <1>7 DEF Tables
<1>9. EvidenceIn(db)'
  BY <1>2, <1>7, <1>8 DEF LearningInv, EvidenceIn
<1>10. PendingUnique' /\ begun \in 0..MaxOperations
  BY <1>8 DEF LearningInv, LearningTypes, PendingUnique
<1>11. ~AtLedger(w) /\ WorkHolds(w)'
  BY <1>4, <1>7, <1>8 DEF Moved, AtLedger, WorkHolds
<1> QED
  BY <1>1, <1>4, <1>7, <1>8, <1>9, <1>10, <1>11, DataStep DEF Moved

LEMMA RecordPatternStep ==
  ASSUME LearningInv, NEW r \in Operations, RecordPattern(r), UNCHANGED <<begun, failures>>
  PROVE  LearningInv'
<1>1. work[r].op = "pattern" /\ work[r].pc = "begin" /\ ~AtLedger(work[r]) /\ Finish(r)
  BY DEF RecordPattern, WorkAt, AtLedger
<1>2. CASE UNCHANGED db
  BY <1>1, <1>2, FinishSilently
<1>3. CASE ~UNCHANGED db
  <2>1. work[r].in \subseteq DOMAIN db.outcomes /\ db' = [db EXCEPT !.patterns = Append(db.patterns, work[r].in)]
    BY <1>3 DEF RecordPattern
  <2>2. db \in Tables /\ db.patterns \in Seq(SUBSET Nat) /\ work[r].in \in SUBSET Nat
    <3>1. work[r].in \in InputTypes["pattern"]
      BY <1>1 DEF LearningInv, LearningTypes, IsWork
    <3> QED
      BY <3>1 DEF LearningInv, LearningTypes, InputTypes, Tables
  <2>3. PICK t : t = Append(db.patterns, work[r].in)
    OBVIOUS
  <2>4. /\ t \in Seq(SUBSET Nat) /\ DOMAIN t = DOMAIN db.patterns \cup {Len(db.patterns) + 1}
        /\ t[Len(db.patterns) + 1] = work[r].in /\ \A i \in DOMAIN db.patterns : t[i] = db.patterns[i]
    BY <2>2, <2>3, InsertFacts
  <2>5. /\ db' \in Tables /\ db'.status = db.status /\ db'.outcomes = db.outcomes
        /\ db'.reflections = db.reflections /\ db'.candidates = db.candidates /\ db'.ledger = db.ledger
        /\ db'.patterns = t /\ db'.skills = db.skills /\ db'.reviews = db.reviews
    BY <2>1, <2>2, <2>3, <2>4 DEF Tables
  <2>6. EvidenceIn(db)'
    BY <2>1, <2>4, <2>5 DEF LearningInv, EvidenceIn
  <2>7. PendingUnique' /\ begun \in 0..MaxOperations
    BY <2>5 DEF LearningInv, LearningTypes, PendingUnique
  <2> QED
    BY <1>1, <2>5, <2>6, <2>7, NoOperationFacts, DataStep DEF Finish
<1> QED
  BY <1>2, <1>3

LEMMA CreateSkillStep ==
  ASSUME LearningInv, NEW r \in Operations, CreateSkill(r), UNCHANGED <<begun, failures>>
  PROVE  LearningInv'
<1>1. work[r].op = "skill" /\ work[r].pc = "create" /\ ~AtLedger(work[r]) /\ Finish(r)
  BY DEF CreateSkill, WorkAt, AtLedger
<1>2. PICK entry : entry = work[r].in
  OBVIOUS
<1>3. /\ \E i, j \in entry.outcomes : i # j
      /\ entry.outcomes \subseteq DOMAIN db.outcomes
      /\ failures = 0 => WasPattern(entry.candidate)
  BY <1>1, <1>2 DEF LearningInv, WorkHolds
<1>4. /\ db \in Tables /\ db.skills \in Seq([candidate : Nat, outcomes : SUBSET Nat])
      /\ entry \in [candidate : Nat, outcomes : SUBSET Nat]
  <2>1. entry \in InputTypes["skill"]
    BY <1>1, <1>2 DEF LearningInv, LearningTypes, IsWork
  <2>2. entry \in [candidate : Nat, outcomes : {s \in SUBSET Nat : IsFiniteSet(s)}]
    BY <2>1 DEF InputTypes
  <2> QED
    BY <2>2 DEF LearningInv, LearningTypes, Tables
<1>5. PICK t : t = Append(db.skills, entry)
  OBVIOUS
<1>6. db' = [db EXCEPT !.skills = t]
  BY <1>2, <1>4, <1>5 DEF CreateSkill, Insert, Tables
<1>7. /\ t \in Seq([candidate : Nat, outcomes : SUBSET Nat]) /\ DOMAIN t = DOMAIN db.skills \cup {Len(db.skills) + 1}
      /\ t[Len(db.skills) + 1] = entry /\ \A i \in DOMAIN db.skills : t[i] = db.skills[i]
  BY <1>4, <1>5, InsertFacts
<1>8. /\ db' \in Tables /\ db'.status = db.status /\ db'.outcomes = db.outcomes
      /\ db'.reflections = db.reflections /\ db'.candidates = db.candidates /\ db'.ledger = db.ledger
      /\ db'.patterns = db.patterns /\ db'.skills = t /\ db'.reviews = db.reviews
  BY <1>4, <1>6, <1>7 DEF Tables
<1>9. EvidenceIn(db)'
  BY <1>3, <1>7, <1>8 DEF LearningInv, EvidenceIn
<1>10. PendingUnique' /\ begun \in 0..MaxOperations
  BY <1>8 DEF LearningInv, LearningTypes, PendingUnique
<1>11. \A s \in DOMAIN db'.skills :
         \/ s \in DOMAIN db.skills /\ db'.skills[s] = db.skills[s]
         \/ failures = 0 => WasPattern(db'.skills[s].candidate)
  BY <1>3, <1>7, <1>8
<1> QED
  BY <1>1, <1>8, <1>9, <1>10, <1>11, NoOperationFacts, DataStep DEF Finish

LEMMA CreateReviewStep ==
  ASSUME LearningInv, NEW r \in Operations, CreateReview(r), UNCHANGED <<begun, failures>>
  PROVE  LearningInv'
<1>1. work[r].op = "proposal" /\ work[r].pc = "create" /\ ~AtLedger(work[r]) /\ Finish(r)
  BY DEF CreateReview, WorkAt, AtLedger
<1>2. CASE UNCHANGED db
  BY <1>1, <1>2, FinishSilently
<1>3. CASE ~UNCHANGED db
  <2> DEFINE Reviews == [skill : Nat, status : Decided \cup {"PENDING_REVIEW"}, by : Operations \cup {ABSENT}]
  <2>1. PICK entry : entry = [skill |-> work[r].in, status |-> "PENDING_REVIEW", by |-> ABSENT]
    OBVIOUS
  <2>2. db \in Tables /\ db.reviews \in Seq(Reviews) /\ entry \in Reviews
    <3>1. work[r].in \in InputTypes["proposal"]
      BY <1>1 DEF LearningInv, LearningTypes, IsWork
    <3>2. work[r].in \in Nat
      BY <3>1 DEF InputTypes
    <3> QED
      BY <2>1, <3>2 DEF LearningInv, LearningTypes, Tables
  <2>3. PICK t : t = Append(db.reviews, entry)
    OBVIOUS
  <2>4. pending(entry.skill) = {} /\ db' = [db EXCEPT !.reviews = t]
    BY <1>3, <2>1, <2>2, <2>3 DEF CreateReview, onePendingPerCandidate, Insert, Tables
  <2>5. /\ t \in Seq(Reviews) /\ DOMAIN t = DOMAIN db.reviews \cup {Len(db.reviews) + 1}
        /\ t[Len(db.reviews) + 1] = entry /\ \A i \in DOMAIN db.reviews : t[i] = db.reviews[i]
    BY <2>2, <2>3, InsertFacts
  <2>6. /\ db' \in Tables /\ db'.status = db.status /\ db'.outcomes = db.outcomes
        /\ db'.reflections = db.reflections /\ db'.candidates = db.candidates /\ db'.ledger = db.ledger
        /\ db'.patterns = db.patterns /\ db'.skills = db.skills /\ db'.reviews = t
    BY <2>2, <2>4, <2>5 DEF Tables
  <2>7. EvidenceIn(db)' /\ begun \in 0..MaxOperations
    BY <2>6 DEF LearningInv, LearningTypes, EvidenceIn
  <2>8. PendingUnique'
    BY <2>4, <2>5, <2>6 DEF LearningInv, PendingUnique, pending
  <2> QED
    BY <1>1, <2>6, <2>7, <2>8, NoOperationFacts, DataStep DEF Finish
<1> QED
  BY <1>2, <1>3

\* A row that is decided is no longer pending.
LEMMA ReviewStep ==
  ASSUME LearningInv, NEW r \in Operations, Review(r), UNCHANGED <<begun, failures>>
  PROVE  LearningInv'
<1>1. work[r].op = "review" /\ work[r].pc = "begin" /\ ~AtLedger(work[r]) /\ Finish(r)
  BY DEF Review, WorkAt, AtLedger
<1>2. CASE UNCHANGED db
  BY <1>1, <1>2, FinishSilently
<1>3. CASE ~UNCHANGED db
  <2> DEFINE Reviews == [skill : Nat, status : Decided \cup {"PENDING_REVIEW"}, by : Operations \cup {ABSENT}]
  <2>1. PICK v, verdict : v = work[r].in.review /\ verdict = work[r].in.verdict
    OBVIOUS
  <2>2. verdict \in Decided
    <3>1. work[r].in \in InputTypes["review"]
      BY <1>1 DEF LearningInv, LearningTypes, IsWork
    <3>2. work[r].in \in [review : Nat, verdict : Decided]
      BY <3>1 DEF InputTypes
    <3> QED
      BY <2>1, <3>2
  <2>3. db \in Tables /\ db.reviews \in Seq(Reviews)
    BY DEF LearningInv, LearningTypes, Tables
  <2>4. v \in DOMAIN db.reviews
    BY <1>3, <2>1 DEF Review, stillPending
  <2>5. PICK entry : entry = [skill |-> db.reviews[v].skill, status |-> verdict, by |-> r]
    OBVIOUS
  <2>6. db.reviews[v] \in Reviews /\ entry \in Reviews
    <3>1. db.reviews[v] \in Reviews
      BY <2>3, <2>4, TableFacts
    <3> QED
      BY <2>2, <2>5, <3>1
  <2>7. PICK t : t = [db.reviews EXCEPT ![v] = entry]
    OBVIOUS
  <2>8. db' = [db EXCEPT !.reviews = t]
    <3>1. PICK u : u = [db.reviews[v] EXCEPT !.status = verdict]
      OBVIOUS
    <3>2. u = [skill |-> db.reviews[v].skill, status |-> verdict, by |-> db.reviews[v].by]
      BY <2>6, <3>1
    <3>3. entry = [u EXCEPT !.by = r]
      BY <2>5, <3>2
    <3>4. PICK half : half = [db EXCEPT !.reviews[v].status = verdict]
      OBVIOUS
    <3>5. half = [db EXCEPT !.reviews = [db.reviews EXCEPT ![v] = u]]
      BY <2>3, <2>4, <3>1, <3>4 DEF Tables
    <3>6. db' = [half EXCEPT !.reviews[v].by = r]
      BY <1>3, <2>1, <3>4 DEF Review
    <3>7. half.reviews = [db.reviews EXCEPT ![v] = u] /\ half.reviews[v] = u
      BY <2>3, <2>4, <3>5 DEF Tables
    <3>8. db' = [half EXCEPT !.reviews = [half.reviews EXCEPT ![v] = entry]]
      BY <3>3, <3>6, <3>7
    <3>9. [half.reviews EXCEPT ![v] = entry] = t
      BY <2>7, <3>7
    <3> QED
      BY <2>3, <3>5, <3>8, <3>9 DEF Tables
  <2>9. /\ t \in Seq(Reviews) /\ DOMAIN t = DOMAIN db.reviews
        /\ t[v] = entry /\ \A i \in DOMAIN db.reviews : i # v => t[i] = db.reviews[i]
    BY <2>3, <2>4, <2>6, <2>7, ExceptSeq
  <2>10. /\ db' \in Tables /\ db'.status = db.status /\ db'.outcomes = db.outcomes
         /\ db'.reflections = db.reflections /\ db'.candidates = db.candidates /\ db'.ledger = db.ledger
         /\ db'.patterns = db.patterns /\ db'.skills = db.skills /\ db'.reviews = t
    BY <2>3, <2>8, <2>9 DEF Tables
  <2>11. EvidenceIn(db)' /\ begun \in 0..MaxOperations
    BY <2>10 DEF LearningInv, LearningTypes, EvidenceIn
  <2>12. PendingUnique'
    BY <2>2, <2>5, <2>9, <2>10 DEF LearningInv, PendingUnique, Decided
  <2> QED
    BY <1>1, <2>10, <2>11, <2>12, NoOperationFacts, DataStep DEF Finish
<1> QED
  BY <1>2, <1>3

\* No promotion names a candidate that is not there yet.
LEMMA CreateCandidateStep ==
  ASSUME LearningInv, NEW r \in Operations, CreateCandidate(r), UNCHANGED <<begun, failures>>
  PROVE  LearningInv'
<1> DEFINE Candidates == [reflection : Nat, maturity : 1..4, confident : BOOLEAN]
<1>1. work[r].pc = "observe" /\ ~AtLedger(work[r]) /\ SetWork(r, NoOperation) /\ work[r].at \in DOMAIN db.reflections
  BY DEF CreateCandidate, Finish, AtLedger, LearningInv, WorkHolds
<1>2. PICK entry : /\ entry = [reflection |-> work[r].at, maturity |-> 1, confident |-> work[r].op = "pipeline"]
                   /\ entry \in Candidates
  <2>1. work[r].at \in Nat
    BY DEF LearningInv, LearningTypes, IsWork
  <2>2. PICK b \in BOOLEAN : b = (work[r].op = "pipeline")
    OBVIOUS
  <2>3. [reflection |-> work[r].at, maturity |-> 1, confident |-> b] \in Candidates
    BY <2>1
  <2> QED
    BY <2>2, <2>3
<1>3. db \in Tables /\ db.candidates \in Seq(Candidates)
  BY DEF LearningInv, LearningTypes, Tables
<1>4. PICK t : t = Append(db.candidates, entry)
  OBVIOUS
<1>5. PICK new : new = Len(db.candidates) + 1
  OBVIOUS
<1>6. db' = [db EXCEPT !.candidates = t]
  BY <1>2, <1>3, <1>4 DEF CreateCandidate, Insert, Tables
<1>7. /\ t \in Seq(Candidates) /\ DOMAIN t = DOMAIN db.candidates \cup {new} /\ new \notin DOMAIN db.candidates
      /\ t[new] = entry /\ \A i \in DOMAIN db.candidates : t[i] = db.candidates[i]
  BY <1>2, <1>3, <1>4, <1>5, InsertFacts
<1>8. /\ db' \in Tables /\ db'.status = db.status /\ db'.outcomes = db.outcomes
      /\ db'.reflections = db.reflections /\ db'.candidates = t /\ db'.ledger = db.ledger
      /\ db'.patterns = db.patterns /\ db'.skills = db.skills /\ db'.reviews = db.reviews
  BY <1>3, <1>6, <1>7 DEF Tables
<1>9. entry.reflection = work[r].at /\ entry.maturity = 1
  BY <1>2
<1>10. EvidenceIn(db)'
  BY <1>1, <1>7, <1>8, <1>9 DEF LearningInv, EvidenceIn
<1>11. PendingUnique' /\ LedgerNamesCandidates' /\ begun' \in 0..MaxOperations /\ failures' \in 0..MaxFailures
  BY <1>7, <1>8 DEF LearningInv, LearningTypes, PendingUnique, LedgerNamesCandidates
<1>12. \A q \in Operations : /\ WorkAt(q, "promotion", "ledger")' <=> WorkAt(q, "promotion", "ledger")
                             /\ WorkAt(q, "promotion", "ledger") => work'[q] = work[q]
  BY <1>1, WorkFacts, NoOperationFacts DEF WorkAt, AtLedger
<1>13. ASSUME NEW c, NEW to, NEW from
       PROVE  unlogged(c, to, from)' = unlogged(c, to, from) /\ logged(db, c, to, from)' = logged(db, c, to, from)
  BY <1>8, <1>12 DEF unlogged, logged
<1>14. ASSUME NEW to, NEW from
       PROVE  logged(db, new, to, from) = {} /\ unlogged(new, to, from) = {}
  <2>1. logged(db, new, to, from) = {}
    BY <1>7 DEF LearningInv, LedgerNamesCandidates, logged
  <2>2. ASSUME NEW q \in Operations, WorkAt(q, "promotion", "ledger") PROVE work[q].in.candidate # new
    BY <1>7, <2>2 DEF LearningInv, WorkHolds, WorkAt
  <2> QED
    BY <2>1, <2>2 DEF unlogged
<1>15. LedgerExplainsMaturity'
  <2>1. SUFFICES ASSUME failures' = 0, NEW c \in DOMAIN db'.candidates, NEW n \in 1..3
                 PROVE  Cardinality(logged(db, c, n + 1, n)') + Cardinality(unlogged(c, n + 1, n)') =
                          Cardinality(logged(db, c, n, n + 1)') + Cardinality(unlogged(c, n, n + 1)')
                            + Beyond(db'.candidates[c].maturity, n)
    BY DEF LedgerExplainsMaturity, Beyond
  <2>2. CASE c = new
    <3>1. /\ logged(db, c, n + 1, n)' = {} /\ unlogged(c, n + 1, n)' = {}
          /\ logged(db, c, n, n + 1)' = {} /\ unlogged(c, n, n + 1)' = {}
      BY <1>13, <1>14, <2>2
    <3>2. Beyond(db'.candidates[c].maturity, n) = 0
      BY <1>7, <1>8, <1>9, <2>2 DEF Beyond
    <3>3. Cardinality({}) = 0
      BY FS_EmptySet
    <3> QED
      BY <3>1, <3>2, <3>3
  <2>3. CASE c \in DOMAIN db.candidates
    BY <1>7, <1>8, <1>13, <2>1, <2>3 DEF LearningInv, LedgerExplainsMaturity
  <2> QED
    BY <1>7, <1>8, <2>2, <2>3
<1>16. \A c : WasPattern(c) <=> WasPattern(c)'
  BY <1>8, <1>12 DEF WasPattern, patternOnRecord
<1>17. SkillsWerePatterns' /\ Grows
  BY <1>7, <1>8, <1>16 DEF LearningInv, SkillsWerePatterns, Grows
<1> QED
  BY <1>1, <1>8, <1>10, <1>11, <1>15, <1>17, NoOperationFacts, OperationStep

\* Crossing from n to n + 1, or back, is what Beyond counts.
LEMMA BeyondMoves ==
  ASSUME NEW from \in 1..4, NEW to \in 1..4, to = from + 1 \/ to + 1 = from, NEW n \in 1..3
  PROVE  /\ Beyond(to, n) \in Nat /\ Beyond(from, n) \in Nat
         /\ to = n + 1 /\ from = n => Beyond(to, n) = Beyond(from, n) + 1
         /\ to = n /\ from = n + 1 => Beyond(from, n) = Beyond(to, n) + 1
         /\ ~(to = n + 1 /\ from = n) /\ ~(to = n /\ from = n + 1) => Beyond(to, n) = Beyond(from, n)
BY DEF Beyond

LEMMA ChangeMaturityStep ==
  ASSUME LearningInv, NEW r \in Operations, ChangeMaturity(r), UNCHANGED <<begun, failures>>
  PROVE  LearningInv'
<1> DEFINE Candidates == [reflection : Nat, maturity : 1..4, confident : BOOLEAN]
<1>1. work[r].op = "promotion" /\ work[r].pc = "change" /\ ~AtLedger(work[r])
  BY DEF ChangeMaturity, WorkAt, AtLedger
<1>2. CASE Finish(r) /\ UNCHANGED db
  BY <1>1, <1>2, FinishSilently
<1>3. CASE ~(Finish(r) /\ UNCHANGED db)
  <2>1. PICK c, from, to : c = work[r].in.candidate /\ from = work[r].at /\ to = work[r].in.to
    OBVIOUS
  <2>2. c \in DOMAIN db.candidates /\ from \in 1..4 /\ (to = from + 1 \/ to + 1 = from)
    BY <1>1, <2>1 DEF LearningInv, WorkHolds
  <2>3. to \in 1..4
    <3>1. work[r].in \in InputTypes["promotion"]
      BY <1>1 DEF LearningInv, LearningTypes, IsWork
    <3>2. work[r].in \in [candidate : Nat, to : 1..4, approved : BOOLEAN]
      BY <3>1 DEF InputTypes
    <3> QED
      BY <2>1, <3>2
  <2>4. /\ db.candidates[c].maturity = from /\ Continue(r, "ledger")
        /\ db' = [db EXCEPT !.candidates[c].maturity = to]
    BY <1>3, <2>1 DEF ChangeMaturity, setMaturity
  <2>5. PICK w : Moved(r, w, "ledger", from)
    BY <1>1, <2>1, <2>4, ContinueFacts
  <2>6. db \in Tables /\ db.candidates \in Seq(Candidates)
    BY DEF LearningInv, LearningTypes, Tables
  <2>7. PICK entry : entry = [reflection |-> db.candidates[c].reflection, maturity |-> to,
                              confident |-> db.candidates[c].confident]
    OBVIOUS
  <2>8. db.candidates[c] \in Candidates
    BY <2>2, <2>6, TableFacts
  <2>9. entry \in Candidates /\ entry = [db.candidates[c] EXCEPT !.maturity = to]
    BY <2>3, <2>7, <2>8
  <2>10. PICK t : t = [db.candidates EXCEPT ![c] = entry]
    OBVIOUS
  <2>11. db' = [db EXCEPT !.candidates = t]
    BY <2>2, <2>4, <2>6, <2>9, <2>10 DEF Tables
  <2>12. /\ t \in Seq(Candidates) /\ DOMAIN t = DOMAIN db.candidates
         /\ t[c] = entry /\ \A i \in DOMAIN db.candidates : i # c => t[i] = db.candidates[i]
    BY <2>2, <2>6, <2>9, <2>10, ExceptSeq
  <2>13. /\ db' \in Tables /\ db'.status = db.status /\ db'.outcomes = db.outcomes
         /\ db'.reflections = db.reflections /\ db'.candidates = t /\ db'.ledger = db.ledger
         /\ db'.patterns = db.patterns /\ db'.skills = db.skills /\ db'.reviews = db.reviews
    BY <2>6, <2>11, <2>12 DEF Tables
  <2>14. entry.reflection = db.candidates[c].reflection /\ entry.maturity = to
    BY <2>7
  <2>15. EvidenceIn(db)'
    BY <2>2, <2>12, <2>13, <2>14 DEF LearningInv, EvidenceIn
  <2>16. PendingUnique' /\ LedgerNamesCandidates' /\ begun' \in 0..MaxOperations /\ failures' \in 0..MaxFailures
    BY <2>12, <2>13 DEF LearningInv, LearningTypes, PendingUnique, LedgerNamesCandidates
  <2>17. /\ \A q \in Operations : q # r => work'[q] = work[q]
         /\ work'[r] = w /\ w.op = "promotion" /\ w.pc = "ledger" /\ w.in = work[r].in /\ w.at = from
    BY <1>1, <2>5, WorkFacts DEF Moved
  <2>18. ASSUME NEW x, NEW up, NEW down
         PROVE  Cardinality(unlogged(x, up, down)') =
                  Cardinality(unlogged(x, up, down)) + (IF x = c /\ up = to /\ down = from THEN 1 ELSE 0)
    <3>1. r \notin unlogged(x, up, down)
      BY <1>1 DEF unlogged, WorkAt
    <3>2. CASE x = c /\ up = to /\ down = from
      <4>1. unlogged(x, up, down)' = unlogged(x, up, down) \cup {r}
        BY <2>1, <2>17, <3>1, <3>2 DEF unlogged, WorkAt
      <4> QED
        BY <3>1, <3>2, <4>1, UnloggedFinite, FS_AddElement
    <3>3. CASE ~(x = c /\ up = to /\ down = from)
      <4>1. unlogged(x, up, down)' = unlogged(x, up, down)
        BY <2>1, <2>17, <3>1, <3>3 DEF unlogged, WorkAt
      <4>2. Cardinality(unlogged(x, up, down)) \in Nat
        BY UnloggedFinite
      <4> QED
        BY <3>3, <4>1, <4>2
    <3> QED
      BY <3>2, <3>3
  <2>19. ASSUME NEW x, NEW up, NEW down PROVE logged(db, x, up, down)' = logged(db, x, up, down)
    BY <2>13 DEF logged
  <2>20. LedgerExplainsMaturity'
    <3>1. SUFFICES ASSUME failures' = 0, NEW x \in DOMAIN db'.candidates, NEW n \in 1..3
                   PROVE  Cardinality(logged(db, x, n + 1, n)') + Cardinality(unlogged(x, n + 1, n)') =
                            Cardinality(logged(db, x, n, n + 1)') + Cardinality(unlogged(x, n, n + 1)')
                              + Beyond(db'.candidates[x].maturity, n)
      BY DEF LedgerExplainsMaturity, Beyond
    <3>2. Cardinality(logged(db, x, n + 1, n)) + Cardinality(unlogged(x, n + 1, n)) =
            Cardinality(logged(db, x, n, n + 1)) + Cardinality(unlogged(x, n, n + 1))
              + Beyond(db.candidates[x].maturity, n)
      BY <2>12, <2>13, <3>1 DEF LearningInv, LedgerExplainsMaturity
    <3>3. /\ Cardinality(logged(db, x, n + 1, n)) \in Nat /\ Cardinality(unlogged(x, n + 1, n)) \in Nat
          /\ Cardinality(logged(db, x, n, n + 1)) \in Nat /\ Cardinality(unlogged(x, n, n + 1)) \in Nat
      BY <2>6, LoggedFinite, UnloggedFinite
    <3>4. /\ Cardinality(unlogged(x, n + 1, n)') =
               Cardinality(unlogged(x, n + 1, n)) + (IF x = c /\ n + 1 = to /\ n = from THEN 1 ELSE 0)
          /\ Cardinality(unlogged(x, n, n + 1)') =
               Cardinality(unlogged(x, n, n + 1)) + (IF x = c /\ n = to /\ n + 1 = from THEN 1 ELSE 0)
      BY <2>18
    <3>5. CASE x = c
      <4>1. db.candidates[x].maturity = from /\ db'.candidates[x].maturity = to
        BY <2>4, <2>12, <2>13, <2>14, <3>5
      <4>2. /\ Beyond(to, n) \in Nat /\ Beyond(from, n) \in Nat
            /\ to = n + 1 /\ from = n => Beyond(to, n) = Beyond(from, n) + 1
            /\ to = n /\ from = n + 1 => Beyond(from, n) = Beyond(to, n) + 1
            /\ ~(to = n + 1 /\ from = n) /\ ~(to = n /\ from = n + 1) => Beyond(to, n) = Beyond(from, n)
        BY <2>2, <2>3, BeyondMoves
      <4> QED
        BY <2>2, <2>3, <2>19, <3>2, <3>3, <3>4, <3>5, <4>1, <4>2
    <3>6. CASE x # c
      <4>1. db'.candidates[x].maturity = db.candidates[x].maturity
        BY <2>12, <2>13, <3>6
      <4> QED
        BY <2>19, <3>2, <3>3, <3>4, <3>6, <4>1
    <3> QED
      BY <3>5, <3>6
  <2>21. ASSUME NEW x, WasPattern(x) PROVE WasPattern(x)'
    BY <1>1, <2>13, <2>17, <2>21 DEF WasPattern, patternOnRecord, WorkAt
  <2>22. SkillsWerePatterns' /\ Grows
    BY <2>12, <2>13, <2>21 DEF LearningInv, SkillsWerePatterns, Grows
  <2>23. WorkHolds(w)'
    BY <2>1, <2>2, <2>12, <2>13, <2>17 DEF WorkHolds
  <2>24. SetWork(r, w) /\ IsWork(w)
    BY <2>5 DEF Moved
  <2> QED
    BY <2>13, <2>15, <2>16, <2>20, <2>22, <2>23, <2>24, OperationStep
<1> QED
  BY <1>2, <1>3

\* The record of a promotion takes the place of the promotion that was to record it.
LEMMA CreatePromotionStep ==
  ASSUME LearningInv, NEW r \in Operations, CreatePromotion(r), UNCHANGED <<begun, failures>>
  PROVE  LearningInv'
<1> DEFINE Promotions == [candidate : Nat, from : 1..4, to : 1..4, approved : BOOLEAN]
<1>1. work[r].op = "promotion" /\ work[r].pc = "ledger" /\ SetWork(r, NoOperation)
  BY DEF CreatePromotion, WorkAt, Finish
<1>2. PICK c, from, to : c = work[r].in.candidate /\ from = work[r].at /\ to = work[r].in.to
  OBVIOUS
<1>3. c \in DOMAIN db.candidates /\ from \in 1..4
  BY <1>1, <1>2 DEF LearningInv, WorkHolds
<1>4. PICK entry : /\ entry = [candidate |-> c, from |-> from, to |-> to, approved |-> work[r].in.approved]
                   /\ entry \in Promotions
  <2>1. work[r].in \in InputTypes["promotion"]
    BY <1>1 DEF LearningInv, LearningTypes, IsWork
  <2>2. work[r].in \in [candidate : Nat, to : 1..4, approved : BOOLEAN]
    BY <2>1 DEF InputTypes
  <2>3. c \in Nat /\ to \in 1..4 /\ work[r].in.approved \in BOOLEAN
    BY <1>2, <2>2
  <2>4. [candidate |-> c, from |-> from, to |-> to, approved |-> work[r].in.approved] \in Promotions
    BY <1>3, <2>3
  <2> QED
    BY <2>4
<1>5. db \in Tables /\ db.ledger \in Seq(Promotions)
  BY DEF LearningInv, LearningTypes, Tables
<1>6. PICK t : t = Append(db.ledger, entry)
  OBVIOUS
<1>7. PICK new : new = Len(db.ledger) + 1
  OBVIOUS
<1>8. db' = [db EXCEPT !.ledger = t]
  BY <1>2, <1>4, <1>5, <1>6 DEF CreatePromotion, Insert, Tables
<1>9. /\ t \in Seq(Promotions) /\ DOMAIN t = DOMAIN db.ledger \cup {new} /\ new \notin DOMAIN db.ledger
      /\ t[new] = entry /\ \A i \in DOMAIN db.ledger : t[i] = db.ledger[i]
  BY <1>4, <1>5, <1>6, <1>7, InsertFacts
<1>10. /\ db' \in Tables /\ db'.status = db.status /\ db'.outcomes = db.outcomes
       /\ db'.reflections = db.reflections /\ db'.candidates = db.candidates /\ db'.ledger = t
       /\ db'.patterns = db.patterns /\ db'.skills = db.skills /\ db'.reviews = db.reviews
  BY <1>5, <1>8, <1>9 DEF Tables
<1>11. entry.candidate = c /\ entry.from = from /\ entry.to = to
  BY <1>4
<1>12. LedgerNamesCandidates'
  BY <1>3, <1>9, <1>10, <1>11 DEF LearningInv, LedgerNamesCandidates
<1>13. EvidenceIn(db)' /\ PendingUnique' /\ begun' \in 0..MaxOperations /\ failures' \in 0..MaxFailures
  BY <1>10 DEF LearningInv, LearningTypes, EvidenceIn, PendingUnique
<1>14. /\ \A q \in Operations : q # r => work'[q] = work[q]
       /\ ~WorkAt(r, "promotion", "ledger")'
  BY <1>1, WorkFacts DEF WorkAt, NoOperation
<1>15. ASSUME NEW x, NEW up, NEW down
       PROVE  Cardinality(logged(db, x, up, down)') + Cardinality(unlogged(x, up, down)') =
                Cardinality(logged(db, x, up, down)) + Cardinality(unlogged(x, up, down))
  <2>1. /\ Cardinality(logged(db, x, up, down)) \in Nat /\ IsFiniteSet(logged(db, x, up, down))
        /\ Cardinality(unlogged(x, up, down)) \in Nat /\ IsFiniteSet(unlogged(x, up, down))
    BY <1>5, LoggedFinite, UnloggedFinite
  <2>2. new \notin logged(db, x, up, down)
    BY <1>9 DEF logged
  <2>3. CASE x = c /\ up = to /\ down = from
    <3>1. logged(db, x, up, down)' = logged(db, x, up, down) \cup {new}
      BY <1>9, <1>10, <1>11, <2>3 DEF logged
    <3>2. unlogged(x, up, down)' = unlogged(x, up, down) \ {r} /\ r \in unlogged(x, up, down)
      BY <1>1, <1>2, <1>14, <2>3 DEF unlogged, WorkAt
    <3>3. Cardinality(logged(db, x, up, down)') = Cardinality(logged(db, x, up, down)) + 1
      BY <2>1, <2>2, <3>1, FS_AddElement
    <3>4. Cardinality(unlogged(x, up, down)') = Cardinality(unlogged(x, up, down)) - 1
      BY <2>1, <3>2, FS_RemoveElement
    <3> QED
      BY <2>1, <3>3, <3>4
  <2>4. CASE ~(x = c /\ up = to /\ down = from)
    <3>1. logged(db, x, up, down)' = logged(db, x, up, down)
      BY <1>9, <1>10, <1>11, <2>4 DEF logged
    <3>2. unlogged(x, up, down)' = unlogged(x, up, down)
      BY <1>1, <1>2, <1>14, <2>4 DEF unlogged, WorkAt
    <3> QED
      BY <3>1, <3>2
  <2> QED
    BY <2>3, <2>4
<1>16. LedgerExplainsMaturity'
  <2>1. SUFFICES ASSUME failures' = 0, NEW x \in DOMAIN db'.candidates, NEW n \in 1..3
                 PROVE  Cardinality(logged(db, x, n + 1, n)') + Cardinality(unlogged(x, n + 1, n)') =
                          Cardinality(logged(db, x, n, n + 1)') + Cardinality(unlogged(x, n, n + 1)')
                            + Beyond(db'.candidates[x].maturity, n)
    BY DEF LedgerExplainsMaturity, Beyond
  <2>2. Cardinality(logged(db, x, n + 1, n)) + Cardinality(unlogged(x, n + 1, n)) =
          Cardinality(logged(db, x, n, n + 1)) + Cardinality(unlogged(x, n, n + 1))
            + Beyond(db.candidates[x].maturity, n)
    BY <1>10, <2>1 DEF LearningInv, LedgerExplainsMaturity
  <2>3. /\ Cardinality(logged(db, x, n + 1, n)') + Cardinality(unlogged(x, n + 1, n)') =
             Cardinality(logged(db, x, n + 1, n)) + Cardinality(unlogged(x, n + 1, n))
        /\ Cardinality(logged(db, x, n, n + 1)') + Cardinality(unlogged(x, n, n + 1)') =
             Cardinality(logged(db, x, n, n + 1)) + Cardinality(unlogged(x, n, n + 1))
    BY <1>15
  <2> QED
    BY <1>10, <2>2, <2>3
<1>17. ASSUME NEW x, WasPattern(x) PROVE WasPattern(x)'
  <2>1. CASE patternOnRecord(db, x)
    BY <1>9, <1>10, <2>1 DEF WasPattern, patternOnRecord
  <2>2. CASE x = c /\ to = 3
    BY <1>9, <1>10, <1>11, <2>2 DEF WasPattern, patternOnRecord
  <2>3. ASSUME NEW q \in Operations, q # r, WorkAt(q, "promotion", "ledger"),
               work[q].in.candidate = x, work[q].in.to = 3
        PROVE  WasPattern(x)'
    BY <1>14, <2>3 DEF WasPattern, WorkAt
  <2> QED
    BY <1>2, <1>17, <2>1, <2>2, <2>3 DEF WasPattern
<1>18. SkillsWerePatterns' /\ Grows
  BY <1>10, <1>17 DEF LearningInv, SkillsWerePatterns, Grows
<1> QED
  BY <1>1, <1>10, <1>12, <1>13, <1>16, <1>18, NoOperationFacts, OperationStep

LEMMA LearningInitInv == LearningInit => LearningInv
<1>1. SUFFICES ASSUME LearningInit PROVE LearningInv
  OBVIOUS
<1>2. Learned(db)
  BY <1>1, LearningAssumption DEF LearningInit
<1>3. \A r \in Operations : work[r] = NoOperation
  BY <1>1 DEF LearningInit
<1>4. LearningTypes
  BY <1>1, <1>2, <1>3, LearningAssumption, NoOperationFacts DEF LearningTypes, LearningInit, Learned
<1>5. ASSUME NEW c, NEW to, NEW from PROVE unlogged(c, to, from) = {}
  BY <1>3 DEF unlogged, WorkAt, NoOperation
<1>6. LedgerExplainsMaturity
  <2>1. SUFFICES ASSUME NEW c \in DOMAIN db.candidates, NEW n \in 1..3
                 PROVE  Cardinality(logged(db, c, n + 1, n)) + Cardinality(unlogged(c, n + 1, n)) =
                          Cardinality(logged(db, c, n, n + 1)) + Cardinality(unlogged(c, n, n + 1))
                            + Beyond(db.candidates[c].maturity, n)
    BY DEF LedgerExplainsMaturity
  <2>2. Cardinality(logged(db, c, n + 1, n)) =
          Cardinality(logged(db, c, n, n + 1)) + Beyond(db.candidates[c].maturity, n)
    BY <1>2 DEF Learned
  <2>3. Cardinality(logged(db, c, n + 1, n)) \in Nat /\ Cardinality(logged(db, c, n, n + 1)) \in Nat
    BY <1>4, LoggedFinite DEF LearningTypes
  <2>4. Cardinality(unlogged(c, n + 1, n)) = 0 /\ Cardinality(unlogged(c, n, n + 1)) = 0
    BY <1>5, FS_EmptySet
  <2>5. Beyond(db.candidates[c].maturity, n) \in Nat
    BY DEF Beyond
  <2> QED
    BY <2>2, <2>3, <2>4, <2>5
<1>7. SkillsWerePatterns
  BY <1>2 DEF SkillsWerePatterns, WasPattern, Learned
<1>8. EvidenceIn(db) /\ LedgerNamesCandidates /\ PendingUnique
  BY <1>2 DEF Learned, LedgerNamesCandidates, PendingUnique
<1>9. \A r \in Operations : WorkHolds(work[r])
  BY <1>3, NoOperationFacts
<1> QED
  BY <1>4, <1>6, <1>7, <1>8, <1>9 DEF LearningInv

LEMMA LearningNextInv == LearningInv /\ [LearningNext]_learningVars => LearningInv'
<1>1. SUFFICES ASSUME LearningInv, [LearningNext]_learningVars PROVE LearningInv'
  OBVIOUS
<1>2. CASE UNCHANGED learningVars
  <2>1. db' = db /\ work' = work /\ begun' = begun /\ failures' = failures
    BY <1>2 DEF learningVars
  <2>2. LearningTypes' /\ EvidenceIn(db)' /\ LedgerNamesCandidates' /\ PendingUnique'
    BY <1>1, <2>1 DEF LearningInv, LearningTypes, EvidenceIn, LedgerNamesCandidates, PendingUnique
  <2>3. \A c, to, from : unlogged(c, to, from)' = unlogged(c, to, from) /\ logged(db, c, to, from)' = logged(db, c, to, from)
    BY <2>1 DEF unlogged, logged, WorkAt
  <2>4. LedgerExplainsMaturity'
    BY <1>1, <2>1, <2>3 DEF LearningInv, LedgerExplainsMaturity
  <2>5. \A c : WasPattern(c)' <=> WasPattern(c)
    BY <2>1 DEF WasPattern, patternOnRecord, WorkAt
  <2>6. SkillsWerePatterns' /\ Grows
    BY <1>1, <2>1, <2>5 DEF LearningInv, SkillsWerePatterns, Grows
  <2>7. ASSUME NEW q \in Operations PROVE WorkHolds(work[q])'
    BY <1>1, <2>1, <2>2, <2>6, WorkKept DEF LearningTypes
  <2> QED
    BY <2>2, <2>4, <2>6, <2>7 DEF LearningInv
<1>3. ASSUME NEW r \in Operations, NEW op \in DOMAIN Inputs, NEW in \in Inputs[op], Begin(r, op, in)
      PROVE  LearningInv'
  BY <1>1, <1>3, BeginStep
<1>4. ASSUME NEW r \in Operations, Fails(r) PROVE LearningInv'
  BY <1>1, <1>4, FailsStep
<1>5. ASSUME NEW r \in Operations, Step(r) PROVE LearningInv'
  <2>1. UNCHANGED <<begun, failures>>
    BY <1>5 DEF Step
  <2>2. CASE Capture(r) \/ RecordExperience(r)
    BY <1>1, <2>1, <2>2, ExperienceStep
  <2>3. CASE ReadOutcomes(r) \/ CreateOutcome(r) \/ MarkEvaluated(r)
    BY <1>1, <2>1, <2>3, ReadOutcomesStep, CreateOutcomeStep, MarkEvaluatedStep
  <2>4. CASE Process(r) \/ ReadForReflection(r) \/ CreateReflection(r) \/ MarkReflected(r)
    BY <1>1, <2>1, <2>4, ProcessStep, ReadForReflectionStep, CreateReflectionStep, MarkReflectedStep
  <2>5. CASE FindCandidate(r) \/ ReadForObservation(r) \/ CreateCandidate(r)
    BY <1>1, <2>1, <2>5, FindCandidateStep, ReadForObservationStep, CreateCandidateStep
  <2>6. CASE ReadForPromotion(r) \/ ChangeMaturity(r) \/ CreatePromotion(r)
    BY <1>1, <2>1, <2>6, ReadForPromotionStep, ChangeMaturityStep, CreatePromotionStep
  <2>7. CASE RecordPattern(r) \/ ReadForSkill(r) \/ CreateSkill(r)
    BY <1>1, <2>1, <2>7, RecordPatternStep, ReadForSkillStep, CreateSkillStep
  <2>8. CASE ReadForProposal(r) \/ CreateReview(r) \/ Review(r)
    BY <1>1, <2>1, <2>8, ReadForProposalStep, CreateReviewStep, ReviewStep
  <2> QED
    BY <1>5, <2>2, <2>3, <2>4, <2>5, <2>6, <2>7, <2>8 DEF Step
<1> QED
  BY <1>1, <1>2, <1>3, <1>4, <1>5 DEF LearningNext

LEMMA LearningInvariance == LearningSpec => []LearningInv
BY LearningInitInv, LearningNextInv, PTL DEF LearningSpec

\* The tables keep the form of their rows, and every operation under way has an
\* input its service accepts.
THEOREM LearningTypeCorrect == LearningSpec => []LearningTypes
<1>1. LearningInv => LearningTypes
  BY DEF LearningInv
<1> QED
  BY <1>1, LearningInvariance, PTL

\* What is learned rests on evidence that is stored (LearnedFromEvidence):
\* although no service runs in a transaction, marks follow the rows they stand
\* for, rows are never removed, and what an operation read before it writes
\* still holds then.
THEOREM LearningIsGrounded == LearningSpec => []LearnedFromEvidence
<1>1. LearningInv => LearnedFromEvidence
  BY DEF LearningInv, SkillsWerePatterns, LearnedFromEvidence
<1> QED
  BY <1>1, LearningInvariance, PTL

\* The promotions of a candidate add up to its maturity (LedgerExplainsMaturity)
\* for any number of concurrent promotions: setMaturity moves the candidate only
\* from the maturity the promotion has read, and its record is written after.
THEOREM PromotionsAddUp == LearningSpec => []LedgerExplainsMaturity
<1>1. LearningInv => LedgerExplainsMaturity
  BY DEF LearningInv
<1> QED
  BY <1>1, LearningInvariance, PTL

\* No two pending reviews of a skill, counted.
LEMMA PendingCounted == LearningInv => OnePendingReview
<1>1. SUFFICES ASSUME LearningInv, NEW s \in DOMAIN db.skills PROVE Cardinality(pending(s)) \leq 1
  BY DEF OnePendingReview
<1>2. CASE pending(s) = {}
  BY <1>2, FS_EmptySet
<1>3. CASE pending(s) # {}
  <2>1. PICK v : v \in pending(s)
    BY <1>3
  <2>2. pending(s) = {v}
    BY <1>1, <2>1 DEF pending, LearningInv, PendingUnique
  <2> QED
    BY <2>2, FS_Singleton
<1> QED
  BY <1>2, <1>3

\* No step touches a review that is decided.
LEMMA DecisionsStand == LearningInv /\ [LearningNext]_learningVars => ReviewStands
<1> DEFINE Reviews == [skill : Nat, status : Decided \cup {"PENDING_REVIEW"}, by : Operations \cup {ABSENT}]
<1>1. SUFFICES ASSUME LearningInv, [LearningNext]_learningVars, NEW v \in DOMAIN db.reviews,
                      db.reviews[v].status # "PENDING_REVIEW"
               PROVE  db'.reviews[v] = db.reviews[v]
  BY DEF ReviewStands
<1>2. db \in Tables /\ db.reviews \in Seq(Reviews)
  BY <1>1 DEF LearningInv, LearningTypes, Tables
<1>3. CASE UNCHANGED db
  BY <1>3
<1>4. ASSUME NEW r \in Operations, Review(r) PROVE db'.reviews[v] = db.reviews[v]
  <2>1. CASE UNCHANGED db
    BY <2>1
  <2>2. CASE ~UNCHANGED db
    <3>1. PICK u, verdict : u = work[r].in.review /\ verdict = work[r].in.verdict
      OBVIOUS
    <3>2. u # v
      BY <1>1, <1>4, <2>2, <3>1 DEF Review, stillPending
    <3>3. PICK half : half = [db EXCEPT !.reviews[u].status = verdict]
      OBVIOUS
    <3>4. half.reviews[v] = db.reviews[v] /\ DOMAIN half.reviews = DOMAIN db.reviews /\ "reviews" \in DOMAIN half
      BY <1>1, <1>2, <3>2, <3>3 DEF Tables
    <3>5. db' = [half EXCEPT !.reviews[u].by = r]
      BY <1>4, <2>2, <3>1, <3>3 DEF Review
    <3> QED
      BY <1>1, <3>2, <3>4, <3>5
  <2> QED
    BY <2>1, <2>2
<1>5. ASSUME NEW r \in Operations, CreateReview(r) PROVE db'.reviews[v] = db.reviews[v]
  <2>1. CASE UNCHANGED db
    BY <2>1
  <2>2. CASE ~UNCHANGED db
    <3>1. PICK entry, t : /\ entry = [skill |-> work[r].in, status |-> "PENDING_REVIEW", by |-> ABSENT]
                          /\ t = Append(db.reviews, entry)
      OBVIOUS
    <3>2. db'.reviews = t
      BY <1>2, <1>5, <2>2, <3>1 DEF CreateReview, Insert, Tables
    <3>3. t[v] = db.reviews[v]
      BY <1>1, <1>2, <3>1, AppendProperties, LenProperties
    <3> QED
      BY <3>2, <3>3
  <2> QED
    BY <2>1, <2>2
<1>6. ASSUME NEW r \in Operations, Step(r), ~Review(r), ~CreateReview(r) PROVE db'.reviews = db.reviews
  <2>1. CASE \/ Capture(r) \/ RecordExperience(r) \/ MarkEvaluated(r) \/ MarkReflected(r) \/ RecordPattern(r)
    BY <1>2, <2>1 DEF Capture, RecordExperience, MarkEvaluated, MarkReflected, RecordPattern,
      createExperience, markExperienceEvaluated, markExperienceReflected, Tables
  <2>2. CASE \/ CreateOutcome(r) \/ CreateReflection(r) \/ CreateCandidate(r) \/ CreatePromotion(r) \/ CreateSkill(r)
    <3>1. ASSUME NEW table, table # "reviews", NEW entry, Insert(table, entry) PROVE db'.reviews = db.reviews
      BY <1>2, <3>1 DEF Insert, Tables
    <3> QED
      BY <2>2, <3>1 DEF CreateOutcome, CreateReflection, CreateCandidate, CreatePromotion, CreateSkill
  <2>3. CASE ChangeMaturity(r)
    BY <1>2, <2>3 DEF ChangeMaturity, Tables
  <2>4. CASE \/ ReadOutcomes(r) \/ Process(r) \/ ReadForReflection(r) \/ FindCandidate(r) \/ ReadForObservation(r)
             \/ ReadForPromotion(r) \/ ReadForSkill(r) \/ ReadForProposal(r)
    BY <2>4 DEF ReadOutcomes, Process, ReadForReflection, FindCandidate, ReadForObservation,
      ReadForPromotion, ReadForSkill, ReadForProposal
  <2> QED
    BY <1>6, <2>1, <2>2, <2>3, <2>4 DEF Step
<1>7. CASE LearningNext
  BY <1>3, <1>4, <1>5, <1>6, <1>7 DEF LearningNext, Begin, Fails
<1> QED
  BY <1>1, <1>3, <1>7 DEF learningVars

\* A review is decided once and one review of a skill is pending (ReviewFinal)
\* for any number of proposers and reviewers: the update looks for a pending row
\* and the unique index keeps a second one out.
THEOREM ReviewsAreFinal == LearningSpec => ReviewFinal
<1>1. LearningInv /\ LearningInv' /\ [LearningNext]_learningVars => [ReviewStands /\ OnePendingReview']_learningVars
  <2>1. LearningInv' => OnePendingReview'
    BY PendingCounted, PTL
  <2> QED
    BY <2>1, DecisionsStand
<1> QED
  BY <1>1, LearningInvariance, PTL DEF LearningSpec, ReviewFinal

-----------------------------------------------------------------------------
(* The users: an active owner is always left, and a token that is accepted *)
(* is that of the user as it is.                                           *)

UserRows ==
  [exists : BOOLEAN, role : Role, status : Status, deleted : BOOLEAN,
   machine : BOOLEAN, version : 0..MaxVersion, password : Passwords \cup {ABSENT}]

RequestPc == {"idle", "begin", "issue", "locked", "write", "hash"}
RequestKind == {"login", "update", "softDelete", "create", "changeOwnPassword", "provision"}

RequestLocals ==
  [pc : RequestPc, op : RequestKind \cup {ABSENT}, actor : UserIds \cup {ABSENT},
   role : Role \cup {ABSENT}, target : UserIds \cup {ABSENT}, newRole : Role \cup {ABSENT},
   newStatus : Status \cup {ABSENT}, row : UserRows, epoch : Nat]

Tokens ==
  [sub : UserIds, role : Role, version : 0..MaxVersion, password : Passwords \cup {ABSENT},
   epoch : Nat]

UsersTypes ==
  /\ user \in [UserIds -> UserRows]
  /\ tokens \subseteq Tokens
  /\ lock \in Requests \cup {ABSENT}
  /\ epoch \in [UserIds -> Nat]
  /\ req \in [Requests -> RequestLocals]
  /\ started \in Nat

\* What was read of a user, for a token: of no later version than the user has
\* by now, and the same as the user where the versions are.
Snapshot(u, role, version, password, e) ==
  /\ user[u].exists
  /\ version \leq user[u].version
  /\ version = user[u].version =>
       role = user[u].role /\ password = user[u].password /\ e = epoch[u]

\* What a request relies on between two of its steps.
Relies(c) ==
  LET q == req[c] IN
  /\ q.pc # "idle" => q.target \in UserIds
  /\ q.pc = "issue" => Snapshot(q.target, q.row.role, q.row.version, q.row.password, q.epoch)
  /\ q.pc \in {"locked", "write"} <=> lock = c
  /\ q.pc \in {"locked", "write"} => q.op \in Locking
  /\ q.pc = "write" => /\ user[q.target].exists
                       /\ q.row.role = user[q.target].role
                       /\ q.row.status = user[q.target].status
                       /\ losesActiveOwnerStatus(q, user[q.target]) =>
                            \E u \in UserIds \ {q.target} : isActiveOwner(u)
  /\ q.pc = "hash" \/ (q.pc = "begin" /\ q.op = "changeOwnPassword") => user[q.target].exists

UsersInv ==
  /\ UsersTypes
  /\ LastOwner
  /\ \A t \in tokens : Snapshot(t.sub, t.role, t.version, t.password, t.epoch)
  /\ \A c \in Requests : Relies(c)

\* How every step leaves a user that exists: there, of no lower version, and
\* where the version is the same, with what a token is issued from.
UserGrows(u) ==
  user[u].exists =>
    /\ user'[u].exists
    /\ user[u].version \leq user'[u].version
    /\ user[u].version = user'[u].version =>
         /\ user'[u].role = user[u].role /\ user'[u].password = user[u].password
         /\ epoch'[u] = epoch[u]

\* How the steps outside the lock leave it.
UserKeeps(u) ==
  user[u].exists => /\ user'[u].exists
                    /\ user'[u].role = user[u].role /\ user'[u].status = user[u].status
                    /\ user'[u].deleted = user[u].deleted

-----------------------------------------------------------------------------
(* The operators on rows.                                                  *)

\* A new row and an idle request have their types.
LEMMA NoneTyped ==
  NoUser \in UserRows /\ NoRequest \in RequestLocals
BY UsersAssumption DEF NoUser, NoRequest, UserRows, RequestLocals, Role, Status, RequestPc

\* A token has its type.
LEMMA TokenTyped ==
  ASSUME NEW u \in UserIds, NEW row \in UserRows, NEW e \in Nat
  PROVE  issueTokenFor(u, row, e) \in Tokens
BY DEF issueTokenFor, Tokens, UserRows

\* A snapshot stays one as the user grows.
LEMMA SnapshotKept ==
  ASSUME UsersTypes, UsersTypes', NEW u \in UserIds, UserGrows(u), NEW role, NEW version \in 0..MaxVersion,
         NEW password, NEW e, Snapshot(u, role, version, password, e)
  PROVE  Snapshot(u, role, version, password, e)'
<1>1. user[u] \in UserRows /\ user'[u] \in UserRows
  BY DEF UsersTypes
<1>2. user[u].version \in Nat /\ user'[u].version \in Nat /\ version \in Nat
  BY <1>1, UsersAssumption DEF UserRows
<1> QED
  BY <1>2 DEF Snapshot, UserGrows

\* Active owners stay so while users keep role and status.
LEMMA OwnersKept ==
  ASSUME \A u \in UserIds : UserKeeps(u)
  PROVE  \A u \in UserIds : isActiveOwner(u) => isActiveOwner(u)'
BY DEF UserKeeps, isActiveOwner

\* The requests that do not take the step go on relying on what they did: either
\* the step is that of the request with the lock, or it leaves role and status.
LEMMA OthersRely ==
  ASSUME UsersInv, UsersTypes', NEW c \in Requests,
         \A d \in Requests \ {c} : req'[d] = req[d],
         \A u \in UserIds : UserGrows(u),
         \/ lock = c /\ lock' \in {c, ABSENT}
         \/ (\A u \in UserIds : UserKeeps(u)) /\ (lock' = lock \/ (lock = ABSENT /\ lock' = c))
  PROVE  \A d \in Requests \ {c} : Relies(d)'
<1> TAKE d \in Requests \ {c}
<1> DEFINE q == req[d]
<1>1. q \in RequestLocals /\ q.row \in UserRows /\ Relies(d) /\ req'[d] = q /\ UsersTypes
  BY DEF UsersInv, UsersTypes, RequestLocals
<1>2. q.pc # "idle" => q.target \in UserIds
  BY <1>1 DEF Relies
<1>3. q.pc = "issue" =>
        Snapshot(q.target, q.row.role, q.row.version, q.row.password, q.epoch)'
  BY <1>1, <1>2, SnapshotKept DEF Relies, UserRows
<1>4. lock' = d <=> lock = d
  BY UsersAssumption
<1>5. ASSUME q.pc = "write"
      PROVE  /\ user'[q.target].exists
             /\ q.row.role = user'[q.target].role /\ q.row.status = user'[q.target].status
             /\ losesActiveOwnerStatus(q, user'[q.target]) =>
                  \E u \in UserIds \ {q.target} : isActiveOwner(u)'
  <2>1. lock = d /\ q.target \in UserIds
    BY <1>1, <1>5 DEF Relies
  <2>2. \A u \in UserIds : UserKeeps(u)
    BY <2>1
  <2>3. \A u \in UserIds : isActiveOwner(u) => isActiveOwner(u)'
    BY <2>2, OwnersKept
  <2>4. UserKeeps(q.target)
    BY <2>1, <2>2
  <2> QED
    BY <1>1, <1>5, <2>3, <2>4 DEF Relies, UserKeeps, losesActiveOwnerStatus
<1>6. q.pc = "hash" \/ (q.pc = "begin" /\ q.op = "changeOwnPassword") => user'[q.target].exists
  BY <1>1, <1>2 DEF Relies, UserGrows
<1> QED
  BY <1>1, <1>2, <1>3, <1>4, <1>5, <1>6 DEF Relies

-----------------------------------------------------------------------------
(* The invariant is inductive.                                             *)

\* The steps that read, and issue a token from what they read.
LEMMA ReadingSteps ==
  ASSUME UsersInv, NEW c \in Requests,
         user' = user, epoch' = epoch, started' \in Nat,
         req' \in [Requests -> RequestLocals], \A d \in Requests \ {c} : req'[d] = req[d],
         lock' \in Requests \cup {ABSENT},
         lock = c \/ lock' = lock \/ (lock = ABSENT /\ lock' = c), lock = c => lock' \in {c, ABSENT},
         tokens' \subseteq Tokens,
         \A t \in tokens' : Snapshot(t.sub, t.role, t.version, t.password, t.epoch),
         Relies(c)'
  PROVE  UsersInv'
<1>1. UsersTypes'
  BY DEF UsersInv, UsersTypes
<1>2. \A u \in UserIds : UserGrows(u) /\ UserKeeps(u)
  <2>1. \A u \in UserIds : user[u].version \leq user[u].version
    BY UsersAssumption DEF UsersInv, UsersTypes, UserRows
  <2> QED
    BY <2>1 DEF UserGrows, UserKeeps
<1>3. \/ lock = c /\ lock' \in {c, ABSENT}
      \/ (\A u \in UserIds : UserKeeps(u)) /\ (lock' = lock \/ (lock = ABSENT /\ lock' = c))
  BY <1>2
<1>4. \A d \in Requests \ {c} : Relies(d)'
  <2>1. \A u \in UserIds : UserGrows(u)
    BY <1>2
  <2> QED
    BY <1>1, <1>3, <2>1, OthersRely
<1>5. LastOwner'
  BY DEF UsersInv, LastOwner, isActiveOwner
<1>6. \A t \in tokens' : Snapshot(t.sub, t.role, t.version, t.password, t.epoch)'
  BY DEF Snapshot
<1> QED
  BY <1>1, <1>4, <1>5, <1>6 DEF UsersInv

\* The same for the steps that issue none.
LEMMA QuietSteps ==
  ASSUME UsersInv, NEW c \in Requests,
         user' = user, epoch' = epoch, tokens' = tokens, started' \in Nat,
         req' \in [Requests -> RequestLocals], \A d \in Requests \ {c} : req'[d] = req[d],
         lock' \in Requests \cup {ABSENT},
         lock = c \/ lock' = lock \/ (lock = ABSENT /\ lock' = c), lock = c => lock' \in {c, ABSENT},
         Relies(c)'
  PROVE  UsersInv'
<1>1. tokens' \subseteq Tokens
      /\ \A t \in tokens' : Snapshot(t.sub, t.role, t.version, t.password, t.epoch)
  BY DEF UsersInv, UsersTypes
<1> QED
  BY <1>1, ReadingSteps

\* A request that is set to a local state of its type leaves the others.
LEMMA SetFacts ==
  ASSUME UsersTypes, NEW c \in Requests, NEW local \in RequestLocals, req' = [req EXCEPT ![c] = local]
  PROVE  /\ req' \in [Requests -> RequestLocals] /\ req'[c] = local
         /\ \A d \in Requests \ {c} : req'[d] = req[d]
BY DEF UsersTypes

\* An operation that ends relies on nothing.
LEMMA EndRelies ==
  ASSUME NEW c \in Requests, req'[c] = NoRequest, lock' # c
  PROVE  Relies(c)'
BY DEF Relies, NoRequest

\* login reads the user and issues the token later.
LEMMA LoginStep ==
  ASSUME UsersInv, NEW c \in Requests, NEW u \in UserIds, Login(c, u)
  PROVE  UsersInv'
<1> DEFINE local == [NoRequest EXCEPT !.pc = "issue", !.op = "login", !.target = u, !.row = user[u],
                                      !.epoch = epoch[u]]
<1>1. UsersTypes /\ NoRequest \in RequestLocals /\ Relies(c)
  BY NoneTyped DEF UsersInv, UsersTypes
<1>2. user[u] \in UserRows /\ epoch[u] \in Nat /\ user[u].version \in Nat
  BY <1>1, UsersAssumption DEF UsersTypes, UserRows
<1>3. local \in RequestLocals /\ local.pc = "issue" /\ local.target = u /\ local.row = user[u]
      /\ local.epoch = epoch[u]
  BY <1>1, <1>2 DEF RequestLocals, NoRequest, RequestPc, RequestKind
<1>4. req' = [req EXCEPT ![c] = local]
  BY DEF Login, Set
<1>5. user' = user /\ epoch' = epoch /\ tokens' = tokens /\ lock' = lock
  BY DEF Login
<1>6. started' \in Nat
  BY <1>1 DEF Login, Start, UsersTypes
<1>7. lock # c /\ user[u].exists /\ lock \in Requests \cup {ABSENT}
  BY <1>1 DEF Login, Relies, UsersTypes
<1> HIDE DEF local
<1>8. /\ req' \in [Requests -> RequestLocals] /\ req'[c] = local
      /\ \A d \in Requests \ {c} : req'[d] = req[d]
  BY <1>1, <1>3, <1>4, SetFacts
<1>9. Snapshot(u, user[u].role, user[u].version, user[u].password, epoch[u])'
  BY <1>2, <1>5, <1>7 DEF Snapshot
<1>10. Relies(c)'
  BY <1>3, <1>5, <1>7, <1>8, <1>9 DEF Relies
<1> QED
  BY <1>5, <1>6, <1>7, <1>8, <1>10, QuietSteps

\* The guards authorise a request.
LEMMA AuthorizeStep ==
  ASSUME UsersInv, NEW c \in Requests, NEW t \in tokens, Authorize(c, t)
  PROVE  UsersInv'
<1>1. UsersTypes /\ NoRequest \in RequestLocals /\ Relies(c)
  BY NoneTyped DEF UsersInv, UsersTypes
<1>2. t.sub \in UserIds /\ user[t.sub].role \in Role
  BY <1>1 DEF UsersTypes, Tokens, UserRows
<1>3. user[t.sub].exists
  BY DEF Authorize, validate
<1>4. PICK o \in {"update", "softDelete", "create", "changeOwnPassword", "provision"} :
        /\ mayCall(t.sub, o)
        /\ \E u \in UserIds, r \in Role \cup {ABSENT}, s \in {"ACTIVE", "SUSPENDED", ABSENT} :
             /\ o # "update" => r = ABSENT /\ s = ABSENT
             /\ o = "changeOwnPassword" => u = t.sub
             /\ o = "softDelete" => u # t.sub
             /\ o = "provision" => u = bridge
             /\ Set(c, [NoRequest EXCEPT !.pc = "begin", !.op = o, !.actor = t.sub,
                                         !.role = user[t.sub].role, !.target = u,
                                         !.newRole = r, !.newStatus = s])
  BY DEF Authorize
<1>5. PICK u \in UserIds, r \in Role \cup {ABSENT}, s \in {"ACTIVE", "SUSPENDED", ABSENT} :
          /\ o = "changeOwnPassword" => u = t.sub
          /\ Set(c, [NoRequest EXCEPT !.pc = "begin", !.op = o, !.actor = t.sub,
                                      !.role = user[t.sub].role, !.target = u,
                                      !.newRole = r, !.newStatus = s])
  BY <1>4
<1> DEFINE local == [NoRequest EXCEPT !.pc = "begin", !.op = o, !.actor = t.sub,
                                      !.role = user[t.sub].role, !.target = u,
                                      !.newRole = r, !.newStatus = s]
<1>6. local \in RequestLocals /\ local.pc = "begin" /\ local.target = u /\ local.op = o
  BY <1>1, <1>2 DEF RequestLocals, NoRequest, RequestPc, RequestKind, Status
<1>7. req' = [req EXCEPT ![c] = local]
  BY <1>5 DEF Set
<1>8. user' = user /\ epoch' = epoch /\ tokens' = tokens /\ lock' = lock
  BY DEF Authorize
<1>9. started' \in Nat
  BY <1>1 DEF Authorize, Start, UsersTypes
<1>10. lock # c /\ lock \in Requests \cup {ABSENT}
  BY <1>1 DEF Authorize, Relies, UsersTypes
<1> HIDE DEF local
<1>11. /\ req' \in [Requests -> RequestLocals] /\ req'[c] = local
       /\ \A d \in Requests \ {c} : req'[d] = req[d]
  BY <1>1, <1>6, <1>7, SetFacts
<1>12. o = "changeOwnPassword" => user[u].exists
  BY <1>3, <1>5
<1>13. Relies(c)'
  BY <1>6, <1>8, <1>10, <1>11, <1>12 DEF Relies
<1> QED
  BY <1>8, <1>9, <1>10, <1>11, <1>13, QuietSteps

\* The token is issued from the row that login read.
LEMMA LoginIssuesStep ==
  ASSUME UsersInv, NEW c \in Requests, LoginIssues(c)
  PROVE  UsersInv'
<1> DEFINE q == req[c]
           t == issueTokenFor(q.target, q.row, q.epoch)
<1>1. UsersTypes /\ NoRequest \in RequestLocals /\ Relies(c) /\ q \in RequestLocals /\ q.pc = "issue"
  BY NoneTyped DEF UsersInv, UsersTypes, LoginIssues
<1>2. q.target \in UserIds /\ q.row \in UserRows /\ q.epoch \in Nat
      /\ Snapshot(q.target, q.row.role, q.row.version, q.row.password, q.epoch)
  BY <1>1 DEF Relies, RequestLocals
<1>3. t \in Tokens /\ Snapshot(t.sub, t.role, t.version, t.password, t.epoch)
  BY <1>2, TokenTyped DEF issueTokenFor
<1>4. tokens' = tokens \cup {t}
  BY DEF LoginIssues
<1>5. user' = user /\ epoch' = epoch /\ lock' = lock /\ started' = started
      /\ req' = [req EXCEPT ![c] = NoRequest]
  BY DEF LoginIssues, End, Set
<1>6. lock # c /\ lock \in Requests \cup {ABSENT} /\ started \in Nat
  BY <1>1 DEF Relies, UsersTypes
<1>7. /\ req' \in [Requests -> RequestLocals] /\ req'[c] = NoRequest
      /\ \A d \in Requests \ {c} : req'[d] = req[d]
  BY <1>1, <1>5, SetFacts
<1>8. Relies(c)'
  BY <1>5, <1>6, <1>7, EndRelies
<1> HIDE DEF t
<1>9. /\ tokens' \subseteq Tokens
      /\ \A s \in tokens' : Snapshot(s.sub, s.role, s.version, s.password, s.epoch)
  BY <1>1, <1>3, <1>4 DEF UsersInv, UsersTypes
<1> QED
  BY <1>5, <1>6, <1>7, <1>8, <1>9, ReadingSteps

\* The row of the organization is locked.
LEMMA LockStep ==
  ASSUME UsersInv, NEW c \in Requests, LockOrganization(c)
  PROVE  UsersInv'
<1> DEFINE local == [req[c] EXCEPT !.pc = "locked"]
<1>1. UsersTypes /\ Relies(c) /\ req[c] \in RequestLocals
  BY DEF UsersInv, UsersTypes
<1>2. local \in RequestLocals /\ local.pc = "locked" /\ local.target = req[c].target /\ local.op = req[c].op
  BY <1>1 DEF RequestLocals, RequestPc
<1>3. /\ user' = user /\ epoch' = epoch /\ tokens' = tokens /\ started' = started
      /\ lock = ABSENT /\ lock' = c /\ req' = [req EXCEPT ![c] = local]
      /\ req[c].op \in Locking /\ req[c].pc = "begin" /\ started \in Nat
  BY <1>1 DEF LockOrganization, Set, UsersTypes
<1> HIDE DEF local
<1>4. /\ req' \in [Requests -> RequestLocals] /\ req'[c] = local
      /\ \A d \in Requests \ {c} : req'[d] = req[d]
  BY <1>1, <1>2, <1>3, SetFacts
<1>5. Relies(c)'
  BY <1>1, <1>2, <1>3, <1>4 DEF Relies
<1> QED
  BY <1>3, <1>4, <1>5, QuietSteps

\* The row is read and checked under the lock, which a refusal releases.
LEMMA CheckStep ==
  ASSUME UsersInv, NEW c \in Requests, Check(c)
  PROVE  UsersInv'
<1> DEFINE q == req[c]
           local == [q EXCEPT !.pc = "write", !.row = user[q.target]]
<1>1. UsersTypes /\ NoRequest \in RequestLocals /\ Relies(c) /\ q \in RequestLocals
  BY NoneTyped DEF UsersInv, UsersTypes
<1>2. q.pc = "locked" /\ lock = c /\ q.target \in UserIds /\ q.op \in Locking
      /\ user[q.target] \in UserRows
  BY <1>1 DEF Check, Relies, UsersTypes
<1>3. user' = user /\ epoch' = epoch /\ tokens' = tokens /\ started' = started /\ started \in Nat
  BY <1>1 DEF Check, UsersTypes
<1>4. CASE permitted(q)
  <2>1. /\ local \in RequestLocals /\ local.pc = "write" /\ local.row = user[q.target]
        /\ local.target = q.target /\ local.op = q.op
        /\ local.newRole = q.newRole /\ local.newStatus = q.newStatus
    BY <1>1, <1>2 DEF RequestLocals, RequestPc
  <2>2. req' = [req EXCEPT ![c] = local] /\ lock' = lock
    BY <1>4 DEF Check, Set
  <2> HIDE DEF local
  <2>3. /\ req' \in [Requests -> RequestLocals] /\ req'[c] = local
        /\ \A d \in Requests \ {c} : req'[d] = req[d]
    BY <1>1, <2>1, <2>2, SetFacts
  <2>4. losesActiveOwnerStatus(local, user[q.target]) =>
          \E u \in UserIds \ {q.target} : isActiveOwner(u)'
    BY <1>3, <1>4, <2>1 DEF permitted, losesActiveOwnerStatus, isActiveOwner
  <2>5. user[q.target].exists
    BY <1>4 DEF permitted
  <2>6. Relies(c)'
    BY <1>2, <1>3, <2>1, <2>2, <2>3, <2>4, <2>5 DEF Relies
  <2> QED
    BY <1>2, <1>3, <2>2, <2>3, <2>6, QuietSteps
<1>5. CASE ~permitted(q)
  <2>1. req' = [req EXCEPT ![c] = NoRequest] /\ lock' = ABSENT
    BY <1>5 DEF Check, End, Set
  <2>2. /\ req' \in [Requests -> RequestLocals] /\ req'[c] = NoRequest
        /\ \A d \in Requests \ {c} : req'[d] = req[d]
    BY <1>1, <2>1, SetFacts
  <2>3. Relies(c)'
    BY <2>1, <2>2, EndRelies, UsersAssumption
  <2> QED
    BY <1>2, <1>3, <2>1, <2>2, <2>3, QuietSteps
<1> QED
  BY <1>4, <1>5

\* The current password is compared.
LEMMA CompareStep ==
  ASSUME UsersInv, NEW c \in Requests, ComparePassword(c)
  PROVE  UsersInv'
<1> DEFINE hash == [req[c] EXCEPT !.pc = "hash"]
<1>1. UsersTypes /\ NoRequest \in RequestLocals /\ Relies(c) /\ req[c] \in RequestLocals
  BY NoneTyped DEF UsersInv, UsersTypes
<1>2. hash \in RequestLocals /\ hash.pc = "hash" /\ hash.target = req[c].target /\ hash.op = req[c].op
  BY <1>1 DEF RequestLocals, RequestPc
<1>3. /\ user' = user /\ epoch' = epoch /\ tokens' = tokens /\ started' = started
      /\ lock' = lock /\ started \in Nat /\ lock \in Requests \cup {ABSENT}
      /\ req[c].pc = "begin" /\ req[c].op = "changeOwnPassword"
  BY <1>1 DEF ComparePassword, UsersTypes
<1>4. lock # c /\ req[c].target \in UserIds /\ user[req[c].target].exists
  BY <1>1, <1>3 DEF Relies
<1>5. req' = [req EXCEPT ![c] = hash] \/ req' = [req EXCEPT ![c] = NoRequest]
  BY DEF ComparePassword, End, Set
<1> HIDE DEF hash
<1>6. CASE req' = [req EXCEPT ![c] = hash]
  <2>1. /\ req' \in [Requests -> RequestLocals] /\ req'[c] = hash
        /\ \A d \in Requests \ {c} : req'[d] = req[d]
    BY <1>1, <1>2, <1>6, SetFacts
  <2>2. Relies(c)'
    BY <1>2, <1>3, <1>4, <2>1 DEF Relies
  <2> QED
    BY <1>3, <1>4, <2>1, <2>2, QuietSteps
<1>7. CASE req' = [req EXCEPT ![c] = NoRequest]
  <2>1. /\ req' \in [Requests -> RequestLocals] /\ req'[c] = NoRequest
        /\ \A d \in Requests \ {c} : req'[d] = req[d]
    BY <1>1, <1>7, SetFacts
  <2>2. Relies(c)'
    BY <1>3, <1>4, <2>1, EndRelies
  <2> QED
    BY <1>3, <1>4, <2>1, <2>2, QuietSteps
<1> QED
  BY <1>5, <1>6, <1>7

\* The steps that write a user and end their request.
LEMMA WritingSteps ==
  ASSUME UsersInv, UsersTypes', NEW c \in Requests,
         req'[c] = NoRequest, \A d \in Requests \ {c} : req'[d] = req[d],
         \A u \in UserIds : UserGrows(u),
         \/ lock = c /\ lock' = ABSENT
         \/ (\A u \in UserIds : UserKeeps(u)) /\ lock' = lock /\ lock # c,
         LastOwner',
         \A t \in tokens' \ tokens : Snapshot(t.sub, t.role, t.version, t.password, t.epoch)'
  PROVE  UsersInv'
<1>1. UsersTypes
  BY DEF UsersInv
<1>2. \A t \in tokens : Snapshot(t.sub, t.role, t.version, t.password, t.epoch)'
  <2> TAKE t \in tokens
  <2>1. t.sub \in UserIds /\ t.version \in 0..MaxVersion
    BY <1>1 DEF UsersTypes, Tokens
  <2>2. Snapshot(t.sub, t.role, t.version, t.password, t.epoch)
    BY DEF UsersInv
  <2> QED
    BY <1>1, <2>1, <2>2, SnapshotKept
<1>3. \A d \in Requests \ {c} : Relies(d)'
  BY OthersRely
<1>4. Relies(c)'
  BY EndRelies, UsersAssumption
<1> QED
  BY <1>2, <1>3, <1>4 DEF UsersInv

\* create and provision insert a row where none is.
LEMMA InsertStep ==
  ASSUME UsersInv, NEW c \in Requests, NEW u \in UserIds, NEW row \in UserRows,
         req[c].pc = "begin", req' = [req EXCEPT ![c] = NoRequest],
         tokens' = tokens, lock' = lock, epoch' = epoch, started' = started,
         user' = user \/ (~user[u].exists /\ user' = [user EXCEPT ![u] = row])
  PROVE  UsersInv'
<1>1. UsersTypes /\ NoRequest \in RequestLocals /\ Relies(c)
  BY NoneTyped DEF UsersInv, UsersTypes
<1>2. /\ req' \in [Requests -> RequestLocals] /\ req'[c] = NoRequest
      /\ \A d \in Requests \ {c} : req'[d] = req[d]
  BY <1>1, SetFacts
<1>3. user' \in [UserIds -> UserRows] /\ \A v \in UserIds : user[v].exists => user'[v] = user[v]
  BY <1>1 DEF UsersTypes
<1>4. UsersTypes'
  BY <1>1, <1>2, <1>3 DEF UsersTypes
<1>5. \A v \in UserIds : user[v].version \leq user[v].version
  BY <1>1, UsersAssumption DEF UsersTypes, UserRows
<1>6. \A v \in UserIds : UserGrows(v) /\ UserKeeps(v)
  BY <1>3, <1>5 DEF UserGrows, UserKeeps
<1>7. LastOwner'
  BY <1>6, OwnersKept DEF UsersInv, LastOwner
<1>8. lock # c
  BY <1>1 DEF Relies
<1> QED
  BY <1>2, <1>4, <1>6, <1>7, <1>8, WritingSteps

\* create: a second user of an address is refused.
LEMMA CreateStep ==
  ASSUME UsersInv, NEW c \in Requests, Create(c)
  PROVE  UsersInv'
<1> DEFINE u == req[c].target
<1>1. NoUser \in UserRows /\ u \in UserIds
  BY NoneTyped DEF UsersInv, Relies, Create
<1>2. /\ req[c].pc = "begin" /\ req' = [req EXCEPT ![c] = NoRequest]
      /\ tokens' = tokens /\ lock' = lock /\ epoch' = epoch /\ started' = started
  BY DEF Create, End, Set
<1>3. CASE user' = user
  BY <1>1, <1>2, <1>3, InsertStep
<1>4. CASE user' # user
  <2>1. PICK r \in Role, s \in Status :
          user' = [user EXCEPT ![u] = [NoUser EXCEPT !.exists = TRUE, !.role = r, !.status = s]]
    BY <1>4 DEF Create
  <2>2. [NoUser EXCEPT !.exists = TRUE, !.role = r, !.status = s] \in UserRows
    BY <1>1 DEF NoUser, UserRows
  <2>3. ~user[u].exists
    BY <1>4 DEF Create
  <2> QED
    BY <1>1, <1>2, <2>1, <2>2, <2>3, InsertStep
<1> QED
  BY <1>3, <1>4

\* provision: an identity that exists is left alone.
LEMMA ProvisionStep ==
  ASSUME UsersInv, NEW c \in Requests, Provision(c)
  PROVE  UsersInv'
<1> DEFINE row == [NoUser EXCEPT !.exists = TRUE, !.status = "ACTIVE", !.machine = TRUE]
<1>1. NoUser \in UserRows /\ bridge \in UserIds
  BY NoneTyped, UsersAssumption
<1>2. row \in UserRows
  BY <1>1 DEF NoUser, UserRows, Status
<1>3. /\ req[c].pc = "begin" /\ req' = [req EXCEPT ![c] = NoRequest]
      /\ tokens' = tokens /\ lock' = lock /\ epoch' = epoch /\ started' = started
      /\ user' = user \/ (~user[bridge].exists /\ user' = [user EXCEPT ![bridge] = row])
  BY DEF Provision, End, Set
<1> QED
  BY <1>1, <1>2, <1>3, InsertStep

\* changeOwnPassword: a new version, and the token of it.
LEMMA PasswordStep ==
  ASSUME UsersInv, NEW c \in Requests, ChangePassword(c)
  PROVE  UsersInv'
<1> DEFINE u == req[c].target
<1>1. UsersTypes /\ NoRequest \in RequestLocals /\ Relies(c) /\ req[c].pc = "hash"
  BY NoneTyped DEF UsersInv, UsersTypes, ChangePassword
<1>2. u \in UserIds /\ user[u].exists /\ lock # c
  BY <1>1 DEF Relies
<1>3. user[u] \in UserRows /\ user[u].version \in Nat /\ epoch[u] \in Nat /\ user[u].version < MaxVersion
  BY <1>1, <1>2, UsersAssumption DEF UsersTypes, UserRows, ChangePassword
<1>4. PICK p \in Passwords :
        /\ user' = [user EXCEPT ![u] = [user[u] EXCEPT !.password = p, !.version = @ + 1]]
        /\ tokens' = tokens \cup {freshToken(u, [user[u] EXCEPT !.password = p, !.version = @ + 1])}
  BY DEF ChangePassword
<1>5. PICK row : row = [user[u] EXCEPT !.password = p, !.version = @ + 1]
  OBVIOUS
<1>6. /\ row \in UserRows /\ row.version = user[u].version + 1 /\ row.exists = user[u].exists
      /\ row.role = user[u].role /\ row.status = user[u].status /\ row.deleted = user[u].deleted
  <2> DEFINE n == user[u].version + 1
  <2>1. n \in 0..MaxVersion
    BY <1>3, UsersAssumption
  <2>2. row = [user[u] EXCEPT !.password = p, !.version = n]
    BY <1>3, <1>5 DEF UserRows
  <2>3. row.version = n
    BY <1>3, <2>2 DEF UserRows
  <2> HIDE DEF n
  <2> QED
    BY <1>3, <2>1, <2>2, <2>3 DEF UserRows, n
<1>7. PICK t : t = issueTokenFor(u, row, epoch[u])
  OBVIOUS
<1>8. user' = [user EXCEPT ![u] = row] /\ tokens' = tokens \cup {t}
  BY <1>4, <1>5, <1>7 DEF freshToken
<1>9. /\ req' = [req EXCEPT ![c] = NoRequest] /\ lock' = lock /\ epoch' = epoch /\ started' = started
  BY DEF ChangePassword, End, Set
<1>10. /\ req' \in [Requests -> RequestLocals] /\ req'[c] = NoRequest
       /\ \A d \in Requests \ {c} : req'[d] = req[d]
  BY <1>1, <1>9, SetFacts
<1>11. /\ t \in Tokens /\ t.sub = u /\ t.version = row.version /\ t.role = row.role
       /\ t.password = row.password /\ t.epoch = epoch[u]
  BY <1>2, <1>3, <1>6, <1>7, TokenTyped DEF issueTokenFor
<1>12. /\ user' \in [UserIds -> UserRows] /\ user'[u] = row
       /\ \A v \in UserIds \ {u} : user'[v] = user[v]
  BY <1>1, <1>2, <1>6, <1>8 DEF UsersTypes
<1> HIDE DEF u
<1>13. UsersTypes'
  BY <1>1, <1>8, <1>9, <1>10, <1>11, <1>12 DEF UsersTypes
<1>14. \A v \in UserIds : UserGrows(v) /\ UserKeeps(v)
  <2>1. UserGrows(u) /\ UserKeeps(u)
    <3>1. user[u].version \leq row.version /\ user[u].version # row.version
      BY <1>3, <1>6
    <3> QED
      BY <1>2, <1>6, <1>12, <3>1 DEF UserGrows, UserKeeps
  <2>2. \A v \in UserIds \ {u} : user[v].version \leq user[v].version
    BY <1>1, UsersAssumption DEF UsersTypes, UserRows
  <2>3. \A v \in UserIds \ {u} : UserGrows(v) /\ UserKeeps(v)
    BY <1>9, <1>12, <2>2 DEF UserGrows, UserKeeps
  <2> QED
    BY <2>1, <2>3
<1>15. LastOwner'
  BY <1>14, OwnersKept DEF UsersInv, LastOwner
<1>16. Snapshot(t.sub, t.role, t.version, t.password, t.epoch)'
  <2>1. /\ user'[t.sub] = row /\ row.exists /\ t.version \leq row.version
        /\ t.epoch = epoch'[t.sub]
    BY <1>2, <1>3, <1>6, <1>9, <1>11, <1>12
  <2> QED
    BY <1>11, <2>1 DEF Snapshot
<1>17. \A s \in tokens' \ tokens : Snapshot(s.sub, s.role, s.version, s.password, s.epoch)'
  BY <1>8, <1>16
<1> QED
  BY <1>2, <1>9, <1>10, <1>13, <1>14, <1>15, <1>17, WritingSteps DEF u

\* What update and softDelete write: a row of its type, of a higher version where a
\* token would see the difference, and still an active owner unless that is lost.
LEMMA WrittenFacts ==
  ASSUME NEW q \in RequestLocals, q.op \in Locking, NEW row \in UserRows,
         q.row.role = row.role, q.row.status = row.status,
         NEW new, new = written(q, row), new.version \leq MaxVersion
  PROVE  /\ new \in UserRows /\ new.exists = row.exists /\ new.password = row.password
         /\ row.version \leq new.version
         /\ row.version = new.version =>
              new.role = row.role /\ q.op # "softDelete" /\ ~suspends(q, q.row)
         /\ row.role = "OWNER" /\ row.status = "ACTIVE" /\ ~losesActiveOwnerStatus(q, row) =>
              new.role = "OWNER" /\ new.status = "ACTIVE" /\ new.deleted = row.deleted
<1>1. row.version \in Nat /\ MaxVersion \in Nat
  BY UsersAssumption DEF UserRows
<1>2. CASE q.op = "softDelete"
  <2> DEFINE n == row.version + 1
  <2>1. new = [row EXCEPT !.status = "DISABLED", !.deleted = TRUE, !.version = n]
    BY <1>2 DEF written, softDeleted, UserRows
  <2>2. new.version = n
    BY <2>1 DEF UserRows
  <2>3. n \in 0..MaxVersion /\ row.version \leq n /\ row.version # n
    BY <1>1, <2>2
  <2>4. row.role = "OWNER" /\ row.status = "ACTIVE" => losesActiveOwnerStatus(q, row)
    BY <1>2 DEF losesActiveOwnerStatus
  <2> HIDE DEF n
  <2>5. new \in UserRows /\ new.exists = row.exists /\ new.password = row.password
    BY <2>1, <2>3 DEF UserRows, Status
  <2> QED
    BY <2>2, <2>3, <2>4, <2>5
<1>3. CASE q.op # "softDelete"
  <2> DEFINE r == IF q.newRole = ABSENT THEN row.role ELSE q.newRole
             s == IF q.newStatus = ABSENT THEN row.status ELSE q.newStatus
             n == row.version + IF shouldBumpTokenVersion(q) THEN 1 ELSE 0
  <2>1. new = [row EXCEPT !.role = r, !.status = s, !.version = n]
    BY <1>3 DEF written, updated, UserRows
  <2>2. r \in Role /\ s \in Status /\ n \in Nat /\ row.version \leq n
    BY <1>1 DEF RequestLocals, UserRows
  <2>3. n = row.version => r = row.role /\ ~suspends(q, q.row)
    BY <1>1 DEF shouldBumpTokenVersion
  <2>4. row.role = "OWNER" /\ row.status = "ACTIVE" /\ ~losesActiveOwnerStatus(q, row) =>
          r = "OWNER" /\ s = "ACTIVE"
    BY DEF losesActiveOwnerStatus
  <2> HIDE DEF r, s, n
  <2>5. new.version = n /\ new.role = r /\ new.status = s
    BY <2>1 DEF UserRows
  <2>6. n \in 0..MaxVersion
    BY <1>1, <2>2, <2>5
  <2>7. /\ new \in UserRows /\ new.exists = row.exists /\ new.password = row.password
        /\ new.deleted = row.deleted
    BY <2>1, <2>2, <2>6 DEF UserRows
  <2> QED
    BY <1>3, <2>2, <2>3, <2>4, <2>5, <2>7
<1> QED
  BY <1>2, <1>3

\* update and softDelete write under the lock.
LEMMA WriteStep ==
  ASSUME UsersInv, NEW c \in Requests, Write(c)
  PROVE  UsersInv'
<1> DEFINE q == req[c]
           u == q.target
           new == written(q, user[u])
<1>1. UsersTypes /\ NoRequest \in RequestLocals /\ Relies(c) /\ q \in RequestLocals /\ q.pc = "write"
  BY NoneTyped DEF UsersInv, UsersTypes, Write
<1>2. /\ lock = c /\ u \in UserIds /\ q.op \in Locking
      /\ q.row.role = user[u].role /\ q.row.status = user[u].status
      /\ losesActiveOwnerStatus(q, user[u]) => \E v \in UserIds \ {u} : isActiveOwner(v)
  BY <1>1 DEF Relies
<1>3. user[u] \in UserRows /\ new.version \leq MaxVersion
  BY <1>1, <1>2 DEF UsersTypes, Write
<1>4. /\ new \in UserRows /\ new.exists = user[u].exists /\ new.password = user[u].password
      /\ user[u].version \leq new.version
      /\ user[u].version = new.version =>
           new.role = user[u].role /\ q.op # "softDelete" /\ ~suspends(q, q.row)
      /\ user[u].role = "OWNER" /\ user[u].status = "ACTIVE" /\ ~losesActiveOwnerStatus(q, user[u]) =>
           new.role = "OWNER" /\ new.status = "ACTIVE" /\ new.deleted = user[u].deleted
  BY <1>1, <1>2, <1>3, WrittenFacts
<1>5. /\ user' = [user EXCEPT ![u] = new] /\ lock' = ABSENT /\ tokens' = tokens /\ started' = started
      /\ req' = [req EXCEPT ![c] = NoRequest]
  BY DEF Write, End, Set
<1>6. epoch' = [epoch EXCEPT ![u] = IF q.op = "softDelete" \/ suspends(q, q.row) THEN @ + 1 ELSE @]
  BY DEF Write
<1> HIDE DEF new
<1>7. /\ req' \in [Requests -> RequestLocals] /\ req'[c] = NoRequest
      /\ \A d \in Requests \ {c} : req'[d] = req[d]
  BY <1>1, <1>5, SetFacts
<1>8. /\ user' \in [UserIds -> UserRows] /\ user'[u] = new
      /\ \A v \in UserIds \ {u} : user'[v] = user[v]
  BY <1>1, <1>2, <1>4, <1>5 DEF UsersTypes
<1>9. /\ epoch' \in [UserIds -> Nat] /\ \A v \in UserIds \ {u} : epoch'[v] = epoch[v]
      /\ user[u].version = new.version => epoch'[u] = epoch[u]
  BY <1>1, <1>2, <1>4, <1>6 DEF UsersTypes
<1>10. UsersTypes'
  BY <1>1, <1>5, <1>7, <1>8, <1>9 DEF UsersTypes
<1>11. \A v \in UserIds : UserGrows(v)
  <2>1. \A v \in UserIds : user[v].version \leq user[v].version
    BY <1>1, UsersAssumption DEF UsersTypes, UserRows
  <2> QED
    BY <1>2, <1>4, <1>8, <1>9, <2>1 DEF UserGrows
<1>12. LastOwner'
  <2>1. PICK v \in UserIds : isActiveOwner(v)
    BY DEF UsersInv, LastOwner
  <2>2. CASE v # u
    BY <1>8, <2>1, <2>2 DEF LastOwner, isActiveOwner
  <2>3. CASE v = u /\ losesActiveOwnerStatus(q, user[u])
    <3>1. PICK w \in UserIds \ {u} : isActiveOwner(w)
      BY <1>2, <2>3
    <3> QED
      BY <1>8, <3>1 DEF LastOwner, isActiveOwner
  <2>4. CASE v = u /\ ~losesActiveOwnerStatus(q, user[u])
    BY <1>2, <1>4, <1>8, <2>1, <2>4 DEF LastOwner, isActiveOwner
  <2> QED
    BY <2>2, <2>3, <2>4
<1> QED
  BY <1>2, <1>5, <1>7, <1>10, <1>11, <1>12, WritingSteps

-----------------------------------------------------------------------------
(* Theorems.                                                               *)

\* The organization starts with an owner, no token and no request.
LEMMA UsersInitInv == UsersInit => UsersInv
<1> SUFFICES ASSUME UsersInit PROVE UsersInv
  OBVIOUS
<1>1. NoUser \in UserRows /\ NoRequest \in RequestLocals
  BY NoneTyped
<1>2. \A u \in UserIds : user[u] \in UserRows
  <2> TAKE u \in UserIds
  <2> DEFINE R == [exists : {TRUE}, role : {"OWNER"}, status : {"ACTIVE"}, deleted : {FALSE},
                   machine : {FALSE}, version : {0}, password : Passwords]
  <2>1. user[u] = NoUser \/ user[u] \in R
    BY DEF UsersInit
  <2>2. R \subseteq UserRows
    <3>1. 0 \in 0..MaxVersion
      BY UsersAssumption
    <3> QED
      BY <3>1 DEF UserRows, Role, Status
  <2> HIDE DEF R
  <2> QED
    BY <1>1, <2>1, <2>2
<1>3. \E f : user = [u \in UserIds |-> f[u]]
  BY DEF UsersInit
<1>4. user \in [UserIds -> UserRows]
  BY <1>2, <1>3
<1>5. UsersTypes
  BY <1>1, <1>4 DEF UsersInit, UsersTypes
<1>6. LastOwner
  <2>1. PICK u \in UserIds : u \in owners
    BY UsersAssumption
  <2>2. user[u].exists /\ ~NoUser.exists
    BY <2>1 DEF UsersInit, NoUser
  <2>3. user[u] \in [exists : {TRUE}, role : {"OWNER"}, status : {"ACTIVE"}, deleted : {FALSE},
                     machine : {FALSE}, version : {0}, password : Passwords]
    BY <2>1, <2>2 DEF UsersInit
  <2> QED
    BY <2>3 DEF LastOwner, isActiveOwner
<1>7. \A c \in Requests : Relies(c)
  BY UsersAssumption DEF UsersInit, Relies, NoRequest
<1> QED
  BY <1>5, <1>6, <1>7 DEF UsersInv, UsersInit

\* Every step of every request keeps the invariant.
LEMMA UsersNextInv == UsersInv /\ [UsersNext]_usersVars => UsersInv'
<1> SUFFICES ASSUME UsersInv, [UsersNext]_usersVars PROVE UsersInv'
  OBVIOUS
<1>1. CASE UsersNext
  <2>1. PICK c \in Requests :
          \/ \E u \in UserIds : Login(c, u)
          \/ \E t \in tokens : Authorize(c, t)
          \/ LoginIssues(c) \/ LockOrganization(c) \/ Check(c) \/ Write(c)
          \/ Create(c) \/ ComparePassword(c) \/ ChangePassword(c) \/ Provision(c)
    BY <1>1 DEF UsersNext
  <2> QED
    BY <2>1, LoginStep, AuthorizeStep, LoginIssuesStep, LockStep, CheckStep, WriteStep,
       CreateStep, CompareStep, PasswordStep, ProvisionStep
<1>2. CASE UNCHANGED usersVars
  BY <1>2 DEF usersVars, UsersInv, UsersTypes, LastOwner, isActiveOwner, Snapshot, Relies,
     losesActiveOwnerStatus
<1> QED
  BY <1>1, <1>2

\* The inductive invariant of the users of an organization holds throughout.
LEMMA UsersInvariance == UsersSpec => []UsersInv
BY UsersInitInv, UsersNextInv, PTL DEF UsersSpec

\* UserRows, tokens and requests keep their types, whatever requests interleave.
THEOREM UsersTypeCorrect == UsersSpec => []UsersTypeOK
<1>1. UsersInv => UsersTypeOK
  BY DEF UsersInv, UsersTypes, UserRows, UsersTypeOK, Relies
<1> QED
  BY <1>1, UsersInvariance, PTL

\* However many owners and requests there are, update and softDelete under the
\* organization's lock always leave an active owner who is not deleted.
THEOREM OwnerIsLeft == UsersSpec => []LastOwner
<1>1. UsersInv => LastOwner
  BY DEF UsersInv
<1> QED
  BY <1>1, UsersInvariance, PTL

\* However login, password changes, role changes and suspensions interleave, a
\* token that validate accepts was issued from the user as it is.
THEOREM TokensAreCurrent == UsersSpec => []TokenCurrent
<1>1. UsersInv => TokenCurrent
  BY DEF UsersInv, Snapshot, TokenCurrent, validate
<1> QED
  BY <1>1, UsersInvariance, PTL
=============================================================================
