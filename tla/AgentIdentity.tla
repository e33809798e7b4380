---------------------------- MODULE AgentIdentity ----------------------------
(***************************************************************************)
(* Who executes the step of a workflow run: the agents of an organization  *)
(* (digital-employees, capabilities), the task of the run, the assignment  *)
(* a human approves for the step, the execution plan that binds the step   *)
(* to a capability, and WorkflowExecutionIdentityService.resolve, which    *)
(* reads them one after the other.  One run and one of its step types; the *)
(* callers and the approvers are processes of a rolling deployment, so     *)
(* each has the step-to-capability mapping of its own version.             *)
(***************************************************************************)
EXTENDS Absent, Naturals

CONSTANTS
  Agents,     \* digital employees
  Humans,     \* users a task may be assigned to
  Codes,      \* capability codes
  Unsafe,     \* those of high risk that need no approval
  Resolvers,  \* calls of resolve
  Approvers,  \* calls of approve
  Activators, \* calls of activate
  Editors,    \* calls of the task service
  Mapping,    \* SERVER_OWNED_CAPABILITY_BY_STEP of each process, for the step
  MaxEdits  \* bound on the administration of the agents

VARIABLES
  agent,      \* status and capability links of each agent
  plan,       \* the workflow_execution_plan_entries row
  assignment, \* the workflow_agent_assignments row
  task,       \* who the task is assigned to
  lookup,       \* the calls of resolvers, approvers and editors
  approved,   \* history: agents and capabilities approve has accepted
  edits

identityVars == <<agent, plan, assignment, task, lookup, approved, edits>>

Idle == [pc |-> "idle", agent |-> ABSENT, data |-> ABSENT, assigned |-> ABSENT, capability |-> ABSENT]

Processes == Resolvers \cup Approvers \cup Activators \cup Editors

\* Every version maps the step to a capability.
ASSUME IdentityAssumption ==
  /\ MaxEdits \in Nat
  /\ Unsafe \subseteq Codes
  /\ ABSENT \notin Codes
  /\ Mapping \in [Resolvers \cup Approvers -> Codes]

NewAgent == [status |-> "DRAFT", link |-> [c \in Codes |-> "none"]]

IdentityInit ==
  /\ agent = [e \in Agents |-> NewAgent]
  /\ plan = ABSENT
  /\ assignment = ABSENT
  /\ task \in {[user |-> ABSENT, agent |-> ABSENT]} \cup [user : {ABSENT}, agent : Agents]
  /\ lookup = [p \in Processes |-> Idle]
  /\ approved = {}
  /\ edits = 0

IsAt(p, pc) == lookup[p].pc = pc
Becomes(p, local) == lookup' = [lookup EXCEPT ![p] = local]
Goto(p, pc) == Becomes(p, [lookup[p] EXCEPT !.pc = pc])

-----------------------------------------------------------------------------
(* Agents and their capabilities. *)

Administer == edits < MaxEdits /\ edits' = edits + 1
              /\ UNCHANGED <<plan, assignment, task, lookup, approved>>

\* update: every status but ACTIVE may be written.
update(e, status) ==
  /\ Administer
  /\ status # "ACTIVE"
  /\ agent' = [agent EXCEPT ![e].status = status]

\* The gate: some capability is enabled, and no unsafe one.  The status is
\* written in a later transaction.
activate(p, e) ==
  /\ IsAt(p, "idle")
  /\ agent[e].status \in {"DRAFT", "PAUSED"}
  /\ \E c \in Codes : agent[e].link[c] = "enabled"
  /\ \A c \in Unsafe : agent[e].link[c] # "enabled"
  /\ Becomes(p, [lookup[p] EXCEPT !.pc = "reviewed", !.agent = e])
  /\ UNCHANGED <<agent, plan, assignment, task, approved, edits>>

WriteActive(p) ==
  /\ IsAt(p, "reviewed")
  /\ agent' = [agent EXCEPT ![lookup[p].agent].status = "ACTIVE"]
  /\ Goto(p, "done")
  /\ UNCHANGED <<plan, assignment, task, approved, edits>>

grantToDigitalEmployee(e, c, enabled) ==
  /\ Administer
  /\ agent' = [agent EXCEPT ![e].link[c] = IF enabled THEN "enabled" ELSE "disabled"]

revokeFromDigitalEmployee(e, c) ==
  /\ Administer
  /\ agent[e].link[c] # "none"
  /\ agent' = [agent EXCEPT ![e].link[c] = "none"]

-----------------------------------------------------------------------------
(* Assignments. *)

\* approve checks the agent, and writes the assignment in a later statement.
approve(p, e) ==
  /\ IsAt(p, "idle")
  /\ agent[e].status = "ACTIVE" /\ agent[e].link[Mapping[p]] = "enabled"
  /\ Becomes(p, [lookup[p] EXCEPT !.pc = "checked", !.agent = e])
  /\ approved' = approved \cup {<<e, Mapping[p]>>}
  /\ UNCHANGED <<agent, plan, assignment, task, edits>>

WriteAssignment(p) ==
  /\ IsAt(p, "checked")
  /\ assignment' = [agent |-> lookup[p].agent, capability |-> Mapping[p], status |-> "APPROVED"]
  /\ Goto(p, "done")
  /\ UNCHANGED <<agent, plan, task, approved, edits>>

revoke ==
  /\ assignment # ABSENT
  /\ assignment.status = "APPROVED"
  /\ assignment' = [assignment EXCEPT !.status = "REVOKED"]
  /\ UNCHANGED <<agent, plan, task, lookup, approved, edits>>

resolveApproved ==
  IF assignment # ABSENT /\ assignment.status = "APPROVED" THEN assignment ELSE ABSENT

-----------------------------------------------------------------------------
(* The task. *)

Sides == {"user", "agent"}

\* The fields of a PATCH: a value, ABSENT (null), or not in the input at all.
TaskInputs ==
  [user : Humans \cup {ABSENT}] \cup [agent : Agents \cup {ABSENT}]
  \cup [user : Humans \cup {ABSENT}, agent : Agents \cup {ABSENT}] \cup {<<>>}

\* Setting one side clears the other; both at once are refused.
resolveAssignmentTarget(existing, dto) ==
  LET given == DOMAIN dto
      side(f) == IF f \in given THEN dto[f] ELSE existing[f]
      cleared(f, other) == f \notin given /\ other \in given /\ dto[other] # ABSENT
  IN  [user  |-> IF cleared("user", "agent") THEN ABSENT ELSE side("user"),
       agent |-> IF cleared("agent", "user") THEN ABSENT ELSE side("agent")]

Both(t) == t.user # ABSENT /\ t.agent # ABSENT

\* The mistake of writing only the fields of the request and what they clear.
givenFields(dto, existing) ==
  LET target == resolveAssignmentTarget(existing, dto)
      changed == {f \in Sides : f \in DOMAIN dto \/ target[f] # existing[f]}
  IN  [f \in changed |-> target[f]]

\* update writes both sides, whatever the request names.
assignmentData(dto, existing) == resolveAssignmentTarget(existing, dto)

updateTask(p, dto) ==
  /\ IsAt(p, "idle")
  /\ ~Both(resolveAssignmentTarget(task, dto))
  /\ Becomes(p, [lookup[p] EXCEPT !.pc = "target", !.data = assignmentData(dto, task)])
  /\ UNCHANGED <<agent, plan, assignment, task, approved, edits>>

WriteTask(p) ==
  /\ IsAt(p, "target")
  /\ task' = [f \in Sides |-> IF f \in DOMAIN lookup[p].data THEN lookup[p].data[f] ELSE task[f]]
  /\ Becomes(p, [Idle EXCEPT !.pc = "done"])
  /\ UNCHANGED <<agent, plan, assignment, approved, edits>>

-----------------------------------------------------------------------------
(* resolve. *)

\* The mistake of answering with the mapping of this process.
boundToMapping(p) == TRUE

\* The stored capability must be the one of this process.
assertImmutable(p) == plan = Mapping[p]

Resolve(p) ==
  /\ IsAt(p, "idle")
  /\ Goto(p, IF plan = ABSENT THEN "unbound"
             ELSE IF assertImmutable(p) THEN "bound" ELSE "failed")
  /\ UNCHANGED <<agent, plan, assignment, task, approved, edits>>

\* INSERT ... ON CONFLICT DO NOTHING, then the row is read back.
BindPlan(p) ==
  /\ IsAt(p, "unbound")
  /\ plan' = IF plan = ABSENT THEN Mapping[p] ELSE plan
  /\ Goto(p, "inserted")
  /\ UNCHANGED <<agent, assignment, task, approved, edits>>

ReadBack(p) ==
  /\ IsAt(p, "inserted")
  /\ Goto(p, IF assertImmutable(p) THEN "bound" ELSE "failed")
  /\ UNCHANGED <<agent, plan, assignment, task, approved, edits>>

assignmentMatches(p, a) == a = ABSENT \/ a.capability = Mapping[p]

ReadAssignment(p) ==
  /\ IsAt(p, "bound")
  /\ IF assignmentMatches(p, resolveApproved)
     THEN Becomes(p, [lookup[p] EXCEPT !.pc = "assigned", !.assigned = resolveApproved])
     ELSE Goto(p, "failed")
  /\ UNCHANGED <<agent, plan, assignment, task, approved, edits>>

\* The assignment names the agent, or else the task does.
ReadTask(p) ==
  /\ IsAt(p, "assigned")
  /\ LET e == IF lookup[p].assigned # ABSENT THEN lookup[p].assigned.agent ELSE task.agent
     IN  IF e = ABSENT THEN Goto(p, "failed")
         ELSE Becomes(p, [lookup[p] EXCEPT !.pc = "named", !.agent = e])
  /\ UNCHANGED <<agent, plan, assignment, task, approved, edits>>

\* The agent of a task may have any status.
ReadAgent(p) ==
  /\ IsAt(p, "named")
  /\ IF lookup[p].assigned # ABSENT /\ agent[lookup[p].agent].status # "ACTIVE"
     THEN Goto(p, "failed")
     ELSE Becomes(p, [lookup[p] EXCEPT !.pc = "resolved", !.capability = Mapping[p]])
  /\ UNCHANGED <<agent, plan, assignment, task, approved, edits>>

-----------------------------------------------------------------------------
IdentityNext ==
  \/ \E e \in Agents :
       \/ \E p \in Activators : activate(p, e)
       \/ \E status \in {"PAUSED", "ARCHIVED"} : update(e, status)
       \/ \E c \in Codes : \/ revokeFromDigitalEmployee(e, c)
                           \/ \E b \in BOOLEAN : grantToDigitalEmployee(e, c, b)
       \/ \E p \in Approvers : approve(p, e)
  \/ \E p \in Approvers : WriteAssignment(p)
  \/ \E p \in Activators : WriteActive(p)
  \/ revoke
  \/ \E p \in Editors : WriteTask(p) \/ \E dto \in TaskInputs : updateTask(p, dto)
  \/ \E p \in Resolvers : \/ Resolve(p) \/ BindPlan(p) \/ ReadBack(p)
                          \/ ReadAssignment(p) \/ ReadTask(p) \/ ReadAgent(p)

IdentitySpec == IdentityInit /\ [][IdentityNext]_identityVars

-----------------------------------------------------------------------------
(* Properties. *)

Assignments == [agent : Agents, capability : Codes, status : {"APPROVED", "REVOKED"}]

\* Rows and calls have their declared values.
IdentityTypeOK ==
  /\ agent \in [Agents -> [status : {"DRAFT", "ACTIVE", "PAUSED", "ARCHIVED"},
                          link : [Codes -> {"none", "enabled", "disabled"}]]]
  /\ plan \in Codes \cup {ABSENT}
  /\ assignment \in Assignments \cup {ABSENT}
  /\ task.user \in Humans \cup {ABSENT} /\ task.agent \in Agents \cup {ABSENT}
  /\ \A p \in Processes : /\ lookup[p].agent \in Agents \cup {ABSENT}
                          /\ lookup[p].assigned \in Assignments \cup {ABSENT}
  /\ approved \subseteq Agents \X Codes
  /\ edits \in 0..MaxEdits

Resolved == {p \in Resolvers : IsAt(p, "resolved")}

\* All executions of a step are for one capability: while two versions of
\* the service with different mappings run side by side, the one that binds
\* the plan first decides and the other is refused
\* (workflow-execution-plan.service.ts:41-108).
PlanStable == \A p, q \in Resolved : lookup[p].capability = lookup[q].capability

\* An agent that executes a step by assignment was found active and enabled,
\* by the approval, for the very capability it executes
\* (workflow-execution-identity.service.ts:75-100).
AssignedIsApproved ==
  \A p \in Resolved :
    lookup[p].assigned # ABSENT => <<lookup[p].agent, lookup[p].capability>> \in approved

\* Who executes a step, and for which capability, is what was planned and
\* approved, whichever versions, edits and revocations interleave with resolve.
ExecutedAsPlanned == PlanStable /\ AssignedIsApproved

\* A task is never assigned to a user and to an agent at once, although each
\* edit computes both sides from a row it read before its transaction
\* (tasks.service.ts:144-196).
OneAssignee == ~Both(task)
=============================================================================
