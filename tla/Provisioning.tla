---------------------------- MODULE Provisioning ----------------------------
(***************************************************************************)
(* The three bootstraps an administrator starts, beside the ordinary       *)
(* administration of what they create: the engineering provider (a chain   *)
(* of separate transactions), the engineering agent and the addition of    *)
(* RELEASE_VERIFICATION (one transaction each, which reads, and whose      *)
(* creations a unique index refuses when somebody was faster).  Of the     *)
(* rows the model keeps the status and the links; names, types and model   *)
(* families are right or the row counts as mismatched.                     *)
(***************************************************************************)
EXTENDS Absent, Naturals

CONSTANTS
  Base,          \* LEGACY_BASE_CAPABILITIES
  Release,       \* RELEASE_VERIFICATION
  Bootstrappers, \* calls of the provider bootstrap
  AgentCalls,    \* calls of the agent bootstrap
  ReleaseCalls,  \* calls of the release verification bootstrap
  MaxChanges,    \* bound on the administration
  MaxFaults      \* bound on statements and processes that fail

VARIABLES
  provider,   \* cloud.openai.main: status, supported capabilities, links
  employee,   \* vito-engineer: status, links
  capability, \* the capabilities rows: none, governed, or of another risk
  call,       \* the bootstraps under way
  changes,    \* administration so far
  faults

provisioningVars == <<provider, employee, capability, call, changes, faults>>

Current == Base \cup {Release}
NoLinks == [c \in Current |-> "none"]
Calls == Bootstrappers \cup AgentCalls \cup ReleaseCalls

LinkStates == {"none", "disabled", "enabled"}
ProviderRows == [status : {"DISABLED", "ACTIVE"}, caps : {Base, Current}, link : [Current -> LinkStates]]
EmployeeRows == [status : {"DRAFT", "ACTIVE", "ARCHIVED"}, link : [Current -> LinkStates]]

\* A call is of one kind, and ABSENT is no row.
ASSUME ProvisioningAssumption ==
  /\ Bootstrappers \cap (AgentCalls \cup ReleaseCalls) = {}
  /\ AgentCalls \cap ReleaseCalls = {}
  /\ MaxChanges \in Nat /\ MaxFaults \in Nat
  /\ ABSENT \notin ProviderRows /\ ABSENT \notin EmployeeRows

\* What a call holds: the links to assign; the rows its transaction will insert.
NoCall == [pc |-> "idle", rest |-> {}, created |-> FALSE, defines |-> {}, employs |-> {},
           provides |-> {}, upgrade |-> FALSE]

\* A fresh organization, or one provisioned before RELEASE_VERIFICATION.
ProvisioningInit ==
  /\ provider \in {ABSENT, [status |-> "DISABLED", caps |-> Base,
                            link |-> [c \in Current |-> IF c = Release THEN "none" ELSE "disabled"]]}
  /\ employee = ABSENT
  /\ capability \in [Current -> {"none", "governed"}] \cup {[c \in Current |-> "other"]}
  /\ call = [p \in Calls |-> NoCall]
  /\ changes = 0
  /\ faults = 0

At(p, pc) == call[p].pc = pc
Move(p, to) == call' = [call EXCEPT ![p] = to]
Enter(p, pc) == Move(p, [NoCall EXCEPT !.pc = pc])
Rows == <<provider, employee, capability>>
Missing(links) == {c \in Current : links[c] = "none"}
Added(links, cs) == [c \in Current |-> IF c \in cs THEN "disabled" ELSE links[c]]

-----------------------------------------------------------------------------
(* The provider: each call to the registry is a transaction of its own. *)

ENGINEERING_PROVIDER == [status |-> "DISABLED", caps |-> Current, link |-> NoLinks]

matchesBootstrap(row) == row.status = "DISABLED" /\ row.caps = Current

findProvider(p) ==
  /\ At(p, "idle")
  /\ Enter(p, IF provider = ABSENT THEN "absent"
              ELSE IF matchesBootstrap(provider) THEN "found" ELSE "failed")
  /\ UNCHANGED <<Rows, changes, faults>>

\* The code of a provider is unique in its organization.
createProvider(p) ==
  /\ At(p, "absent")
  /\ IF provider = ABSENT
     THEN provider' = ENGINEERING_PROVIDER /\ Enter(p, "found")
     ELSE Enter(p, "failed") /\ UNCHANGED provider
  /\ UNCHANGED <<employee, capability, changes, faults>>

noActiveAuthority(links) == \A c \in Current : links[c] # "enabled"

listCapabilities(p) ==
  /\ At(p, "found")
  /\ IF noActiveAuthority(provider.link)
     THEN Move(p, [NoCall EXCEPT !.pc = "assign", !.rest = Missing(provider.link)])
     ELSE Enter(p, "failed")
  /\ UNCHANGED <<Rows, changes, faults>>

\* The mistake of taking a link that is there already for the end of the work.
stopAtExisting(p, c) ==
  IF provider.link[c] = "none"
  THEN /\ provider' = [provider EXCEPT !.link[c] = "disabled"]
       /\ Move(p, [call[p] EXCEPT !.rest = @ \ {c}])
  ELSE Enter(p, "done") /\ UNCHANGED provider

\* The mistake of writing the link whether it is there or not.
assignOrReset(p, c) ==
  /\ provider' = [provider EXCEPT !.link[c] = "disabled"]
  /\ Move(p, [call[p] EXCEPT !.rest = @ \ {c}])

\* One missing link, disabled; a link somebody else has created meanwhile is
\* a conflict and ends the call.
assignMissing(p, c) ==
  IF provider.link[c] = "none"
  THEN /\ provider' = [provider EXCEPT !.link[c] = "disabled"]
       /\ Move(p, [call[p] EXCEPT !.rest = @ \ {c}])
  ELSE Enter(p, "failed") /\ UNCHANGED provider

Assign(p) ==
  /\ At(p, "assign")
  /\ IF call[p].rest = {}
     THEN Enter(p, "done") /\ UNCHANGED provider
     ELSE LET c == CHOOSE c \in call[p].rest : TRUE IN assignMissing(p, c)
  /\ UNCHANGED <<employee, capability, changes, faults>>

-----------------------------------------------------------------------------
(* The agent and RELEASE_VERIFICATION: one transaction, whose reads and     *)
(* whose commit others may come between.                                    *)

declares(c) == capability[c] # "other"

ReadRows(p, ok, inserts) ==
  /\ At(p, "idle")
  /\ IF ok THEN Move(p, inserts) ELSE Enter(p, "failed")
  /\ UNCHANGED <<Rows, changes, faults>>

ReadAgentRows(p) ==
  LET links == IF employee = ABSENT THEN NoLinks ELSE employee.link
  IN  ReadRows(p, /\ employee # ABSENT => employee.status = "DRAFT"
                  /\ \A c \in Current : declares(c) /\ links[c] # "enabled",
               [NoCall EXCEPT !.pc = "read", !.created = (employee = ABSENT),
                              !.defines = {c \in Current : capability[c] = "none"},
                              !.employs = Missing(links)])

ReadReleaseRows(p) ==
  ReadRows(p, /\ employee # ABSENT /\ provider # ABSENT
              /\ employee.status \in {"DRAFT", "ACTIVE"} /\ provider.status \in {"DISABLED", "ACTIVE"}
              /\ provider.caps \in {Base, Current}
              /\ declares(Release)
              /\ employee.link[Release] # "enabled" /\ provider.link[Release] # "enabled",
              [NoCall EXCEPT !.pc = "read",
                             !.defines = {c \in {Release} : capability[c] = "none"},
                             !.employs = {Release} \cap Missing(employee.link),
                             !.provides = {Release} \cap Missing(provider.link),
                             !.upgrade = (provider.caps = Base)])

Defined(cs) == [c \in Current |-> IF c \in cs THEN "governed" ELSE capability[c]]

Commit(p) == At(p, "read") /\ Enter(p, "done") /\ UNCHANGED <<changes, faults>>

\* The unique indexes: of the code of an employee, of a capability, of a link.
Clash(p) ==
  LET t == call[p]
  IN  \/ \E c \in t.defines : capability[c] # "none"
      \/ p \in AgentCalls /\ t.created /\ employee # ABSENT
      \/ \E c \in t.employs : employee # ABSENT /\ employee.link[c] # "none"
      \/ p \in ReleaseCalls /\ \E c \in t.provides : provider.link[c] # "none"

Conflict(p) ==
  /\ At(p, "read")
  /\ Clash(p)
  /\ Enter(p, "failed")
  /\ UNCHANGED <<Rows, changes, faults>>

CommitAgent(p) ==
  /\ Commit(p)
  /\ ~Clash(p)
  /\ capability' = Defined(call[p].defines)
  /\ employee' = IF call[p].created THEN [status |-> "DRAFT", link |-> Added(NoLinks, Current)]
                 ELSE [employee EXCEPT !.link = Added(@, call[p].employs)]
  /\ UNCHANGED provider

\* The supported capabilities of a legacy provider are overwritten.
CommitRelease(p) ==
  /\ Commit(p)
  /\ ~Clash(p)
  /\ capability' = Defined(call[p].defines)
  /\ employee' = [employee EXCEPT !.link = Added(@, call[p].employs)]
  /\ provider' = [provider EXCEPT !.link = Added(@, call[p].provides),
                                  !.caps = IF call[p].upgrade THEN Current ELSE @]

-----------------------------------------------------------------------------
(* Around them: the administration and the faults. *)

Change == changes < MaxChanges /\ changes' = changes + 1 /\ UNCHANGED <<call, faults>>

\* activateProvider and updateProvider, setCapabilityEnabled, assignCapability.
AdministerProvider ==
  /\ Change
  /\ provider # ABSENT
  /\ \/ \E s \in {"ACTIVE", "DISABLED"} : provider' = [provider EXCEPT !.status = s]
     \/ \E c \in Current, l \in {"enabled", "disabled"} :
          provider' = [provider EXCEPT !.link[c] = l]
  /\ UNCHANGED <<employee, capability>>

\* The agent is activated or archived, a capability granted or revoked.
AdministerAgent ==
  /\ Change
  /\ employee # ABSENT
  /\ \/ \E s \in {"ACTIVE", "ARCHIVED"} : employee' = [employee EXCEPT !.status = s]
     \/ \E c \in Current, l \in {"enabled", "disabled", "none"} :
          /\ l # "none" => capability[c] # "none"
          /\ employee' = [employee EXCEPT !.link[c] = l]
  /\ UNCHANGED <<provider, capability>>

\* A statement fails or the process stops: what was committed stays.
Fault(p) ==
  /\ faults < MaxFaults
  /\ faults' = faults + 1
  /\ call[p].pc \notin {"idle", "done", "failed"}
  /\ Enter(p, "failed")
  /\ UNCHANGED <<Rows, changes>>

ProvisioningNext ==
  \/ \E p \in Bootstrappers : findProvider(p) \/ createProvider(p) \/ listCapabilities(p) \/ Assign(p)
  \/ \E p \in AgentCalls : ReadAgentRows(p) \/ CommitAgent(p)
  \/ \E p \in ReleaseCalls : ReadReleaseRows(p) \/ CommitRelease(p)
  \/ \E p \in AgentCalls \cup ReleaseCalls : Conflict(p)
  \/ \E p \in Calls : Fault(p)
  \/ AdministerProvider \/ AdministerAgent

ProvisioningSpec == ProvisioningInit /\ [][ProvisioningNext]_provisioningVars

-----------------------------------------------------------------------------
(* Properties. *)

\* Rows and counters have their declared values.
ProvisioningTypeOK ==
  /\ provider \in ProviderRows \cup {ABSENT}
  /\ employee \in EmployeeRows \cup {ABSENT}
  /\ capability \in [Current -> {"none", "governed", "other"}]
  /\ \A p \in Calls : call[p].rest \subseteq Current
  /\ changes \in 0..MaxChanges /\ faults \in 0..MaxFaults

\* A provider bootstrap that reports success has every link it promises,
\* whatever another bootstrap created or left undone meanwhile
\* (engineering-provider-provisioning.service.ts:72-103).
ProvisionedCompletely ==
  \A p \in Bootstrappers : At(p, "done") => Missing(provider.link) = {}

\* What a bootstrap that failed half way leaves behind never blocks the next
\* one: without administration in between, its checks pass on whatever its
\* predecessors committed (engineering-provider-provisioning.service.ts:37-80,
\* engineering-agent-provisioning.service.ts:41-99).
RetryAccepted ==
  changes = 0 =>
    /\ provider # ABSENT /\ provider.caps = Current =>
         matchesBootstrap(provider) /\ noActiveAuthority(provider.link)
    /\ employee # ABSENT => employee.status = "DRAFT" /\ noActiveAuthority(employee.link)

\* A bootstrap can be repeated until it succeeds, and then it has done all of it.
BootstrapCompletes == ProvisionedCompletely /\ RetryAccepted

Untouched(links, new) == \A c \in Current : links[c] # "none" => new[c] = links[c]

\* "bootstrap will not modify active authority": a bootstrap never changes
\* the status of a row or a link that exists, even one an administrator
\* enabled after it was checked (release-verification-provisioning.service.ts:120-187).
LeavesAuthority ==
  changes' = changes =>
    /\ provider # ABSENT => /\ provider'.status = provider.status
                            /\ Untouched(provider.link, provider'.link)
    /\ employee # ABSENT => /\ employee'.status = employee.status
                            /\ Untouched(employee.link, employee'.link)

AuthorityUntouched == [][LeavesAuthority]_provisioningVars
=============================================================================
