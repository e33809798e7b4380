----------------------------- MODULE ProviderGate -----------------------------
(***************************************************************************)
(* The registry of one provider and the gate a dispatch passes to use it.  *)
(* Administrators create, change and activate the provider through         *)
(* ProviderRegistryService, each call reading the row first and writing it *)
(* in a later transaction.  A dispatch reads the same row four times: the  *)
(* router, the governed invocation, the policy resolver and the credential *)
(* broker; the cloud profile and the trusted executables are configuration *)
(* of the process.  Left out: scores, costs, budgets, assurance levels and *)
(* the freshness of the health record (WorkflowDispatch has the probe).    *)
(***************************************************************************)
EXTENDS ExecutionPolicy

CONSTANTS
  Admins,       \* administrators, each with one call at a time
  Capabilities, \* the capabilities a dispatch may be for
  Profiles,     \* the cloud profiles to start with; ABSENT: none configured
  Aliases,      \* command aliases of the provider's metadata
  Trusted,      \* aliases the host has a trusted executable for
  MaxCalls      \* bound on the calls of the administrators

VARIABLES
  purpose, profile,    \* chosen at the start
  row,                 \* the AgentProvider
  link,                \* its assignment to the capability and to another one
  admin,               \* the call of each administrator between read and write
  calls,
  d,                   \* the dispatch
  moved                \* row or link was written after the dispatch was routed

gateVars == <<purpose, profile, row, link, admin, calls, d, moved>>

LinkKinds == {"this", "other"}

NoDispatch == [pc |-> "idle", alias |-> ABSENT, target |-> ABSENT, provider |-> ABSENT,
               policy |-> ABSENT, credential |-> ABSENT, outcome |-> ABSENT]

-----------------------------------------------------------------------------
(* The registry. *)

\* The credential requirement to write, or ABSENT when the call is refused.
resolveCredentialRequirementForWrite(type, raw, applyCloudDefault) ==
  LET resolved == IF raw # ABSENT THEN raw
                  ELSE IF applyCloudDefault /\ type = "CLOUD_LLM" THEN "REQUIRED" ELSE "UNKNOWN"
  IN  IF type = "CLOUD_LLM" /\ resolved # "REQUIRED" THEN ABSENT ELSE resolved

\* createProvider takes the status of its input, ACTIVE included.
Created(type, raw, status, alias) ==
  [type |-> type, status |-> status,
   cred |-> resolveCredentialRequirementForWrite(type, raw, TRUE),
   health |-> "HEALTHY", quota |-> "AVAILABLE", alias |-> alias]

GateInit ==
  /\ purpose \in Capabilities
  /\ profile \in Profiles
  /\ row \in {Created(type, raw, status, alias) :
                type \in {"LOCAL_TOOL", "CLOUD_LLM"},
                raw \in {ABSENT, "REQUIRED", "NOT_REQUIRED"},
                status \in {"ACTIVE", "DISABLED"}, alias \in Aliases}
  /\ row.cred # ABSENT
  /\ link \in {[l \in LinkKinds |-> IF l = "this" THEN e ELSE "none"] : e \in {"none", "enabled"}}
  /\ admin = [a \in Admins |-> ABSENT]
  /\ calls = 0
  /\ d = NoDispatch
  /\ moved = FALSE

\* The fields a PATCH may carry; updateHealthStatus, updateQuotaStatus and
\* disableProvider are calls of updateProvider.
UpdateInputs ==
  {[type |-> "CLOUD_LLM"], [type |-> "LOCAL_TOOL", cred |-> "NOT_REQUIRED"],
   [cred |-> "NOT_REQUIRED"], [status |-> "DISABLED"], [status |-> "ACTIVE"],
   [health |-> "UNAVAILABLE"], [quota |-> "EXHAUSTED"]}
  \cup {[alias |-> alias] : alias \in Aliases}

Given(input, field) == IF field \in DOMAIN input THEN input[field] ELSE ABSENT

\* A partial update: the fields it carries replace those of the base.
Patched(patch, base) ==
  [f \in DOMAIN patch \cup DOMAIN base |-> IF f \in DOMAIN patch THEN patch[f] ELSE base[f]]

\* What updateProvider will write, from the row it has read.
updateData(input, existing) ==
  IF {"cred", "type"} \cap DOMAIN input = {} THEN input
  ELSE Patched([cred |-> resolveCredentialRequirementForWrite(
                           IF "type" \in DOMAIN input THEN input.type ELSE existing.type,
                           IF "cred" \in DOMAIN input THEN input.cred ELSE existing.cred, FALSE)],
               input)

Called == calls < MaxCalls /\ calls' = calls + 1

updateProvider(a, input) ==
  /\ Called /\ admin[a] = ABSENT
  /\ Given(input, "status") # "ACTIVE"
  /\ Given(updateData(input, row), "cred") # ABSENT \/ {"cred", "type"} \cap DOMAIN input = {}
  /\ admin' = [admin EXCEPT ![a] = updateData(input, row)]
  /\ UNCHANGED <<purpose, profile, row, link, d, moved>>

activateProvider(a) ==
  /\ Called /\ admin[a] = ABSENT
  /\ row.status # "ACTIVE"
  /\ \E l \in LinkKinds : link[l] = "enabled"
  /\ admin' = [admin EXCEPT ![a] = [status |-> "ACTIVE"]]
  /\ UNCHANGED <<purpose, profile, row, link, d, moved>>

Since == moved' = (moved \/ d.pc # "idle")

\* The transaction of either call: the row is updated by its id.
WriteProvider(a) ==
  /\ admin[a] # ABSENT
  /\ row' = Patched(admin[a], row)
  /\ admin' = [admin EXCEPT ![a] = ABSENT]
  /\ Since
  /\ UNCHANGED <<purpose, profile, link, calls, d>>

\* The unique index refuses a second assignment.
assignCapability(l, enabled) ==
  /\ Called
  /\ link[l] = "none"
  /\ link' = [link EXCEPT ![l] = IF enabled THEN "enabled" ELSE "disabled"]
  /\ Since
  /\ UNCHANGED <<purpose, profile, row, admin, d>>

setCapabilityEnabled(l, enabled) ==
  /\ Called
  /\ link[l] # "none"
  /\ link' = [link EXCEPT ![l] = IF enabled THEN "enabled" ELSE "disabled"]
  /\ Since
  /\ UNCHANGED <<purpose, profile, row, admin, d>>

\* A probe or an execution elsewhere records what it observed.
recordProbe(health, quota) ==
  /\ Called
  /\ row' = [row EXCEPT !.health = health, !.quota = quota]
  /\ Since
  /\ UNCHANGED <<purpose, profile, link, admin, d>>

-----------------------------------------------------------------------------
(* The gate. *)

isCloudGovernedProviderType(type) == type = "CLOUD_LLM"

\* CloudExecutionProfileRegistry.resolve; profile itself is its peek.
EnabledProfile == profile # ABSENT /\ profile.enabled

resolveExecutionTier(type) ==
  CASE type = "LOCAL_TOOL" -> IF profile = ABSENT THEN "LOCAL_ISOLATED" ELSE ABSENT
    [] type = "CLOUD_LLM"  -> IF EnabledProfile THEN "CLOUD_GOVERNED" ELSE ABSENT

providerSupportsCapability == link["this"] = "enabled"

isProviderRoutable == row.status = "ACTIVE" /\ row.health = "HEALTHY"

QuotaLeft == row.quota = "AVAILABLE"

Outcome(outcome) == d' = [d EXCEPT !.pc = "done", !.outcome = outcome]

Proceed(pc, field, value) == d' = [d EXCEPT !.pc = pc, ![field] = value]

Unwritten == UNCHANGED <<purpose, profile, row, link, admin, calls, moved>>

buildCodeBuildExecutionTarget(tier, alias) == [tier |-> tier, alias |-> alias]

\* dispatch up to the governed runtime; a CODE_BUILD approval is consumed for
\* the target, whatever the gate says later.
Route ==
  /\ d.pc = "idle"
  /\ LET tier == resolveExecutionTier(row.type)
         target == IF purpose # "CODE_BUILD" THEN ABSENT
                   ELSE buildCodeBuildExecutionTarget(tier, row.alias)
     IN  IF ~(providerSupportsCapability /\ isProviderRoutable /\ QuotaLeft)
           THEN Outcome("NO_ELIGIBLE_AGENT_PROVIDER")
         ELSE IF tier = ABSENT THEN Outcome("AGENT_PROVIDER_ADAPTER_NOT_READY")
         ELSE d' = [d EXCEPT !.pc = "routed", !.alias = row.alias, !.target = target]
  /\ moved' = FALSE
  /\ UNCHANGED <<purpose, profile, row, link, admin, calls>>

\* CODE_BUILD comes with the consumed target of its own command.
assertTrustedOperation ==
  purpose = "CODE_BUILD" => d.target # ABSENT /\ d.target.alias = d.alias

DEFAULT_CAPABILITY_PROFILES ==
  [CODE_PLAN |-> "BUILDER", CODE_BUILD |-> "BUILDER", TEST_EXECUTION |-> "BUILDER",
   REVIEW_PACKAGE |-> "REVIEWER", RED_TEAM |-> "REVIEWER", RELEASE_VERIFICATION |-> "REVIEWER",
   CODE_REVIEW |-> "REVIEWER", SECURITY_REVIEW |-> "REVIEWER"]

\* The declaration invoke goes on with is the row of this moment.
resolveProvider == row

\* The checks of invoke on the provider as it is now.
resolveAndValidateProvider ==
  CASE ~providerSupportsCapability          -> "CAPABILITY_NOT_SUPPORTED"
    [] ~(isProviderRoutable /\ QuotaLeft)   -> "PROVIDER_NOT_ELIGIBLE"
    [] OTHER                                -> ABSENT

Validate ==
  /\ d.pc = "routed"
  /\ IF ~assertTrustedOperation THEN Outcome("CODE_BUILD_TARGET_MISMATCH")
     ELSE IF resolveAndValidateProvider # ABSENT THEN Outcome(resolveAndValidateProvider)
     ELSE IF purpose \notin DOMAIN DEFAULT_CAPABILITY_PROFILES
       THEN Outcome("EXECUTION_PROFILE_NOT_GOVERNED")
     ELSE Proceed("validated", "provider", resolveProvider)
  /\ Unwritten

Command(alias) == <<Bare(alias)>>

\* Configured, executable, and inside the launcher root.
TrustedExecutable(alias) == alias \in Trusted

\* Only an alias the host can resolve is given to a policy.
With(base, field, alias) ==
  IF TrustedExecutable(alias) THEN [base EXCEPT ![field] = {Command(alias)}] ELSE base

\* The mistake of granting a test the launcher of the other capabilities.
builderPolicyOfLauncher ==
  LET base == createBuilderPolicy(<<"w">>)
  IN  IF /\ purpose = "TEST_EXECUTION"
         /\ isCloudGovernedProviderType(row.type)
         /\ EnabledProfile
      THEN With(base, "trustedCodingAgentAliases", profile.launcher) ELSE base

resolveBuilderPolicy ==
  LET base == createBuilderPolicy(<<"w">>)
  IN  IF /\ purpose = "TEST_EXECUTION"
         /\ isCloudGovernedProviderType(row.type)
         /\ EnabledProfile /\ profile.test # ABSENT
      THEN With(base, "trustedCodingAgentAliases", profile.test) ELSE base

resolveReviewerPolicy ==
  LET base == createReviewerPolicy(<<"w">>)
  IN  IF /\ purpose \in {"REVIEW_PACKAGE", "RED_TEAM", "RELEASE_VERIFICATION"}
         /\ isCloudGovernedProviderType(row.type)
         /\ EnabledProfile
      THEN With(base, "trustedReviewerAgentAliases", profile.launcher) ELSE base

resolveTrustedExecutionPolicy(executionProfile) ==
  CASE executionProfile = "BUILDER"  -> resolveBuilderPolicy
    [] executionProfile = "REVIEWER" -> resolveReviewerPolicy
    [] OTHER                         -> ABSENT

isProviderAuthorizedForCodingAgent(provider) ==
  IF provider.type = "LOCAL_TOOL" THEN profile = ABSENT ELSE EnabledProfile

\* The provider is the one validated, the policy that of a later read.
augmentBuilderPolicy(provider, executionProfile, policy) ==
  IF /\ \/ purpose = "CODE_BUILD"
        \/ purpose = "CODE_PLAN" /\ isCloudGovernedProviderType(provider.type)
     /\ executionProfile = "BUILDER"
     /\ isProviderAuthorizedForCodingAgent(provider)
  THEN With(policy, "trustedCodingAgentAliases", d.alias) ELSE policy

\* A valid alias is a word of letters, digits, dots, dashes and underscores
\* (providerCommandAlias), and what is there is not missing.
GateBases == {createBuilderPolicy(<<"w">>), createReviewerPolicy(<<"w">>)}

GatePolicies ==
  GateBases \cup
  {[base EXCEPT ![field] = {Command(alias)}] :
     base \in GateBases, field \in {"trustedCodingAgentAliases", "trustedReviewerAgentAliases"},
     alias \in Trusted}

ASSUME GateAssumption ==
  /\ Aliases \cap {"&&", "||", ";", "|", ">", "$(x)", "&"} = {}
  /\ ABSENT \notin Aliases /\ ABSENT \notin {Command(alias) : alias \in Aliases}
  /\ ABSENT \notin GatePolicies
  /\ ABSENT \notin [tier : {"LOCAL_ISOLATED", "CLOUD_GOVERNED"}, alias : Aliases]
  /\ ABSENT \notin SAFE_GIT_SUBCOMMANDS \cup
       {"branch", "commit", "push", "merge", "rebase", "--version", "exec", "dlx", "reference",
        "LOCAL_ISOLATED", "CLOUD_GOVERNED", "CAPABILITY_NOT_SUPPORTED", "PROVIDER_NOT_ELIGIBLE"}

\* No human gate resolver is configured: no release gate is ever approved.
createPolicyEvaluationContext(provider, executionProfile) ==
  [executionProfile |-> executionProfile, requestedAction |-> "RUN_COMMAND",
   requestedPath |-> ABSENT, requestedCommand |-> Command(d.alias),
   releaseGateStatus |-> "NOT_REQUESTED",
   policy |-> augmentBuilderPolicy(provider, executionProfile,
                                   resolveTrustedExecutionPolicy(executionProfile))]

Decide ==
  /\ d.pc = "validated"
  /\ LET code == evaluatePolicy(createPolicyEvaluationContext(
                                  d.provider, DEFAULT_CAPABILITY_PROFILES[purpose]))
     IN  IF code = "POLICY_ALLOWED" THEN Proceed("decided", "policy", code)
         ELSE Outcome(policyDecisionToOutcome(code))
  /\ Unwritten

\* The broker reads the provider once more.
getCredentialReference ==
  IF row.type = "CLOUD_LLM" /\ EnabledProfile /\ profile.stored THEN "reference" ELSE ABSENT

\* Credentials, then the trusted executable of the execution context.
ResolveCredentials ==
  /\ d.pc = "decided"
  /\ LET reference == IF d.provider.cred = "REQUIRED" THEN getCredentialReference ELSE ABSENT
     IN  IF d.provider.cred # "NOT_REQUIRED" /\ reference = ABSENT
           THEN Outcome("CREDENTIAL_INJECTION_FAILED")
         ELSE IF ~TrustedExecutable(d.alias) THEN Outcome("EXECUTABLE_NOT_TRUSTED")
         ELSE Proceed("ready", "credential", reference)
  /\ Unwritten

\* The mistake of matching the command only.
targetMatchesCommand(tier) ==
  purpose = "CODE_BUILD" => d.target # ABSENT /\ d.target.alias = d.alias

codeBuildTargetMatchesContext(tier) ==
  purpose = "CODE_BUILD" => /\ d.target # ABSENT
                            /\ d.target.tier = tier
                            /\ d.target.alias = d.alias

localAdapter == IF codeBuildTargetMatchesContext("LOCAL_ISOLATED")
                THEN "EXECUTED" ELSE "CODE_BUILD_EXECUTION_TARGET_MISMATCH"

\* The mistake of leaving the credential to the agent.
cloudAdapterUnchecked ==
  CASE ~EnabledProfile -> "CLOUD_EXECUTION_PROFILE_UNAVAILABLE"
    [] d.alias # profile.launcher -> "EXECUTABLE_PROFILE_MISMATCH"
    [] ~codeBuildTargetMatchesContext("CLOUD_GOVERNED") -> "CODE_BUILD_EXECUTION_TARGET_MISMATCH"
    [] OTHER -> "EXECUTED"

cloudAdapter ==
  CASE ~EnabledProfile -> "CLOUD_EXECUTION_PROFILE_UNAVAILABLE"
    [] d.alias # profile.launcher -> "EXECUTABLE_PROFILE_MISMATCH"
    [] d.credential = ABSENT -> "CLOUD_CREDENTIAL_UNAVAILABLE"
    [] ~codeBuildTargetMatchesContext("CLOUD_GOVERNED") -> "CODE_BUILD_EXECUTION_TARGET_MISMATCH"
    [] OTHER -> "EXECUTED"

\* The adapter is the one of the type that was validated.
Execute ==
  /\ d.pc = "ready"
  /\ Outcome(IF d.provider.type = "LOCAL_TOOL" THEN localAdapter ELSE cloudAdapter)
  /\ Unwritten

-----------------------------------------------------------------------------
GateNext ==
  \/ \E a \in Admins, input \in UpdateInputs : updateProvider(a, input)
  \/ \E a \in Admins : activateProvider(a) \/ WriteProvider(a)
  \/ \E l \in LinkKinds, enabled \in BOOLEAN : assignCapability(l, enabled)
                                               \/ setCapabilityEnabled(l, enabled)
  \/ \E health \in {"HEALTHY", "UNAVAILABLE"}, quota \in {"AVAILABLE", "EXHAUSTED"} :
       recordProbe(health, quota)
  \/ Route \/ Validate \/ Decide \/ ResolveCredentials \/ Execute

GateSpec == GateInit /\ [][GateNext]_gateVars

-----------------------------------------------------------------------------
(* Properties. *)

Executed == d.pc = "done" /\ d.outcome = "EXECUTED"

\* The single words a policy lists: they need no alias.
PlainCommand(alias) ==
  \/ alias \in {"jest", "vitest"}
  \/ DEFAULT_CAPABILITY_PROFILES[purpose] = "BUILDER" /\ alias \in {"tsc", "eslint", "prettier"}

\* What a provider must have for its dispatch to reach an agent.
Usable ==
  /\ providerSupportsCapability /\ isProviderRoutable /\ QuotaLeft
  /\ row.alias \in Trusted
  /\ purpose \in DOMAIN DEFAULT_CAPABILITY_PROFILES
  /\ \/ /\ row.type = "LOCAL_TOOL" /\ profile = ABSENT /\ row.cred = "NOT_REQUIRED"
        /\ purpose = "CODE_BUILD" \/ PlainCommand(row.alias)
     \/ /\ row.type = "CLOUD_LLM" /\ EnabledProfile /\ row.alias = profile.launcher
        /\ row.cred = "REQUIRED" /\ profile.stored
        /\ \/ purpose \in {"CODE_PLAN", "CODE_BUILD", "REVIEW_PACKAGE", "RED_TEAM", "RELEASE_VERIFICATION"}
           \/ purpose = "TEST_EXECUTION" /\ profile.test = profile.launcher
           \/ PlainCommand(row.alias)

\* While nobody writes the provider, a dispatch through the router, the
\* invocation, the profile, the policy, the credentials and the adapter
\* reaches an agent exactly when the provider is usable: a local tool only
\* for CODE_BUILD or a plain test command, a cloud provider only with the
\* launcher of its profile, and for TEST_EXECUTION only when that launcher
\* is the test launcher too (governed-invocation.service.ts:1052-1100).
GateIsExact == d.pc = "done" /\ ~moved => (Executed <=> Usable)

\* A build runs only in the tier and with the command that its approval was
\* consumed for, however the provider changes between the four reads
\* (code-build-execution-target.ts:84-99).
CodeBuildInItsTier ==
  Executed /\ purpose = "CODE_BUILD" =>
    /\ d.target.tier = (IF d.provider.type = "LOCAL_TOOL" THEN "LOCAL_ISOLATED"
                        ELSE "CLOUD_GOVERNED")
    /\ d.target.alias = d.alias

\* Two updates can leave a cloud provider that declares to need no
\* credential (provider-registry.service.ts:156-245); no agent is ever
\* started in the cloud without a credential reference all the same.
CloudHasCredential ==
  Executed /\ d.provider.type = "CLOUD_LLM" => d.credential # ABSENT
=============================================================================
