----------------------------- MODULE MCServices -----------------------------
(***************************************************************************)
(* The services that keep state of their own beside the workflow, checked  *)
(* in one run: part names the one a behaviour is about, and the others     *)
(* stay in an initial state.  They share no rows at the granularity of     *)
(* their modules, so a behaviour of one needs no steps of another.         *)
(***************************************************************************)
EXTENDS Users, Learning, ProviderGate, AgentIdentity, Provisioning, Decisions

CONSTANTS c1, c2

VARIABLE part

\* Two concurrent calls of one kind.
Callers == {c1, c2}
CallSymmetry == Permutations(Callers)

-----------------------------------------------------------------------------
(* Learning: from nothing, and from a candidate that became a pattern.     *)

PatternLearned ==
  [EmptyDb EXCEPT
     !.status = "REFLECTED",
     !.outcomes = <<[runtime |-> TRUE, score |-> "positive"], [runtime |-> FALSE, score |-> "positive"]>>,
     !.reflections = <<{1}>>,
     !.candidates = <<[reflection |-> 1, maturity |-> 3, confident |-> TRUE]>>,
     !.ledger = <<[candidate |-> 1, from |-> 1, to |-> 2, approved |-> FALSE],
                  [candidate |-> 1, from |-> 2, to |-> 3, approved |-> FALSE]>>]
MCSeeds == {EmptyDb, PatternLearned}
MCInputs ==
  [capture |-> {ABSENT}, experience |-> {"own", "foreign"}, outcome |-> {"positive", "negative"},
   pipeline |-> Scores, reflection |-> {{1}, {2}}, observation |-> {1},
   promotion |-> [candidate : {1}, to : 1..4, approved : BOOLEAN],
   pattern |-> {{1}, {1, 2}}, skill |-> [candidate : {1}, outcomes : {{1}, {1, 2}}],
   proposal |-> {1}, review |-> [review : {1}, verdict : Decided]]

(* The gate: a trusted launcher, a test agent, a plain command, and an alias *)
(* the host does not know; no cloud profile, a disabled one, and enabled ones. *)

MCCapabilities == {"CODE_PLAN", "CODE_BUILD", "TEST_EXECUTION", "RED_TEAM", "CODE_REVIEW", "OTHER"}
MCTrusted == {"opencode", "tester", "jest"}
MCAliases == MCTrusted \cup {"gone"}
CloudProfile(enabled, test, stored) ==
  [enabled |-> enabled, launcher |-> "opencode", test |-> test, stored |-> stored]
MCProfiles ==
  {ABSENT, CloudProfile(FALSE, ABSENT, TRUE), CloudProfile(TRUE, "tester", TRUE),
   CloudProfile(TRUE, "opencode", TRUE), CloudProfile(TRUE, "opencode", FALSE)}

(* Identity: two versions of the service with a mapping each.              *)

MCMapping == [p \in {"r1", "r2", "a1", "a2"} |-> IF p \in {"r1", "a1"} THEN "CODE_BUILD" ELSE "CODE_PLAN"]

(* Decisions: spellings of paths, and commands of every class.  "out" is   *)
(* in the workspace root and in the organization's directory: not at all,  *)
(* a file, or a link, out of the workspace, to a secret or a directory in  *)
(* it, or to what is not there, outside or inside.  On the last host the   *)
(* workspace is reached by a link.                                         *)

MCRoot == <<"work", "tree">>
MCDirectory == MCRoot \o <<"orgs", "o1">>
WithParents(paths) == UNION {Prefixes(path) : path \in paths}
MCHost(paths, links) ==
  [links |-> links, there |-> WithParents({MCDirectory, <<"etc">>} \cup paths)]
OutLeadsTo(target) == [p \in {Append(MCRoot, "out"), Append(MCDirectory, "out")} |-> target]
MCHosts ==
  {MCHost({}, <<>>),
   MCHost({MCDirectory \o <<"src", "out">>, MCRoot \o <<"src">>}, <<>>),
   MCHost({}, OutLeadsTo(<<"etc">>)),
   MCHost({MCRoot \o <<".ssh", "config">>}, OutLeadsTo(MCRoot \o <<".ssh", "config">>)),
   MCHost({MCDirectory \o <<"src">>}, OutLeadsTo(MCDirectory \o <<"src">>)),
   MCHost({}, OutLeadsTo(<<"etc", "data">>)),
   MCHost({}, OutLeadsTo(Append(MCDirectory, "data"))),
   [links |-> (<<"work">> :> <<"data">>),
    there |-> WithParents({<<"data", "tree", "orgs", "o1", "src">>})]}

MCParts ==
  {Plain(<<"git", "status">>), Plain(<<"git", "commit", "-m">>), Plain(<<"git", "push", ":ref">>),
   Plain(<<"git", "branch", "-D">>), Plain(<<"git", "branch", "--show-current">>),
   Plain(<<"npm", "test">>), Plain(<<"npm", "run", "build">>), Plain(<<"npm", "exec", "x">>),
   Plain(<<"yarn", "lint">>), Plain(<<"node", "--version">>), Plain(<<"npx", "prisma", "generate">>),
   Plain(<<"tsc">>), Plain(<<"sh", "-c", "x">>), Plain(<<"jest", ">", "x">>),
   <<[t |-> "git", q |-> TRUE], [t |-> "merge", q |-> FALSE]>>,
   <<[t |-> "jest", q |-> FALSE], [t |-> ";", q |-> TRUE]>>,
   Plain(<<"agent">>), Plain(<<"reviewer">>)}

-----------------------------------------------------------------------------
decisionsVars == <<kind, input, outcome>>
vars == <<part, usersVars, learningVars, gateVars, identityVars, provisioningVars, decisionsVars>>

\* The service is not the one the behaviour is about.
GateAtRest ==
  /\ purpose = ABSENT /\ profile = ABSENT /\ row = ABSENT /\ link = ABSENT
  /\ admin = ABSENT /\ calls = 0 /\ d = NoDispatch /\ moved = FALSE
DecisionsAtRest == kind = "none" /\ input = ABSENT /\ outcome = "undecided"

Init ==
  /\ part \in {"users", "learning", "gate", "identity", "provisioning", "decisions"}
  /\ UsersInit
  /\ LearningInit /\ (part # "learning" => db = EmptyDb)
  /\ IdentityInit /\ (part # "identity" => task.agent = ABSENT)
  /\ ProvisioningInit
  /\ part # "provisioning" => provider = ABSENT /\ capability = [c \in Current |-> "none"]
  /\ IF part = "gate" THEN GateInit ELSE GateAtRest
  /\ IF part = "decisions" THEN DecisionsInit ELSE DecisionsAtRest

Next ==
  /\ UNCHANGED part
  /\ IF part = "users" THEN UsersNext ELSE UNCHANGED usersVars
  /\ IF part = "learning" THEN LearningNext ELSE UNCHANGED learningVars
  /\ IF part = "gate" THEN GateNext ELSE UNCHANGED gateVars
  /\ IF part = "identity" THEN IdentityNext ELSE UNCHANGED identityVars
  /\ IF part = "provisioning" THEN ProvisioningNext ELSE UNCHANGED provisioningVars
  /\ IF part = "decisions" THEN Evaluate ELSE UNCHANGED decisionsVars

Spec == Init /\ [][Next]_vars

=============================================================================
