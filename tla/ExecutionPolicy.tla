--------------------------- MODULE ExecutionPolicy ---------------------------
(***************************************************************************)
(* packages/contracts/src/engineering/execution-policy.ts: the decision    *)
(* whether an execution profile may take an action.  A path is the         *)
(* sequence of its segments, a requested path carries the flag of a        *)
(* leading slash.  A host has symbolic links, each to the canonical path   *)
(* at which following it ends, and the canonical paths that are there: a   *)
(* link to a path that is not there is dangling.  Names are compared       *)
(* whole.                                                                  *)
(* A command is the sequence of its words; a word is [t |-> its text,      *)
(* q |-> whether it is quoted], and a chain operator is a word.  A         *)
(* decision is its reason code.                                            *)
(***************************************************************************)
EXTENDS Absent, Integers, Sequences, SequencesExt, FiniteSetsExt

ExecutionProfile == {"BUILDER", "REVIEWER", "ORCHESTRATOR", "RELEASE_AUTHORITY"}

FileActions == {"READ_FILE", "WRITE_FILE", "CREATE_FILE", "DELETE_FILE"}

ExecutionAction ==
  FileActions \cup
  {"RUN_COMMAND", "READ_SECRET", "NETWORK_ACCESS", "GIT_READ", "GIT_COMMIT", "GIT_PUSH",
   "GIT_MERGE", "GIT_REBASE", "GIT_BRANCH_DELETE", "REMOTE_REF_DELETE"}

-----------------------------------------------------------------------------
(* Paths. *)

\* One segment as requested may decode to several; "%00" stands for every
\* segment with a null byte or a control character.
decodePercentEncoding(seg) ==
  CASE seg = "%2e%2e"    -> <<"..">>
    [] seg = "src%2f.."  -> <<"src", "..">>
    [] OTHER             -> <<seg>>

Decoded(segs) == FlattenSeq([i \in DOMAIN segs |-> decodePercentEncoding(segs[i])])

Malformed(segs) == "%00" \in Range(segs)

\* The count of normalizePath's fourth step looks at the end only.
depth(segs) ==
  Cardinality({i \in DOMAIN segs : segs[i] \notin {".", ".."}})
    - Cardinality({i \in DOMAIN segs : segs[i] = ".."})

\* path.resolve: dots are removed by name, before any link is looked at.
Entered(p, seg) ==
  CASE seg = "."  -> p
    [] seg = ".." -> IF p = <<>> THEN p ELSE Front(p)
    [] OTHER      -> Append(p, seg)

resolvePath(root, path) ==
  LET at[n \in 0..Len(path.segs)] ==
        IF n = 0 THEN IF path.abs THEN <<>> ELSE root
        ELSE Entered(at[n - 1], path.segs[n])
  IN  at[Len(path.segs)]

\* A dangling link does not exist for existsSync and is kept by name.
existsSync(host, link) == host.links[link] \in host.there

Followed(host, path) ==
  IF path \in DOMAIN host.links /\ existsSync(host, path) THEN host.links[path] ELSE path

canonicalizePath(host, path) ==
  LET at[n \in 0..Len(path)] ==
        IF n = 0 THEN <<>> ELSE Followed(host, Append(at[n - 1], path[n]))
  IN  at[Len(path)]

Inside(path, root) == IsPrefix(root, path)

\* The mistake of leaving the links to the operating system.
normalizeByName(requested, root, host) ==
  LET segs     == Decoded(requested.segs)
      resolved == resolvePath(root, [abs |-> requested.abs, segs |-> segs])
  IN  [normalized |-> resolved,
       insideRoot |-> ~Malformed(segs) /\ depth(segs) >= 0 /\ Inside(resolved, root)]

normalizePath(requested, root, host) ==
  LET segs      == Decoded(requested.segs)
      resolved  == resolvePath(root, [abs |-> requested.abs, segs |-> segs])
      canonical == canonicalizePath(host, resolved)
      outside(path) == [normalized |-> path, insideRoot |-> FALSE]
  IN  IF Malformed(segs) \/ depth(segs) < 0 THEN outside(segs)
      ELSE IF ~Inside(resolved, root) THEN outside(resolved)
      ELSE IF ~Inside(canonical, canonicalizePath(host, root)) THEN outside(canonical)
      ELSE [normalized |-> canonical, insideRoot |-> TRUE]

\* The secret patterns: names of files, and directories with anything below.
SECRET_FILES == {".env", ".env.local", "credentials", "deploy-key", "secrets.json"}
SECRET_DIRECTORIES == {".ssh", ".gnupg", ".aws"}

isSecretPath(path) ==
  \/ path # <<>> /\ Last(path) \in SECRET_FILES
  \/ \E i \in DOMAIN path : \/ path[i] \in SECRET_DIRECTORIES /\ i < Len(path)
                            \/ path[i] = "id_rsa"

HomeAccess(path, home) ==
  /\ home # ABSENT
  /\ Inside(path, home)
  /\ path = home \/ Range(path) \cap SECRET_DIRECTORIES # {}

\* A denied path is the tree below it; the one glob, .env.*, is one name.
matchesDenyPattern(relative, denied) ==
  IF denied = <<".env.*">> THEN relative = <<".env.local">> ELSE Inside(relative, denied)

\* Below the root by name: nothing is, when the root itself is reached by a link.
ExplicitlyDenied(path, policy) ==
  /\ Inside(path, policy.allowedRoot)
  /\ \E denied \in policy.deniedPaths :
       matchesDenyPattern(SubSeq(path, Len(policy.allowedRoot) + 1, Len(path)), denied)

Within(path, policy) ==
  IF Inside(path, policy.allowedRoot) THEN "POLICY_ALLOWED" ELSE "PATH_OUTSIDE_ALLOWED_ROOT"

evaluateBuilderPath(action, path, policy) == Within(path, policy)

evaluateReviewerPath(action, path, policy) ==
  IF action = "READ_FILE" THEN Within(path, policy) ELSE "REVIEWER_WRITE_DENIED"

evaluateOrchestratorPath(action, path, policy) ==
  IF action = "READ_FILE" THEN Within(path, policy) ELSE "PATH_OUTSIDE_ALLOWED_ROOT"

evaluateReleaseAuthorityPath(action, path, policy) ==
  IF action = "READ_FILE" THEN Within(path, policy) ELSE "PATH_OUTSIDE_ALLOWED_ROOT"

ProfilePath(profile, action, path, policy) ==
  CASE profile = "BUILDER"           -> evaluateBuilderPath(action, path, policy)
    [] profile = "REVIEWER"          -> evaluateReviewerPath(action, path, policy)
    [] profile = "ORCHESTRATOR"      -> evaluateOrchestratorPath(action, path, policy)
    [] profile = "RELEASE_AUTHORITY" -> evaluateReleaseAuthorityPath(action, path, policy)

\* The segments whose text has two dots, decoded or not.
DOTTED == {"..", "src%2f.."}

evaluatePathAction(ctx) ==
  IF ctx.requestedPath = ABSENT THEN "PATH_OUTSIDE_ALLOWED_ROOT"
  ELSE
  LET n    == normalizePath(ctx.requestedPath, ctx.policy.allowedRoot, ctx.host)
      path == n.normalized
      dots == DOTTED \cap (Range(ctx.requestedPath.segs) \cup Range(path)) # {}
  IN  IF ~n.insideRoot
        THEN IF dots THEN "PATH_TRAVERSAL_REJECTED" ELSE "PATH_OUTSIDE_ALLOWED_ROOT"
      ELSE IF HomeAccess(path, ctx.homeDir) THEN "HOME_ACCESS_DENIED"
      ELSE IF isSecretPath(path) THEN "SECRET_ACCESS_DENIED"
      ELSE IF ExplicitlyDenied(path, ctx.policy) THEN "PATH_EXPLICITLY_DENIED"
      ELSE ProfilePath(ctx.executionProfile, ctx.requestedAction, path, ctx.policy)

-----------------------------------------------------------------------------
(* Commands. *)

Bare(text) == [t |-> text, q |-> FALSE]
Plain(words) == [i \in DOMAIN words |-> Bare(words[i])]

ChainOperators == {Bare(op) : op \in {"&&", "||", ";", "|"}}

\* Quotes and escapes are gone from the tokens.
tokenizeCommand(command) == [i \in DOMAIN command |-> command[i].t]

\* ">" stands for the redirections, "$(x)" for the substitutions; a single &
\* is dangerous inside quotes too.
detectDangerousPatterns(command) ==
  \E i \in DOMAIN command : \/ command[i] = Bare(">")
                            \/ command[i].t \in {"$(x)", "&"}

detectShellWrappers(command) ==
  /\ Len(command) >= 3
  /\ command[1] \in {Bare("sh"), Bare("bash")}
  /\ command[2] = Bare("-c")

\* The longest runs of words that are no operators, each under the place of its
\* first word: empty parts are dropped, and a command of operators only has no
\* part at all.
PartsBetween(operators, command) ==
  LET words == {i \in DOMAIN command : command[i] \notin operators}
  IN  [first \in {i \in words : i - 1 \notin words} |->
         SubSeq(command, first, Max({last \in words : first..last \subseteq words}))]

\* The mistake of splitting at && only.
splitAtAnd(command) == PartsBetween({Bare("&&")}, command)

splitShellChains(command) == PartsBetween(ChainOperators, command)

SafeScripts == {"test", "build", "lint", "typecheck", "check", "generate"}

\* An allowed command is a prefix; the run scripts are allowed to every policy.
matchAgainstAllowed(tokens, allowedCommands) ==
  \/ \E allowed \in allowedCommands : IsPrefix(allowed, tokens)
  \/ /\ tokens[1] \in {"pnpm", "npm", "yarn"}
     /\ Len(tokens) >= 3 /\ tokens[2] = "run" /\ tokens[3] \in SafeScripts
  \/ /\ tokens[1] = "yarn"
     /\ Len(tokens) = 2 /\ tokens[2] \in SafeScripts

SAFE_GIT_SUBCOMMANDS == {"status", "diff", "show", "log", "rev-parse"}
GIT_BRANCH_DELETE_FLAGS == {"-D", "-d"}

classifyGitCommand(tokens) ==
  LET sub  == IF Len(tokens) < 2 THEN ABSENT ELSE tokens[2]
      args == Range(SubSeq(tokens, 3, Len(tokens)))
  IN  CASE sub \in SAFE_GIT_SUBCOMMANDS -> "POLICY_ALLOWED"
        [] sub = "branch" ->
             IF "--show-current" \notin args /\ args \cap GIT_BRANCH_DELETE_FLAGS # {}
             THEN "GIT_BRANCH_DELETE_DENIED" ELSE "POLICY_ALLOWED"
        [] sub = "commit" -> "GIT_COMMIT_DENIED"
        [] sub = "push" ->
             IF args \cap {"--delete", ":ref"} # {}
             THEN "REMOTE_REF_DELETE_DENIED" ELSE "GIT_PUSH_DENIED"
        [] sub = "merge"  -> "GIT_MERGE_DENIED"
        [] sub = "rebase" -> "GIT_REBASE_DENIED"
        [] OTHER          -> "COMMAND_NOT_ALLOWED"

classifySingleCommand(command, policy) ==
  LET tokens == tokenizeCommand(command)
      first  == tokens[1]
      second == IF Len(tokens) < 2 THEN ABSENT ELSE tokens[2]
      listed == IF matchAgainstAllowed(tokens, policy.allowedCommands)
                THEN "POLICY_ALLOWED" ELSE "COMMAND_NOT_ALLOWED"
  IN  IF \/ command = <<>>
         \/ detectShellWrappers(command)
         \/ detectDangerousPatterns(command)
      THEN "COMMAND_NOT_ALLOWED"
      ELSE CASE first = "git" -> classifyGitCommand(tokens)
             [] first = "node" ->
                  IF "-e" \notin Range(tokens) /\ second = "--version"
                  THEN listed ELSE "COMMAND_NOT_ALLOWED"
             [] first = "npx" ->
                  IF IsPrefix(<<"npx", "prisma", "generate">>, tokens)
                  THEN "POLICY_ALLOWED" ELSE "COMMAND_NOT_ALLOWED"
             [] <<first, second>> \in {<<"npm", "exec">>, <<"pnpm", "exec">>, <<"yarn", "dlx">>} ->
                  "COMMAND_NOT_ALLOWED"
             [] OTHER -> listed

\* Exact whole command; each profile has aliases of its own.
TrustedAlias(command, profile, policy) ==
  \/ profile = "BUILDER"  /\ command \in policy.trustedCodingAgentAliases
  \/ profile = "REVIEWER" /\ command \in policy.trustedReviewerAgentAliases

\* The first part that is not allowed decides.
classifyCommand(command, profile, policy) ==
  LET parts == splitShellChains(command)
      denied == {i \in DOMAIN parts : classifySingleCommand(parts[i], policy) # "POLICY_ALLOWED"}
  IN  IF detectShellWrappers(command) \/ detectDangerousPatterns(command)
        THEN "COMMAND_NOT_ALLOWED"
      ELSE IF TrustedAlias(command, profile, policy) \/ denied = {}
        THEN "POLICY_ALLOWED"
      ELSE classifySingleCommand(parts[Min(denied)], policy)

evaluateCommandAction(ctx) ==
  IF ctx.requestedCommand = ABSENT THEN "COMMAND_NOT_ALLOWED"
  ELSE classifyCommand(ctx.requestedCommand, ctx.executionProfile, ctx.policy)

-----------------------------------------------------------------------------
(* Policies and their evaluation. *)

DENIED_PATHS == {<<".env">>, <<".env.*">>, <<".ssh">>, <<".gnupg">>, <<".aws">>}

TEST_COMMANDS ==
  {<<"git", sub>> : sub \in SAFE_GIT_SUBCOMMANDS} \cup {<<"git", "branch", "--show-current">>}
  \cup {<<pm, "test">> : pm \in {"npm", "yarn", "pnpm"}}
  \cup {<<pm, "run", script>> : pm \in {"npm", "yarn", "pnpm"}, script \in {"test", "lint"}}
  \cup {<<"jest">>, <<"vitest">>}

BasePolicy(root, commands) ==
  [allowedRoot |-> root, deniedPaths |-> DENIED_PATHS, allowedCommands |-> commands,
   trustedCodingAgentAliases |-> {}, trustedReviewerAgentAliases |-> {},
   allowNetwork |-> FALSE, allowGitCommit |-> FALSE, allowGitPush |-> FALSE]

createBuilderPolicy(root) ==
  BasePolicy(root, TEST_COMMANDS
                   \cup {<<pm, "run", "build">> : pm \in {"npm", "yarn", "pnpm"}}
                   \cup {<<"tsc">>, <<"eslint">>, <<"prettier">>, <<"npx", "prisma", "generate">>,
                         <<"prisma", "generate">>})

createReviewerPolicy(root) == BasePolicy(root, TEST_COMMANDS)

\* Committing and pushing are for the release authority under an approved gate.
Released(ctx, permitted) ==
  /\ ctx.executionProfile = "RELEASE_AUTHORITY"
  /\ permitted
  /\ ctx.releaseGateStatus = "APPROVED"

evaluatePolicy(ctx) ==
  LET action == ctx.requestedAction
      ok(condition, code) == IF condition THEN "POLICY_ALLOWED" ELSE code
  IN  IF ctx.policy = ABSENT THEN "POLICY_MISSING"
      ELSE IF ctx.executionProfile \notin ExecutionProfile THEN "EXECUTION_PROFILE_UNKNOWN"
      ELSE CASE action \in FileActions -> evaluatePathAction(ctx)
             [] action = "RUN_COMMAND" -> evaluateCommandAction(ctx)
             [] action = "READ_SECRET" -> "SECRET_ACCESS_DENIED"
             [] action = "NETWORK_ACCESS" ->
                  ok(ctx.policy.allowNetwork, "NETWORK_ACCESS_DENIED")
             [] action = "GIT_READ"   -> "POLICY_ALLOWED"
             [] action = "GIT_COMMIT" ->
                  ok(Released(ctx, ctx.policy.allowGitCommit), "GIT_COMMIT_DENIED")
             [] action = "GIT_PUSH" ->
                  ok(Released(ctx, ctx.policy.allowGitPush), "GIT_PUSH_DENIED")
             [] action = "GIT_MERGE"         -> "GIT_MERGE_DENIED"
             [] action = "GIT_REBASE"        -> "GIT_REBASE_DENIED"
             [] action = "GIT_BRANCH_DELETE" -> "GIT_BRANCH_DELETE_DENIED"
             [] action = "REMOTE_REF_DELETE" -> "REMOTE_REF_DELETE_DENIED"
             [] OTHER                        -> "ACTION_UNKNOWN"

\* Timeouts and budgets are reason codes no rule above gives.
policyDecisionToOutcome(code) ==
  CASE code = "POLICY_ALLOWED"            -> ABSENT
    [] code = "EXECUTION_TIMEOUT"         -> "TIMED_OUT"
    [] code = "EXECUTION_BUDGET_EXCEEDED" -> "QUOTA_BLOCKED"
    [] OTHER                              -> "POLICY_BLOCKED"
=============================================================================
