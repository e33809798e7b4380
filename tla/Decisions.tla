------------------------------ MODULE Decisions ------------------------------
(***************************************************************************)
(* The pure decisions of the contracts package, evaluated over small       *)
(* inputs and compared with reference definitions: nextEngineeringStep at  *)
(* PARSE_VERDICT over all small review evidence, evaluatePolicy over small *)
(* paths, commands and policies, and what the workspace file tool does     *)
(* with a path that was admitted.                                          *)
(***************************************************************************)
EXTENDS EngineeringStateMachine, WorkspaceFileTool

CONSTANTS
  Families, Providers, Executions, Verdicts, AssuranceLevels,  \* review evidence
  MaxReviews,                                                  \* bound on its length
  Root,              \* the workspace root
  Hosts,             \* the links and files the host may have
  Names,             \* names of files and directories
  Segments, MaxSegments,                                       \* requested paths
  Parts                                                        \* single commands

VARIABLES kind, input, outcome

Contexts ==
  [builderModelFamily : Families \cup {NONE},
   previousReviewerProviderIds : SeqOf(Providers, MaxReviews),
   previousReviewerModelFamilies : SeqOf(Families \cup {NONE}, MaxReviews)]

Reviews == [verdict : Verdicts, reviewerExecutionId : Executions]

ReviewInput ==
  \E level \in AssuranceLevels, verdict \in {"A", NONE}, evidence \in SeqOf(Reviews, MaxReviews),
     context \in {<<>>} \cup {<<ctx>> : ctx \in Contexts} :
    input = [completedStep |-> "PARSE_VERDICT", stepStatus |-> "SUCCEEDED",
             providerStatus |-> NONE, verdict |-> verdict, reviewResults |-> evidence,
             correctionLoopCount |-> 0, maxCorrectionLoops |-> 1,
             humanApproved |-> FALSE, independenceContext |-> context,
             assuranceLevel |-> level]

\* Spellings that are more than the name of a file.
Spellings == {".", "..", "%2e%2e", "src%2f..", "%00"}

\* The links that lead somewhere, and no directory on the way is one of them.
Live(host) == {p \in DOMAIN host.links : existsSync(host, p)}
Canonical(host, path) == \A n \in 1..Len(path) : SubSeq(path, 1, n) \notin Live(host)

\* Where the file tool works: the directory of one organization.
orgWorkspaceDirectory == Root \o <<"orgs", "o1">>

\* No name holds a percent sign or a control character, the workspace root and
\* the ends of the links are spelled with names, and what is there is found
\* without a link; a path that is given is not missing.
ASSUME PathAssumption ==
  /\ Names \cap Spellings = {} /\ {"src", "orgs", "o1"} \subseteq Names
  /\ Segments \subseteq Names \cup Spellings
  /\ Root \in Seq(Names)
  /\ \A host \in Hosts : \A p \in DOMAIN host.links :
       /\ host.links[p] \in Seq(Names)
       /\ p \in Live(host) => Canonical(host, host.links[p])
  /\ ABSENT \notin [abs : BOOLEAN, segs : Seq(Names \cup Spellings)]

BaseContext == [executionProfile |-> "BUILDER", requestedAction |-> "GIT_READ", requestedPath |-> ABSENT,
                requestedCommand |-> ABSENT, homeDir |-> ABSENT, host |-> [links |-> <<>>, there |-> {}],
                releaseGateStatus |-> ABSENT, policy |-> createBuilderPolicy(Root)]

PathRequest(profile, action, abs, segs, host, home) ==
  [BaseContext EXCEPT !.executionProfile = profile, !.requestedAction = action,
                      !.requestedPath =
                         [abs |-> abs, segs |-> IF abs THEN orgWorkspaceDirectory \o segs ELSE segs],
                      !.host = host, !.homeDir = home]

PathInput ==
  \E profile \in ExecutionProfile, action \in SUPPORTED_ACTIONS,
     segs \in SeqOf(Segments, MaxSegments), abs \in BOOLEAN, host \in Hosts,
     home \in {ABSENT, orgWorkspaceDirectory} :
    input = PathRequest(profile, action, abs, segs, host, home)

\* Two parts and an operator between them, or one part.
Joined(p, op, q) == IF q = <<>> THEN p ELSE p \o <<op>> \o q

WithAliases(policy) ==
  [policy EXCEPT !.trustedCodingAgentAliases = {Plain(<<"agent">>)},
                 !.trustedReviewerAgentAliases = {Plain(<<"reviewer">>)}]

\* A part has at least one word and no operator; a command and a policy that are
\* given are not missing.
Words == ChainOperators \cup UNION {Range(p) : p \in Parts}
Policies == {createBuilderPolicy(Root), createReviewerPolicy(Root)}

ASSUME CommandAssumption ==
  /\ \A p \in Parts : p \in Seq(Words) /\ p # <<>> /\ Range(p) \cap ChainOperators = {}
  /\ ABSENT \notin Seq(Words)
  /\ ABSENT \notin Policies \cup {WithAliases(policy) : policy \in Policies}

CommandRequest(profile, command, policy) ==
  [BaseContext EXCEPT !.executionProfile = profile, !.requestedAction = "RUN_COMMAND",
                      !.requestedCommand = command, !.policy = WithAliases(policy)]

CommandInput ==
  \E profile \in ExecutionProfile, p \in Parts, op \in ChainOperators, q \in Parts \cup {<<>>},
     policy \in Policies :
    input = CommandRequest(profile, Joined(p, op, q), policy)

Permitting(policy, commit, push, network) ==
  [policy EXCEPT !.allowGitCommit = commit, !.allowGitPush = push, !.allowNetwork = network]

ActionRequest(profile, action, gate, policy) ==
  [BaseContext EXCEPT !.executionProfile = profile, !.requestedAction = action,
                      !.releaseGateStatus = gate, !.policy = policy]

ActionInput ==
  \E profile \in ExecutionProfile \cup {"OTHER"},
     action \in (ExecutionAction \ FileActions) \cup {"OTHER", "READ_FILE"},
     commit \in BOOLEAN, push \in BOOLEAN, network \in BOOLEAN,
     gate \in {ABSENT, "PENDING", "APPROVED"}, given \in BOOLEAN :
    input = ActionRequest(profile, action, gate,
              IF given THEN Permitting(createBuilderPolicy(Root), commit, push, network) ELSE ABSENT)

DecisionsInit ==
  /\ outcome = "undecided"
  /\ kind \in {"review", "path", "command", "action"}
  /\ CASE kind = "review"  -> ReviewInput
       [] kind = "path"    -> PathInput
       [] kind = "command" -> CommandInput
       [] kind = "action"  -> ActionInput

Evaluate ==
  /\ outcome = "undecided"
  /\ outcome' = IF kind = "review" THEN nextEngineeringStep(input).kind ELSE evaluatePolicy(input)
  /\ UNCHANGED <<kind, input>>

DecisionsSpec == DecisionsInit /\ [][Evaluate]_<<kind, input, outcome>>

-----------------------------------------------------------------------------
(* Review evidence. *)

MovesOn == kind = "review" /\ outcome = "NEXT_STEP"

results  == input.reviewResults
families == input.independenceContext[1].previousReviewerModelFamilies
builder  == input.independenceContext[1].builderModelFamily

\* What the comment on enforceAl4Requirements lists, said without an order of
\* checks: two reviews by two executions of two providers, one opinion, a known
\* builder family, and families that differ (a family the registry leaves empty
\* is compared with nothing).
Al4Evidence ==
  /\ Len(results) >= 2
  /\ \A i, j \in DOMAIN results :
       /\ results[i].verdict = results[j].verdict
       /\ i # j => results[i].reviewerExecutionId # results[j].reviewerExecutionId
  /\ input.independenceContext # <<>>
  /\ LET ids == input.independenceContext[1].previousReviewerProviderIds
     IN  \E i, j \in DOMAIN ids : ids[i] # ids[j]
  /\ Len(families) >= 2
  /\ builder # NONE /\ families[1] # builder
  /\ families[1] = families[2] => families[1] = NONE

\* At AL4 the verdict step moves the run on (to the verification or to a
\* correction) only with evidence that satisfies the whole list, whatever else
\* the caller passes: the single verdict is no substitute (enforceAl4Requirements).
Al4NeedsEvidence == MovesOn /\ input.assuranceLevel = "AL4" => Al4Evidence

\* At every level no run moves on over reviews that contradict each other
\* (resolveVerdict, resolveReviewerDisagreement).
DisagreementStops ==
  MovesOn => \A i, j \in DOMAIN results : results[i].verdict = results[j].verdict

\* The two copies of the family rules agree: what the state machine lets pass
\* at AL4 the exported helper checkAl4Independence accepts as well.
HelperAgrees ==
  MovesOn /\ input.assuranceLevel = "AL4" =>
    checkAl4Independence(input.independenceContext[1], Len(results)) = NONE

\* A run moves on only over reviews that agree, at AL4 with the whole evidence,
\* which the exported helper accepts as well (state-machine.ts, review.ts).
VerdictEarned == Al4NeedsEvidence /\ DisagreementStops /\ HelperAgrees

-----------------------------------------------------------------------------
(* Policy. *)

Admitted == kind # "review" /\ outcome = "POLICY_ALLOWED"

Decision(ctx) == evaluatePolicy(ctx)

\* The path the policy is asked about, and the file the host has for it.
Meant(ctx) ==
  resolvePath(Root, [abs |-> ctx.requestedPath.abs, segs |-> Decoded(ctx.requestedPath.segs)])
FileOf(ctx) == hostLookup(ctx.host, Meant(ctx))

\* Nothing can be said by looking at what exists: a dangling link is on the way.
Blind(host, path) ==
  \E n \in 1..Len(path) : Entry(host, SubSeq(path, 1, n)) \in DOMAIN host.links \ Live(host)

\* A file that some request with dots, encoded dots or links is given, and that
\* the host finds without a dangling link, lies in the real workspace, is no
\* secret, and is given to the same profile under its own name too; and only a
\* builder is given a file for anything but reading (normalizePath,
\* evaluatePathAction).
JudgedAsReached ==
  /\ input.requestedAction = "READ_FILE" \/ input.executionProfile = "BUILDER"
  /\ ~Blind(input.host, Meant(input)) =>
       LET file == FileOf(input)
       IN  /\ IsPrefix(hostLookup(input.host, Root), file)
           /\ ~isSecretPath(file)
           /\ Decision([input EXCEPT !.requestedPath = [abs |-> TRUE, segs |-> file]]) = "POLICY_ALLOWED"

\* The policy keeps a dangling link by name, so the tool has to look again: what
\* it opens or makes for an admitted request lies in the real directory of the
\* organization, wherever a link, dangling or not, leads (execute, createFile).
ToolConfined ==
  LET result == execute(input, orgWorkspaceDirectory)
  IN  \A file \in result.made \cup result.opened :
        IsPrefix(hostLookup(input.host, orgWorkspaceDirectory), file)

\* No spelling of a path and no link gains anything: the policy admits what it
\* would admit by name, and the tool stays where it works (execution-policy.ts,
\* workspace-file.adapter.ts).
SpellingGainsNothing == kind = "path" /\ Admitted => JudgedAsReached /\ ToolConfined

\* A chain is admitted exactly when each of its parts would be admitted alone
\* and none of them by being an agent's alias: no operator hides a command
\* (splitShellChains, classifyCommand).
IsAlias(command) ==
  TrustedAlias(command, input.executionProfile, input.policy)

ChainIsItsParts ==
  kind = "command" /\ outcome # "undecided" =>
    LET parts == splitShellChains(input.requestedCommand)
        words == {i \in DOMAIN input.requestedCommand :
                    input.requestedCommand[i] \in ChainOperators}
    IN  words # {} =>
          /\ Cardinality(DOMAIN parts) = 2
          /\ Admitted <=> \A i \in DOMAIN parts :
               /\ ~IsAlias(parts[i])
               /\ Decision([input EXCEPT !.requestedCommand = parts[i]]) = "POLICY_ALLOWED"
=============================================================================
