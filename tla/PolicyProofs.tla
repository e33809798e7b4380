---------------------------- MODULE PolicyProofs ----------------------------
(***************************************************************************)
(* Theorems about the decisions of the contracts package and about the     *)
(* gate that uses them, for every value of their constants: what a verdict *)
(* at PARSE_VERDICT rests on, what evaluatePolicy admits and the file tool *)
(* does (Decisions), and which dispatch reaches an agent (ProviderGate).   *)
(***************************************************************************)
EXTENDS ProviderGate, Decisions, FiniteSetTheorems, SequenceTheorems,
        WellFoundedInduction, TLAPS

-----------------------------------------------------------------------------
(* Review evidence.                                                        *)

\* A list with as many different values as entries repeats none.
LEMMA AllDifferent ==
  ASSUME NEW S, NEW s \in Seq(S), ~(Cardinality({s[i] : i \in DOMAIN s}) < Len(s))
  PROVE  \A i, j \in DOMAIN s : i # j => s[i] # s[j]
<1> DEFINE T == {s[i] : i \in DOMAIN s}
<1>1. /\ DOMAIN s = 1..Len(s) /\ Len(s) \in Nat
      /\ IsFiniteSet(DOMAIN s) /\ Cardinality(DOMAIN s) = Len(s)
  BY FS_Interval
<1>2. s \in Surjection(DOMAIN s, T)
  BY <1>1 DEF Surjection
<1>3. IsFiniteSet(T) /\ Cardinality(T) <= Len(s)
  BY <1>1, <1>2, FS_Surjection
<1>4. Cardinality(T) = Cardinality(DOMAIN s)
  BY <1>1, <1>3, FS_CardinalityType
<1>5. s \in Injection(DOMAIN s, T)
  BY <1>1, <1>2, <1>4, FS_Surjection
<1> QED
  BY <1>5 DEF Injection, IsInjective

\* A list with at least two different values has two entries that differ.
LEMMA SomeDifferent ==
  ASSUME NEW S, NEW s \in Seq(S), ~(Cardinality(Distinct(s)) < 2)
  PROVE  \E i, j \in DOMAIN s : s[i] # s[j]
<1> SUFFICES ASSUME \A i, j \in DOMAIN s : s[i] = s[j] PROVE FALSE
  OBVIOUS
<1>1. CASE DOMAIN s = {}
  BY <1>1, FS_EmptySet DEF Distinct
<1>2. ASSUME NEW k \in DOMAIN s PROVE FALSE
  <2>1. Distinct(s) = {s[k]}
    BY <1>2 DEF Distinct
  <2>2. Cardinality(Distinct(s)) = 1
    BY <2>1, FS_Singleton, Zenon
  <2> QED
    BY <2>2
<1> QED
  BY <1>1, <1>2

\* Evidence as the callers of nextEngineeringStep pass it, of any length.
ReviewTypes ==
  /\ input.completedStep = "PARSE_VERDICT" /\ input.stepStatus = "SUCCEEDED"
  /\ input.reviewResults \in Seq(Reviews)
  /\ input.independenceContext # <<>> =>
       input.independenceContext[1].previousReviewerProviderIds \in Seq(Providers)

\* A run moves on from PARSE_VERDICT only with a verdict and with the evidence
\* enforceAl4Requirements asks for.
LEMMA MovesOnVerdict ==
  ASSUME ReviewTypes, nextEngineeringStep(input).kind = "NEXT_STEP"
  PROVE  /\ resolveVerdict(input) # NONE
         /\ enforceAl4Requirements(input) = NONE
<1>1. nextEngineeringStep(input) = onVerdict(input)
  BY DEF ReviewTypes, nextEngineeringStep, onSuccess, Blocked
<1>2. onVerdict(input).kind = "NEXT_STEP"
  BY <1>1
<1> QED
  BY <1>2 DEF onVerdict, Blocked

\* A verdict is given over reviews that agree.
LEMMA VerdictAgrees ==
  ASSUME ReviewTypes, resolveVerdict(input) # NONE
  PROVE  \A i, j \in DOMAIN results : results[i].verdict = results[j].verdict
<1>1. CASE results = <<>>
  BY <1>1 DEF results
<1>2. CASE results # <<>>
  BY <1>2 DEF results, resolveVerdict, resolveReviewerDisagreement
<1> QED
  BY <1>1, <1>2

\* What enforceAl4Requirements lets pass has all that the list asks for, and
\* checkAl4Independence lets it pass too.
LEMMA EnforcedEvidence ==
  ASSUME ReviewTypes, resolveVerdict(input) # NONE, input.assuranceLevel = "AL4",
         enforceAl4Requirements(input) = NONE
  PROVE  Al4Evidence /\ checkAl4Independence(input.independenceContext[1], Len(results)) = NONE
<1> DEFINE context == input.independenceContext
           ids     == context[1].previousReviewerProviderIds
           by      == [i \in DOMAIN results |-> results[i].reviewerExecutionId]
<1>1. /\ ~(Len(results) < 2)
      /\ ~(Cardinality({results[i].reviewerExecutionId : i \in DOMAIN results}) < Len(results))
      /\ context # <<>>
      /\ ~(Cardinality(Distinct(ids)) < 2)
      /\ familyReason(context[1]) = NONE
  BY DEF enforceAl4Requirements, results, NONE
<1>2. /\ ~(Len(families) < 2)
      /\ builder # NONE /\ families[1] # builder
      /\ ~(families[1] # NONE /\ families[2] # NONE /\ families[1] = families[2])
  BY <1>1 DEF familyReason, families, builder, NONE
<1>3. checkAl4Independence(context[1], Len(results)) = NONE
  BY <1>1, <1>2 DEF checkAl4Independence, families, builder
<1>4. ASSUME NEW i \in DOMAIN results, NEW j \in DOMAIN results, i # j
      PROVE  results[i].reviewerExecutionId # results[j].reviewerExecutionId
  <2>1. results \in Seq(Reviews)
    BY DEF ReviewTypes, results
  <2>2. by \in Seq(Executions) /\ DOMAIN by = DOMAIN results /\ Len(by) = Len(results)
    <3>1. DOMAIN results = 1..Len(results) /\ Len(results) \in Nat
      BY <2>1
    <3>2. \A k \in 1..Len(results) : results[k].reviewerExecutionId \in Executions
      <4>1. \A k \in 1..Len(results) : results[k] \in Reviews
        BY <2>1, <3>1
      <4> QED
        BY <4>1 DEF Reviews
    <3>3. by \in [1..Len(results) -> Executions]
      BY <3>1, <3>2
    <3> QED
      BY <3>1, <3>3
  <2>3. {by[k] : k \in DOMAIN by} = {results[k].reviewerExecutionId : k \in DOMAIN results}
    BY <2>2
  <2>4. by[i] # by[j]
    BY <1>1, <1>4, <2>2, <2>3, AllDifferent
  <2> QED
    BY <1>4, <2>4
<1>5. \E i, j \in DOMAIN ids : ids[i] # ids[j]
  BY <1>1, SomeDifferent DEF ReviewTypes
<1>6. Len(results) >= 2
  BY <1>1 DEF ReviewTypes, results
<1> QED
  BY <1>1, <1>2, <1>3, <1>4, <1>5, <1>6, VerdictAgrees DEF Al4Evidence

\* Evidence of the run's instances is evidence of some length.
LEMMA BoundedIsSeq ==
  ASSUME NEW S, NEW n, NEW s \in SeqOf(S, n)
  PROVE  s \in Seq(S)
BY DEF SeqOf

LEMMA ReviewInputTypes ==
  ASSUME ReviewInput
  PROVE  ReviewTypes
<1>1. PICK level \in AssuranceLevels, verdict \in {"A", NONE}, evidence \in SeqOf(Reviews, MaxReviews),
           context \in {<<>>} \cup {<<ctx>> : ctx \in Contexts} :
        input = [completedStep |-> "PARSE_VERDICT", stepStatus |-> "SUCCEEDED",
                 providerStatus |-> NONE, verdict |-> verdict, reviewResults |-> evidence,
                 correctionLoopCount |-> 0, maxCorrectionLoops |-> 1,
                 humanApproved |-> FALSE, independenceContext |-> context,
                 assuranceLevel |-> level]
  BY DEF ReviewInput
<1>2. /\ input.completedStep = "PARSE_VERDICT" /\ input.stepStatus = "SUCCEEDED"
      /\ input.reviewResults = evidence /\ input.independenceContext = context
  BY <1>1
<1>3. context # <<>> => context[1].previousReviewerProviderIds \in SeqOf(Providers, MaxReviews)
  BY <1>1 DEF Contexts
<1> QED
  BY <1>2, <1>3, BoundedIsSeq DEF ReviewTypes

\* What was asked, and what was decided about it.
Answer == IF kind = "review" THEN nextEngineeringStep(input).kind ELSE evaluatePolicy(input)

Asked ==
  /\ kind \in {"review", "path", "command", "action"}
  /\ kind = "review" => ReviewInput
  /\ kind = "path" => PathInput
  /\ kind = "command" => CommandInput
  /\ kind = "action" => ActionInput

DecisionsInv == Asked /\ outcome \in {"undecided", Answer}

LEMMA DecisionsInvariance == DecisionsSpec => []DecisionsInv
<1>1. DecisionsInit => DecisionsInv
  BY DEF DecisionsInit, DecisionsInv, Asked
<1>2. DecisionsInv /\ [Evaluate]_<<kind, input, outcome>> => DecisionsInv'
  <2> SUFFICES ASSUME DecisionsInv, [Evaluate]_<<kind, input, outcome>> PROVE DecisionsInv'
    OBVIOUS
  <2>1. kind' = kind /\ input' = input
    BY DEF Evaluate
  <2>2. Asked'
    <3>1. ReviewInput => ReviewInput'
      BY <2>1 DEF ReviewInput
    <3>2. PathInput => PathInput'
      BY <2>1 DEF PathInput
    <3>3. CommandInput => CommandInput'
      BY <2>1 DEF CommandInput
    <3>4. ActionInput => ActionInput'
      BY <2>1 DEF ActionInput
    <3> QED
      BY <2>1, <3>1, <3>2, <3>3, <3>4 DEF DecisionsInv, Asked
  <2>3. Answer' = Answer
    BY <2>1 DEF Answer
  <2>4. outcome' \in {"undecided", Answer}
    BY DEF Evaluate, DecisionsInv, Answer
  <2> QED
    BY <2>2, <2>3, <2>4 DEF DecisionsInv
<1> QED
  BY <1>1, <1>2, PTL DEF DecisionsSpec

\* Over evidence of any length a run moves on from PARSE_VERDICT only over
\* reviews that agree, at AL4 only with two distinct executions, two distinct
\* providers and independent families, and checkAl4Independence, the copy of the
\* rules that review.ts exports, accepts the same evidence (state-machine.ts).
THEOREM VerdictsEarned == DecisionsSpec => []VerdictEarned
<1>1. DecisionsInv => VerdictEarned
  <2> SUFFICES ASSUME DecisionsInv, MovesOn PROVE VerdictEarned
    BY DEF VerdictEarned, Al4NeedsEvidence, DisagreementStops, HelperAgrees
  <2>1. ReviewTypes /\ nextEngineeringStep(input).kind = "NEXT_STEP"
    BY ReviewInputTypes DEF DecisionsInv, Asked, MovesOn, Answer
  <2>2. resolveVerdict(input) # NONE /\ enforceAl4Requirements(input) = NONE
    BY <2>1, MovesOnVerdict
  <2>3. DisagreementStops
    BY <2>1, <2>2, VerdictAgrees DEF DisagreementStops
  <2>4. Al4NeedsEvidence /\ HelperAgrees
    BY <2>1, <2>2, EnforcedEvidence DEF Al4NeedsEvidence, HelperAgrees
  <2> QED
    BY <2>3, <2>4 DEF VerdictEarned
<1> QED
  BY <1>1, DecisionsInvariance, PTL

-----------------------------------------------------------------------------
(* Induction on natural numbers, for sets: the library's rule takes a      *)
(* predicate as a parameter, these take the set of the numbers that have   *)
(* the property.                                                           *)

LEMMA NatWellFounded ==
  ASSUME NEW T, T \subseteq Nat, T # {}
  PROVE  \E x \in T : \A y \in T : x \leq y
<1>1. PICK R : R = OpToRel(<, Nat)
  OBVIOUS
<1>2. IsWellFoundedOn(R, Nat)
  BY <1>1, NatLessThanWellFounded
<1>3. PICK x \in T : \A y \in T : <<y, x>> \notin R
  BY <1>2, WFMin
<1>4. \A y \in T : ~(y < x)
  BY <1>1, <1>3 DEF OpToRel
<1> QED
  BY <1>4

LEMMA SetInduction ==
  ASSUME NEW S, 0 \in S, \A n \in Nat : n \in S => n + 1 \in S
  PROVE  Nat \subseteq S
<1>1. SUFFICES ASSUME Nat \ S # {} PROVE FALSE
  OBVIOUS
<1>2. PICK x \in Nat \ S : \A y \in Nat \ S : x \leq y
  BY <1>1, NatWellFounded
<1>3. x # 0 /\ x - 1 \in Nat
  BY <1>2
<1>4. x - 1 \in S
  BY <1>2, <1>3
<1> QED
  BY <1>2, <1>3, <1>4

\* A bounded set of numbers has a largest one.
LEMMA MaxExists ==
  ASSUME NEW T, T \subseteq Nat, T # {}, NEW n \in Nat, \A x \in T : x \leq n
  PROVE  Max(T) \in T /\ \A y \in T : y \leq Max(T)
<1>1. {n - x : x \in T} \subseteq Nat /\ {n - x : x \in T} # {}
  <2>1. \A x \in T : n - x \in Nat
    OBVIOUS
  <2>2. {n - x : x \in T} \subseteq Nat
    BY <2>1
  <2> QED
    BY <2>2
<1>2. PICK z \in {n - x : x \in T} : \A y \in {n - x : x \in T} : z \leq y
  BY <1>1, NatWellFounded
<1>3. PICK x \in T : z = n - x
  BY <1>2
<1>4. \A y \in T : x >= y
  <2> TAKE y \in T
  <2>1. z \leq n - y
    BY <1>2
  <2> QED
    BY <1>3, <2>1
<1>5. Max(T) \in T /\ \A y \in T : Max(T) >= y
  BY <1>4 DEF Max
<1> QED
  BY <1>5

LEMMA MinExists ==
  ASSUME NEW T, T \subseteq Nat, T # {}
  PROVE  Min(T) \in T /\ \A y \in T : Min(T) \leq y
BY NatWellFounded DEF Min

-----------------------------------------------------------------------------
(* The parts of a command.                                                 *)

\* The places of the words, and where the part that starts at one ends.
Places(operators, command) == {i \in DOMAIN command : command[i] \notin operators}
Firsts(operators, command) == {i \in Places(operators, command) : i - 1 \notin Places(operators, command)}
Ends(operators, command, first) ==
  {last \in Places(operators, command) : first..last \subseteq Places(operators, command)}

LEMMA PartsShape ==
  ASSUME NEW operators, NEW command
  PROVE  PartsBetween(operators, command) =
           [first \in Firsts(operators, command) |->
              SubSeq(command, first, Max(Ends(operators, command, first)))]
BY Zenon DEF PartsBetween, Firsts, Ends, Places

\* A part starts where it says, is not empty, and is made of words of the
\* command, none of them an operator.
LEMMA PartOfCommand ==
  ASSUME NEW operators, NEW W, NEW command \in Seq(W), NEW first \in Firsts(operators, command),
         NEW part, part = PartsBetween(operators, command)[first]
  PROVE  /\ part \in Seq(W) /\ part # <<>> /\ part[1] = command[first]
         /\ Len(part) = Max(Ends(operators, command, first)) - first + 1
         /\ \A i \in 1..Len(part) : part[i] = command[first + i - 1]
         /\ Range(part) \cap operators = {}
<1> DEFINE places == Places(operators, command)
           ends   == Ends(operators, command, first)
<1>1. places \subseteq 1..Len(command) /\ Len(command) \in Nat /\ first \in places
  BY DEF Places, Firsts
<1>2. ends \subseteq Nat /\ first \in ends /\ \A x \in ends : x \leq Len(command)
  <2>1. first..first = {first}
    BY <1>1
  <2> QED
    BY <1>1, <2>1 DEF Ends
<1>3. Max(ends) \in ends /\ \A y \in ends : y \leq Max(ends)
  BY <1>1, <1>2, MaxExists
<1>4. PICK last : last = Max(ends)
  OBVIOUS
<1>5. /\ last \in places /\ first \leq last /\ last \leq Len(command)
      /\ first..last \subseteq places /\ last \in Nat /\ first \in Nat
  BY <1>1, <1>2, <1>3, <1>4 DEF Ends
<1>6. part = SubSeq(command, first, last)
  BY <1>4, PartsShape, Zenon
<1>7. /\ part \in Seq(W) /\ Len(part) = last - first + 1
      /\ \A i \in 1..Len(part) : part[i] = command[first + i - 1]
  BY <1>1, <1>5, <1>6
<1>8. part # <<>> /\ part[1] = command[first]
  BY <1>5, <1>7
<1>9. ASSUME NEW i \in DOMAIN part PROVE part[i] \notin operators
  <2>1. i \in 1..Len(part) /\ first + i - 1 \in first..last
    BY <1>5, <1>7
  <2> QED
    BY <1>5, <1>7, <2>1 DEF Places
<1>10. Range(part) \cap operators = {}
  BY <1>9 DEF Range
<1> QED
  BY <1>4, <1>7, <1>8, <1>10

\* No word gets lost between the parts.
LEMMA WordInPart ==
  ASSUME NEW operators, NEW W, NEW command \in Seq(W), NEW k \in Places(operators, command)
  PROVE  \E first \in Firsts(operators, command) :
           command[k] \in Range(PartsBetween(operators, command)[first])
<1> DEFINE places == Places(operators, command)
           T      == {i \in places : i \leq k /\ i..k \subseteq places}
<1>1. places \subseteq 1..Len(command) /\ Len(command) \in Nat /\ k \in Nat
  BY DEF Places
<1>2. T \subseteq Nat /\ k \in T
  <2>1. k..k = {k}
    BY <1>1
  <2> QED
    BY <1>1, <2>1
<1>3. PICK first \in T : \A y \in T : first \leq y
  BY <1>2, NatWellFounded
<1>4. first \in places /\ first \in Nat /\ first \leq k /\ first..k \subseteq places
  BY <1>1, <1>3
<1>5. first - 1 \notin places
  <2>1. SUFFICES ASSUME first - 1 \in places PROVE FALSE
    OBVIOUS
  <2>2. (first - 1)..k = {first - 1} \cup (first..k)
    BY <1>1, <1>4
  <2>3. first - 1 \in T
    BY <1>1, <1>4, <2>1, <2>2
  <2> QED
    BY <1>3, <1>4, <2>3
<1>6. first \in Firsts(operators, command)
  BY <1>4, <1>5 DEF Firsts
<1>7. PICK last : last = Max(Ends(operators, command, first))
  OBVIOUS
<1>8. k \leq last /\ last \in Nat
  <2>1. k \in Ends(operators, command, first)
    BY <1>4 DEF Ends
  <2>2. Ends(operators, command, first) \subseteq Nat
    BY <1>1 DEF Ends
  <2>3. \A x \in Ends(operators, command, first) : x \leq Len(command)
    BY <1>1 DEF Ends
  <2> QED
    BY <1>1, <1>7, <2>1, <2>2, <2>3, MaxExists
<1>9. PICK part : part = PartsBetween(operators, command)[first]
  OBVIOUS
<1>10. /\ part \in Seq(W) /\ Len(part) = last - first + 1
       /\ \A i \in 1..Len(part) : part[i] = command[first + i - 1]
  BY <1>6, <1>7, <1>9, PartOfCommand
<1>11. k - first + 1 \in 1..Len(part)
  BY <1>1, <1>4, <1>8, <1>10
<1>12. part[k - first + 1] = command[k]
  BY <1>1, <1>4, <1>10, <1>11
<1>13. command[k] \in Range(part)
  BY <1>10, <1>11, <1>12 DEF Range
<1> QED
  BY <1>6, <1>9, <1>13

\* A command without an operator is its only part.
LEMMA OnePart ==
  ASSUME NEW operators, NEW W, NEW command \in Seq(W), command # <<>>, Range(command) \cap operators = {}
  PROVE  PartsBetween(operators, command) = [first \in {1} |-> command]
<1>1. Places(operators, command) = 1..Len(command) /\ Len(command) \in Nat \ {0}
  BY DEF Places, Range
<1>2. Firsts(operators, command) = {1}
  BY <1>1 DEF Firsts
<1>3. Ends(operators, command, 1) = 1..Len(command)
  BY <1>1 DEF Ends
<1>4. Max(Ends(operators, command, 1)) = Len(command)
  <2>1. PICK T : T = 1..Len(command)
    OBVIOUS
  <2>2. T \subseteq Nat /\ Len(command) \in T /\ \A x \in T : x \leq Len(command)
    BY <1>1, <2>1
  <2>3. Max(T) \in T /\ \A y \in T : y \leq Max(T)
    BY <1>1, <2>2, MaxExists
  <2>4. Max(T) = Len(command)
    BY <1>1, <2>1, <2>2, <2>3
  <2> QED
    BY <1>3, <2>1, <2>4
<1>5. SubSeq(command, 1, Len(command)) = command
  BY <1>1
<1>6. PartsBetween(operators, command)
        = [first \in {1} |-> SubSeq(command, first, Max(Ends(operators, command, first)))]
  BY <1>2, PartsShape, Zenon
<1> QED
  BY <1>4, <1>5, <1>6

\* Two commands without an operator and an operator between them are two parts.
LEMMA TwoParts ==
  ASSUME NEW operators, NEW W, NEW p \in Seq(W), NEW op \in operators, NEW q \in Seq(W),
         p # <<>>, q # <<>>, Range(p) \cap operators = {}, Range(q) \cap operators = {},
         operators \subseteq W
  PROVE  Cardinality(DOMAIN PartsBetween(operators, p \o <<op>> \o q)) = 2
<1> DEFINE command == p \o <<op>> \o q
<1>1. PICK m, n \in Nat \ {0} : m = Len(p) /\ n = Len(q)
  OBVIOUS
<1>2. command \in Seq(W) /\ Len(command) = m + 1 + n
  BY <1>1
<1>3. /\ \A i \in 1..m : command[i] = p[i]
      /\ command[m + 1] = op
      /\ \A i \in m + 2..m + 1 + n : command[i] = q[i - m - 1] /\ i - m - 1 \in 1..n
  BY <1>1
<1>4. Places(operators, command) = (1..m) \cup (m + 2..m + 1 + n)
  <2>1. \A i \in 1..m : command[i] \notin operators
    <3>1. \A i \in 1..m : p[i] \notin operators
      BY <1>1 DEF Range
    <3> HIDE DEF command
    <3> QED
      BY <1>3, <3>1, Zenon
  <2>2. \A i \in m + 2..m + 1 + n : command[i] \notin operators
    <3>1. \A i \in 1..n : q[i] \notin operators
      BY <1>1 DEF Range
    <3> QED
      BY <1>1, <1>3, <3>1
  <2>3. DOMAIN command = (1..m) \cup {m + 1} \cup (m + 2..m + 1 + n)
    BY <1>1, <1>2
  <2> QED
    BY <1>1, <1>3, <2>1, <2>2, <2>3 DEF Places
<1>5. Firsts(operators, command) = {1, m + 2}
  <2>1. PICK P : P = Places(operators, command)
    OBVIOUS
  <2>2. \A i \in P : i - 1 \notin P <=> i \in {1, m + 2}
    BY <1>1, <1>4, <2>1
  <2>3. 1 \in P /\ m + 2 \in P
    BY <1>1, <1>4, <2>1
  <2> QED
    BY <2>1, <2>2, <2>3 DEF Firsts
<1>6. DOMAIN PartsBetween(operators, command) = {1, m + 2}
  BY <1>5, PartsShape, Zenon
<1>7. Cardinality({1, m + 2}) = 2
  <2>1. m + 2 \notin {1} /\ {1} \cup {m + 2} = {1, m + 2}
    BY <1>1
  <2>2. IsFiniteSet({1}) /\ Cardinality({1}) = 1
    BY FS_Singleton
  <2>3. Cardinality({1} \cup {m + 2}) = 1 + 1
    BY <2>1, <2>2, FS_AddElement
  <2>4. 1 + 1 = 2
    OBVIOUS
  <2> QED
    BY <2>1, <2>3, <2>4, Zenon
<1> QED
  BY <1>6, <1>7

-----------------------------------------------------------------------------
(* What classifyCommand admits.                                            *)

\* The programs the policies of this repository know; shells are none of them,
\* nor are the aliases the requests of Decisions carry.
Programs ==
  {"git", "node", "npx", "npm", "pnpm", "yarn", "jest", "vitest", "tsc", "eslint", "prettier", "prisma"}

StartsWithProgram(command) == (\E S : command \in Seq(S)) /\ command # <<>> /\ command[1] \in Programs

\* The commands a policy lists all start with such a program.
Listing(policy) == \A allowed \in policy.allowedCommands : StartsWithProgram(allowed)

LEMMA ProgramTuples ==
  ASSUME NEW x \in Programs, NEW y, NEW z
  PROVE  StartsWithProgram(<<x>>) /\ StartsWithProgram(<<x, y>>) /\ StartsWithProgram(<<x, y, z>>)
<1>1. <<x>> \in Seq({x}) /\ <<x>> # <<>> /\ <<x>>[1] = x
  OBVIOUS
<1>2. <<x, y>> \in Seq({x, y}) /\ <<x, y>> # <<>> /\ <<x, y>>[1] = x
  OBVIOUS
<1>3. <<x, y, z>> \in Seq({x, y, z}) /\ <<x, y, z>> # <<>> /\ <<x, y, z>>[1] = x
  OBVIOUS
<1> QED
  BY <1>1, <1>2, <1>3, Zenon DEF StartsWithProgram

LEMMA PoliciesList ==
  ASSUME NEW root
  PROVE  Listing(createBuilderPolicy(root)) /\ Listing(createReviewerPolicy(root))
<1>1. \A c \in TEST_COMMANDS : StartsWithProgram(c)
  <2>1. \A x \in Programs : \A y, z :
          StartsWithProgram(<<x>>) /\ StartsWithProgram(<<x, y>>) /\ StartsWithProgram(<<x, y, z>>)
    BY ProgramTuples
  <2>2. \A c \in {<<"git", sub>> : sub \in SAFE_GIT_SUBCOMMANDS} : StartsWithProgram(c)
    BY <2>1 DEF Programs
  <2>3. \A c \in {<<pm, "test">> : pm \in {"npm", "yarn", "pnpm"}} : StartsWithProgram(c)
    BY <2>1 DEF Programs
  <2>4. \A c \in {<<pm, "run", script>> : pm \in {"npm", "yarn", "pnpm"}, script \in {"test", "lint"}} :
          StartsWithProgram(c)
    <3>1. \A pm \in {"npm", "yarn", "pnpm"}, script \in {"test", "lint"} :
            StartsWithProgram(<<pm, "run", script>>)
      BY <2>1 DEF Programs
    <3>2. ASSUME NEW c \in {<<pm, "run", script>> : pm \in {"npm", "yarn", "pnpm"}, script \in {"test", "lint"}}
          PROVE  StartsWithProgram(c)
      <4>1. PICK pm \in {"npm", "yarn", "pnpm"}, script \in {"test", "lint"} : c = <<pm, "run", script>>
        BY <3>2
      <4> QED
        BY <3>1, <4>1
    <3> QED
      BY <3>2
  <2>5. \A c \in {<<"git", "branch", "--show-current">>, <<"jest">>, <<"vitest">>} : StartsWithProgram(c)
    BY <2>1 DEF Programs
  <2> QED
    BY <2>2, <2>3, <2>4, <2>5 DEF TEST_COMMANDS
<1>2. createReviewerPolicy(root).allowedCommands = TEST_COMMANDS
  BY DEF createReviewerPolicy, BasePolicy
<1>3. createBuilderPolicy(root).allowedCommands =
        TEST_COMMANDS
          \cup {<<pm, "run", "build">> : pm \in {"npm", "yarn", "pnpm"}}
          \cup {<<"tsc">>, <<"eslint">>, <<"prettier">>, <<"npx", "prisma", "generate">>,
                <<"prisma", "generate">>}
  BY DEF createBuilderPolicy, BasePolicy
<1>4. Listing(createReviewerPolicy(root))
  BY <1>1, <1>2 DEF Listing
<1>5. Listing(createBuilderPolicy(root))
  <2>1. \A x \in Programs : \A y, z :
          StartsWithProgram(<<x>>) /\ StartsWithProgram(<<x, y>>) /\ StartsWithProgram(<<x, y, z>>)
    BY ProgramTuples
  <2>2. \A c \in {<<pm, "run", "build">> : pm \in {"npm", "yarn", "pnpm"}} : StartsWithProgram(c)
    BY <2>1 DEF Programs
  <2>3. \A c \in {<<"tsc">>, <<"eslint">>, <<"prettier">>, <<"npx", "prisma", "generate">>,
                  <<"prisma", "generate">>} : StartsWithProgram(c)
    BY <2>1 DEF Programs
  <2> QED
    BY <1>1, <1>3, <2>2, <2>3 DEF Listing
<1> QED
  BY <1>4, <1>5

\* A prefix that is not empty has the first word.
LEMMA PrefixFirst ==
  ASSUME NEW S, NEW s \in Seq(S), NEW T, NEW t \in Seq(T), s # <<>>, IsPrefix(s, t)
  PROVE  t # <<>> /\ s[1] = t[1]
<1>1. Len(s) \in Nat \ {0} /\ Len(t) \in Nat /\ Len(s) \leq Len(t)
  BY DEF IsPrefix
<1>2. SubSeq(s, 1, Len(s))[1] = s[1] /\ SubSeq(t, 1, Len(s))[1] = t[1]
  BY <1>1
<1> QED
  BY <1>1, <1>2 DEF IsPrefix

\* A part that is admitted by itself starts with a known program.
LEMMA AdmittedProgram ==
  ASSUME NEW W, NEW command \in Seq(W), command # <<>>, NEW policy, Listing(policy),
         classifySingleCommand(command, policy) = "POLICY_ALLOWED"
  PROVE  command[1].t \in Programs
<1>1. PICK tokens : tokens = tokenizeCommand(command)
  OBVIOUS
<1>2. PICK T : tokens \in Seq(T) /\ tokens # <<>> /\ tokens[1] = command[1].t
  <2>1. DOMAIN command = 1..Len(command) /\ Len(command) \in Nat \ {0}
    OBVIOUS
  <2>2. tokens = [i \in 1..Len(command) |-> command[i].t]
    BY <1>1, <2>1 DEF tokenizeCommand
  <2>3. tokens \in [1..Len(command) -> {command[i].t : i \in 1..Len(command)}]
    BY <2>2
  <2>4. /\ tokens \in Seq({command[i].t : i \in 1..Len(command)})
        /\ tokens # <<>> /\ tokens[1] = command[1].t
    BY <2>1, <2>2, <2>3
  <2> QED
    BY <2>4
<1>3. \/ tokens[1] \in {"git", "node", "npx"}
      \/ matchAgainstAllowed(tokens, policy.allowedCommands)
  BY <1>1 DEF classifySingleCommand
<1>4. ASSUME NEW allowed \in policy.allowedCommands, IsPrefix(allowed, tokens)
      PROVE  tokens[1] \in Programs
  BY <1>2, <1>4, PrefixFirst DEF Listing, StartsWithProgram
<1> QED
  BY <1>2, <1>3, <1>4 DEF matchAgainstAllowed, Programs

\* The policies of the requests, and their aliases: one word each.
LEMMA RequestPolicies ==
  ASSUME NEW base \in Policies, NEW policy, policy = WithAliases(base)
  PROVE  /\ Listing(policy) /\ policy # ABSENT
         /\ policy.trustedCodingAgentAliases = {<<Bare("agent")>>}
         /\ policy.trustedReviewerAgentAliases = {<<Bare("reviewer")>>}
<1>1. policy # ABSENT
  BY CommandAssumption
<1>2. PICK root, commands : base = BasePolicy(root, commands)
  BY DEF Policies, createBuilderPolicy, createReviewerPolicy
<1>3. Listing(base)
  BY PoliciesList DEF Policies
<1>4. Plain(<<"agent">>) = <<Bare("agent")>> /\ Plain(<<"reviewer">>) = <<Bare("reviewer")>>
  BY DEF Plain
<1>5. /\ policy.allowedCommands = base.allowedCommands
      /\ policy.trustedCodingAgentAliases = {Plain(<<"agent">>)}
      /\ policy.trustedReviewerAgentAliases = {Plain(<<"reviewer">>)}
  BY <1>2 DEF WithAliases, BasePolicy
<1> QED
  BY <1>1, <1>3, <1>4, <1>5 DEF Listing

\* A part that is an alias is not admitted as a command.
LEMMA AliasNotListed ==
  ASSUME NEW base \in Policies, NEW policy, policy = WithAliases(base), NEW executionProfile,
         NEW W, NEW part \in Seq(W), part # <<>>, TrustedAlias(part, executionProfile, policy)
  PROVE  classifySingleCommand(part, policy) # "POLICY_ALLOWED" /\ Len(part) = 1
<1>1. part = <<Bare("agent")>> \/ part = <<Bare("reviewer")>>
  BY RequestPolicies DEF TrustedAlias
<1>2. part[1].t \in {"agent", "reviewer"} /\ Len(part) = 1
  BY <1>1 DEF Bare
<1> QED
  BY <1>2, RequestPolicies, AdmittedProgram DEF Programs

\* The command, classified: what the order of the checks comes to.
LEMMA CommandAdmitted ==
  ASSUME NEW W, NEW command \in Seq(W), NEW executionProfile, NEW policy
  PROVE  classifyCommand(command, executionProfile, policy) = "POLICY_ALLOWED" <=>
           /\ ~detectShellWrappers(command) /\ ~detectDangerousPatterns(command)
           /\ \/ TrustedAlias(command, executionProfile, policy)
              \/ \A i \in DOMAIN splitShellChains(command) :
                   classifySingleCommand(splitShellChains(command)[i], policy) = "POLICY_ALLOWED"
<1>1. PICK parts : parts = splitShellChains(command)
  OBVIOUS
<1>2. PICK denied : denied = {i \in DOMAIN parts : classifySingleCommand(parts[i], policy) # "POLICY_ALLOWED"}
  OBVIOUS
<1>3. classifyCommand(command, executionProfile, policy) =
        IF detectShellWrappers(command) \/ detectDangerousPatterns(command)
          THEN "COMMAND_NOT_ALLOWED"
        ELSE IF TrustedAlias(command, executionProfile, policy) \/ denied = {}
          THEN "POLICY_ALLOWED"
        ELSE classifySingleCommand(parts[Min(denied)], policy)
  BY <1>1, <1>2, Zenon DEF classifyCommand
<1>4. DOMAIN parts \subseteq Nat
  <2>1. DOMAIN parts = Firsts(ChainOperators, command)
    BY <1>1, PartsShape DEF splitShellChains
  <2> QED
    BY <2>1 DEF Firsts, Places
<1>5. denied # {} => Min(denied) \in denied
  <2>1. denied \subseteq Nat
    BY <1>2, <1>4
  <2> QED
    BY <2>1, MinExists
<1>6. denied # {} => classifySingleCommand(parts[Min(denied)], policy) # "POLICY_ALLOWED"
  BY <1>2, <1>5
<1>7. denied = {} <=> \A i \in DOMAIN parts : classifySingleCommand(parts[i], policy) = "POLICY_ALLOWED"
  BY <1>2
<1> QED
  BY <1>1, <1>3, <1>6, <1>7

LEMMA OperatorText == \A w \in ChainOperators : w.t \in {"&&", "||", ";", "|"}
<1> TAKE w \in ChainOperators
<1>1. PICK op \in {"&&", "||", ";", "|"} : w = Bare(op)
  BY Zenon DEF ChainOperators
<1> QED
  BY <1>1 DEF Bare

\* An alias is one word, a chain has an operator.
LEMMA ChainNoAlias ==
  ASSUME NEW base \in Policies, NEW policy, policy = WithAliases(base), NEW executionProfile,
         NEW W, NEW command \in Seq(W), NEW k \in DOMAIN command, command[k] \in ChainOperators
  PROVE  ~TrustedAlias(command, executionProfile, policy)
<1> SUFFICES ASSUME TrustedAlias(command, executionProfile, policy) PROVE FALSE
  OBVIOUS
<1>1. command = <<Bare("agent")>> \/ command = <<Bare("reviewer")>>
  BY RequestPolicies DEF TrustedAlias
<1>2. command[k].t \in {"agent", "reviewer"}
  BY <1>1 DEF Bare
<1> QED
  BY <1>2, OperatorText

\* A part, evaluated as a command of its own, is itself.
LEMMA PartAlone ==
  ASSUME NEW policy, NEW executionProfile, NEW W, NEW part \in Seq(W), part # <<>>,
         Range(part) \cap ChainOperators = {}, ~TrustedAlias(part, executionProfile, policy)
  PROVE  classifyCommand(part, executionProfile, policy) = "POLICY_ALLOWED" <=>
           classifySingleCommand(part, policy) = "POLICY_ALLOWED"
<1>1. splitShellChains(part) = [first \in {1} |-> part]
  BY OnePart DEF splitShellChains
<1>2. DOMAIN splitShellChains(part) = {1} /\ splitShellChains(part)[1] = part
  BY <1>1
<1>3. classifyCommand(part, executionProfile, policy) = "POLICY_ALLOWED" <=>
        /\ ~detectShellWrappers(part) /\ ~detectDangerousPatterns(part)
        /\ classifySingleCommand(part, policy) = "POLICY_ALLOWED"
  BY <1>2, CommandAdmitted
<1>4. classifySingleCommand(part, policy) = "POLICY_ALLOWED" =>
        ~detectShellWrappers(part) /\ ~detectDangerousPatterns(part)
  BY DEF classifySingleCommand
<1> QED
  BY <1>3, <1>4

\* A chain of any number of parts is admitted exactly when each part would be
\* admitted alone, and none as an alias: no operator hides a command, no part is
\* skipped, and what is dangerous in the whole is dangerous in some part
\* (splitShellChains, classifyCommand, classifySingleCommand).
THEOREM ChainAdmitted ==
  ASSUME NEW base \in Policies, NEW policy, policy = WithAliases(base), NEW executionProfile,
         NEW W, NEW command \in Seq(W), NEW k \in DOMAIN command, command[k] \in ChainOperators
  PROVE  classifyCommand(command, executionProfile, policy) = "POLICY_ALLOWED" <=>
           \A i \in DOMAIN splitShellChains(command) :
             /\ ~TrustedAlias(splitShellChains(command)[i], executionProfile, policy)
             /\ classifyCommand(splitShellChains(command)[i], executionProfile, policy) = "POLICY_ALLOWED"
<1>1. PICK parts : parts = splitShellChains(command)
  OBVIOUS
<1>2. DOMAIN parts = Firsts(ChainOperators, command)
  BY <1>1, PartsShape DEF splitShellChains
<1>3. \A i \in DOMAIN parts :
        /\ parts[i] \in Seq(W) /\ parts[i] # <<>> /\ parts[i][1] = command[i]
        /\ Range(parts[i]) \cap ChainOperators = {}
  BY <1>1, <1>2, PartOfCommand DEF splitShellChains
<1>4. \A i \in DOMAIN parts :
        (/\ ~TrustedAlias(parts[i], executionProfile, policy)
         /\ classifyCommand(parts[i], executionProfile, policy) = "POLICY_ALLOWED") <=>
        classifySingleCommand(parts[i], policy) = "POLICY_ALLOWED"
  <2> TAKE i \in DOMAIN parts
  <2>1. PICK part : part = parts[i]
    OBVIOUS
  <2>2. part \in Seq(W) /\ part # <<>> /\ Range(part) \cap ChainOperators = {}
    BY <1>3, <2>1
  <2>3. TrustedAlias(part, executionProfile, policy) => classifySingleCommand(part, policy) # "POLICY_ALLOWED"
    BY <2>2, AliasNotListed
  <2>4. ~TrustedAlias(part, executionProfile, policy) =>
          (classifyCommand(part, executionProfile, policy) = "POLICY_ALLOWED" <=>
             classifySingleCommand(part, policy) = "POLICY_ALLOWED")
    BY <2>2, PartAlone
  <2> QED
    BY <2>1, <2>3, <2>4
<1>5. classifyCommand(command, executionProfile, policy) = "POLICY_ALLOWED" <=>
        /\ ~detectShellWrappers(command) /\ ~detectDangerousPatterns(command)
        /\ \A i \in DOMAIN parts : classifySingleCommand(parts[i], policy) = "POLICY_ALLOWED"
  BY <1>1, CommandAdmitted, ChainNoAlias
<1>6. ASSUME detectShellWrappers(command)
      PROVE  \E i \in DOMAIN parts : classifySingleCommand(parts[i], policy) # "POLICY_ALLOWED"
  <2>1. 1 \in DOMAIN command /\ command[1].t \in {"sh", "bash"}
    BY <1>6 DEF detectShellWrappers, Bare
  <2>2. 1 \in DOMAIN parts
    <3>1. 1 \in Places(ChainOperators, command) /\ 0 \notin Places(ChainOperators, command)
      <4>1. command[1] \notin ChainOperators
        BY <2>1, OperatorText
      <4>2. 0 \notin DOMAIN command
        OBVIOUS
      <4> QED
        BY <2>1, <4>1, <4>2 DEF Places
    <3> QED
      BY <1>2, <3>1 DEF Firsts
  <2>3. parts[1] \in Seq(W) /\ parts[1] # <<>> /\ parts[1][1].t \in {"sh", "bash"}
    BY <1>3, <2>1, <2>2
  <2>4. classifySingleCommand(parts[1], policy) # "POLICY_ALLOWED"
    BY <2>3, RequestPolicies, AdmittedProgram DEF Programs
  <2> QED
    BY <2>2, <2>4
<1>7. ASSUME detectDangerousPatterns(command)
      PROVE  \E i \in DOMAIN parts : classifySingleCommand(parts[i], policy) # "POLICY_ALLOWED"
  <2>1. PICK j \in DOMAIN command : command[j] = Bare(">") \/ command[j].t \in {"$(x)", "&"}
    BY <1>7 DEF detectDangerousPatterns
  <2>2. j \in Places(ChainOperators, command)
    <3>1. command[j].t \in {">", "$(x)", "&"}
      BY <2>1 DEF Bare
    <3>2. command[j] \notin ChainOperators
      BY <3>1, OperatorText
    <3> QED
      BY <3>2 DEF Places
  <2>3. PICK i \in DOMAIN parts : command[j] \in Range(parts[i])
    BY <1>1, <1>2, <2>2, WordInPart DEF splitShellChains
  <2>4. detectDangerousPatterns(parts[i])
    BY <2>1, <2>3 DEF detectDangerousPatterns, Range
  <2>5. classifySingleCommand(parts[i], policy) # "POLICY_ALLOWED"
    BY <2>4 DEF classifySingleCommand
  <2> QED
    BY <2>5
<1> QED
  BY <1>1, <1>4, <1>5, <1>6, <1>7

\* What CommandInput asks, taken apart.
LEMMA CommandRequested ==
  ASSUME CommandInput
  PROVE  /\ input.requestedAction = "RUN_COMMAND" /\ input.executionProfile \in ExecutionProfile
         /\ \E base \in Policies : input.policy = WithAliases(base)
         /\ \E p \in Parts, op \in ChainOperators, q \in Parts \cup {<<>>} :
              input.requestedCommand = Joined(p, op, q)
         /\ \A command : LET other == [input EXCEPT !.requestedCommand = command]
                         IN  /\ other.requestedAction = "RUN_COMMAND" /\ other.policy = input.policy
                             /\ other.executionProfile = input.executionProfile
                             /\ other.requestedCommand = command
<1>1. PICK executionProfile \in ExecutionProfile, p \in Parts, op \in ChainOperators,
           q \in Parts \cup {<<>>}, base \in Policies :
        input = CommandRequest(executionProfile, Joined(p, op, q), base)
  BY DEF CommandInput
<1>2. PICK policy, joined : policy = WithAliases(base) /\ joined = Joined(p, op, q)
  OBVIOUS
<1>3. input = [executionProfile |-> executionProfile, requestedAction |-> "RUN_COMMAND",
               requestedPath |-> ABSENT, requestedCommand |-> joined, homeDir |-> ABSENT,
               host |-> [links |-> <<>>, there |-> {}], releaseGateStatus |-> ABSENT, policy |-> policy]
  BY <1>1, <1>2 DEF CommandRequest, BaseContext
<1> QED
  BY <1>2, <1>3

\* The decision on a command is classifyCommand's.
LEMMA CommandDecision ==
  ASSUME NEW ctx, ctx.requestedAction = "RUN_COMMAND", ctx.policy # ABSENT,
         ctx.executionProfile \in ExecutionProfile, ctx.requestedCommand # ABSENT
  PROVE  evaluatePolicy(ctx) = classifyCommand(ctx.requestedCommand, ctx.executionProfile, ctx.policy)
BY DEF evaluatePolicy, evaluateCommandAction, FileActions

\* The commands of the requests.
LEMMA JoinedCommand ==
  ASSUME NEW p \in Parts, NEW op \in ChainOperators, NEW q \in Parts \cup {<<>>},
         NEW command, command = Joined(p, op, q)
  PROVE  /\ command \in Seq(Words)
         /\ \A k \in DOMAIN command : command[k] \in ChainOperators =>
              Cardinality(DOMAIN splitShellChains(command)) = 2
<1>1. op \in Words /\ ChainOperators \subseteq Words
  BY DEF Words
<1>2. p \in Seq(Words) /\ p # <<>> /\ Range(p) \cap ChainOperators = {}
  BY CommandAssumption
<1>3. CASE q = <<>>
  <2>1. command = p
    BY <1>3 DEF Joined
  <2> QED
    BY <1>2, <2>1 DEF Range
<1>4. CASE q # <<>>
  <2>1. command = p \o <<op>> \o q
    BY <1>4 DEF Joined
  <2>2. q \in Seq(Words) /\ Range(q) \cap ChainOperators = {}
    BY <1>4, CommandAssumption
  <2>3. command \in Seq(Words)
    BY <1>1, <1>2, <2>1, <2>2
  <2>4. Cardinality(DOMAIN splitShellChains(command)) = 2
    BY <1>1, <1>2, <1>4, <2>1, <2>2, TwoParts, SMTT(30) DEF splitShellChains
  <2> QED
    BY <2>3, <2>4
<1> QED
  BY <1>3, <1>4

\* A chain is admitted exactly when each of its two parts would be admitted
\* alone, and neither by being an agent's alias, for every set of commands.
THEOREM ChainsAreTheirParts == DecisionsSpec => []ChainIsItsParts
<1>1. DecisionsInv => ChainIsItsParts
  <2> DEFINE words == {i \in DOMAIN input.requestedCommand : input.requestedCommand[i] \in ChainOperators}
  <2> SUFFICES ASSUME DecisionsInv, kind = "command", outcome # "undecided", words # {}
      PROVE  LET parts == splitShellChains(input.requestedCommand)
             IN  /\ Cardinality(DOMAIN parts) = 2
                 /\ Admitted <=> \A i \in DOMAIN parts :
                      /\ ~IsAlias(parts[i])
                      /\ Decision([input EXCEPT !.requestedCommand = parts[i]]) = "POLICY_ALLOWED"
    BY DEF ChainIsItsParts
  <2>1. CommandInput /\ outcome = evaluatePolicy(input)
    BY DEF DecisionsInv, Asked, Answer
  <2>2. PICK command, parts : command = input.requestedCommand /\ parts = splitShellChains(command)
    OBVIOUS
  <2>3. PICK k \in DOMAIN command : command[k] \in ChainOperators
    BY <2>2
  <2>4. PICK policy : policy = input.policy /\ \E base \in Policies : policy = WithAliases(base)
    BY <2>1, CommandRequested
  <2>5. command \in Seq(Words) /\ Cardinality(DOMAIN parts) = 2
    BY <2>1, <2>2, <2>3, CommandRequested, JoinedCommand
  <2>6. policy # ABSENT
    BY <2>4, RequestPolicies
  <2>7. evaluatePolicy(input) = classifyCommand(command, input.executionProfile, policy)
    BY <2>1, <2>2, <2>4, <2>5, <2>6, CommandRequested, CommandDecision, CommandAssumption
  <2>8. ASSUME NEW i \in DOMAIN parts
        PROVE  /\ IsAlias(parts[i]) <=> TrustedAlias(parts[i], input.executionProfile, policy)
               /\ Decision([input EXCEPT !.requestedCommand = parts[i]]) =
                    classifyCommand(parts[i], input.executionProfile, policy)
    <3>1. IsAlias(parts[i]) <=> TrustedAlias(parts[i], input.executionProfile, policy)
      BY <2>4 DEF IsAlias
    <3>2. PICK part : part = parts[i]
      OBVIOUS
    <3>3. part \in Seq(Words)
      <4>1. i \in Firsts(ChainOperators, command)
        BY <2>2, PartsShape DEF splitShellChains
      <4> QED
        BY <2>2, <2>5, <3>2, <4>1, PartOfCommand DEF splitShellChains
    <3>4. PICK other : other = [input EXCEPT !.requestedCommand = part]
      OBVIOUS
    <3>5. /\ other.requestedAction = "RUN_COMMAND" /\ other.policy = policy
          /\ other.executionProfile = input.executionProfile /\ other.requestedCommand = part
          /\ other.executionProfile \in ExecutionProfile
      BY <2>1, <2>4, <3>4, CommandRequested
    <3>6. evaluatePolicy(other) = classifyCommand(part, input.executionProfile, policy)
      BY <2>6, <3>3, <3>5, CommandDecision, CommandAssumption
    <3> QED
      BY <3>1, <3>2, <3>4, <3>6 DEF Decision
  <2>9. Admitted <=> classifyCommand(command, input.executionProfile, policy) = "POLICY_ALLOWED"
    BY <2>1, <2>7 DEF Admitted
  <2>10. classifyCommand(command, input.executionProfile, policy) = "POLICY_ALLOWED" <=>
           \A i \in DOMAIN parts :
             /\ ~TrustedAlias(parts[i], input.executionProfile, policy)
             /\ classifyCommand(parts[i], input.executionProfile, policy) = "POLICY_ALLOWED"
    <3>1. PICK base \in Policies : policy = WithAliases(base)
      BY <2>4
    <3> QED
      BY <2>2, <2>3, <2>5, <3>1, ChainAdmitted
  <2> QED
    BY <2>2, <2>5, <2>8, <2>9, <2>10
<1> QED
  BY <1>1, DecisionsInvariance, PTL

-----------------------------------------------------------------------------
(* A walk along a sequence.                                                *)

\* g is a walk along s from b, f the step of each member.
Walk(g, f, b, s) == g[0] = b /\ \A n \in 1..Len(s) : g[n] = f[g[n - 1]][s[n]]

\* A step taken for each member of a sequence makes a walk.
LEMMA WalkExists ==
  ASSUME NEW P, NEW S, NEW f \in [P -> [S -> P]], NEW b \in P, NEW s \in Seq(S)
  PROVE  \E g \in [0..Len(s) -> P] : Walk(g, f, b, s)
<1> DEFINE Run(g, k) == g[0] = b /\ \A n \in 1..k : g[n] = f[g[n - 1]][s[n]]
<1> DEFINE Good == {k \in Nat : k \leq Len(s) => \E g \in [0..Len(s) -> P] : Run(g, k)}
<1>1. Len(s) \in Nat
  OBVIOUS
<1>2. 0 \in Good
  <2> DEFINE g == [n \in 0..Len(s) |-> b]
  <2>1. g \in [0..Len(s) -> P] /\ Run(g, 0)
    BY <1>1
  <2> QED
    BY <2>1
<1>3. ASSUME NEW k \in Nat, k \in Good PROVE k + 1 \in Good
  <2>0. k + 1 \in Nat
    OBVIOUS
  <2> SUFFICES ASSUME k + 1 \leq Len(s) PROVE \E g \in [0..Len(s) -> P] : Run(g, k + 1)
    BY <2>0, Zenon
  <2>1. PICK g \in [0..Len(s) -> P] : Run(g, k)
    BY <1>1, <1>3
  <2>2. PICK h : h = [g EXCEPT ![k + 1] = f[g[k]][s[k + 1]]]
    OBVIOUS
  <2>3. s[k + 1] \in S /\ g[k] \in P
    <3>1. k + 1 \in 1..Len(s) /\ k \in 0..Len(s)
      BY <1>1
    <3>2. s[k + 1] \in S
      BY <3>1
    <3>3. g[k] \in P
      BY <2>1, <3>1
    <3> QED
      BY <3>2, <3>3
  <2>4. f[g[k]][s[k + 1]] \in P
    BY <2>3
  <2>5. h \in [0..Len(s) -> P]
    BY <2>1, <2>2, <2>4
  <2>6. /\ h[k + 1] = f[g[k]][s[k + 1]]
        /\ \A n \in 0..k : h[n] = g[n]
    BY <1>1, <2>1, <2>2
  <2>7. Run(h, k + 1)
    <3>1. h[0] = b
      BY <2>1, <2>6
    <3>2. ASSUME NEW n \in 1..(k + 1) PROVE h[n] = f[h[n - 1]][s[n]]
      <4>1. CASE n = k + 1
        <5>1. n - 1 = k /\ k \in 0..k
          BY <4>1
        <5>2. h[n - 1] = g[k]
          BY <2>6, <5>1
        <5> QED
          BY <2>6, <4>1, <5>2
      <4>2. CASE n \in 1..k
        <5>1. n \in 0..k /\ n - 1 \in 0..k
          BY <4>2
        <5> QED
          BY <2>1, <2>6, <4>2, <5>1
      <4> QED
        BY <4>1, <4>2
    <3> QED
      BY <3>1, <3>2
  <2> QED
    BY <2>5, <2>7
<1>4. Nat \subseteq Good
  <2> HIDE DEF Good
  <2> QED
    BY <1>2, <1>3, SetInduction
<1>5. Len(s) \in Good
  BY <1>1, <1>4
<1> QED
  BY <1>1, <1>5 DEF Walk

\* What holds at the start and is kept by each step holds along the walk.
LEMMA WalkInduction ==
  ASSUME NEW m \in Nat, NEW T, 0 \in T, \A n \in 1..m : n - 1 \in T => n \in T
  PROVE  0..m \subseteq T
<1> DEFINE G == {k \in Nat : k \leq m => k \in T}
<1>1. 0 \in G
  OBVIOUS
<1>2. ASSUME NEW k \in Nat, k \in G PROVE k + 1 \in G
  BY <1>2
<1>3. Nat \subseteq G
  <2> HIDE DEF G
  <2> QED
    BY <1>1, <1>2, SetInduction
<1> QED
  BY <1>3

-----------------------------------------------------------------------------
(* Paths.                                                                  *)

\* resolvePath walks the segments.
Resolving(g, root, path) ==
  g = [n \in 0..Len(path.segs) |->
         IF n = 0 THEN IF path.abs THEN <<>> ELSE root ELSE Entered(g[n - 1], path.segs[n])]

LEMMA EnteredTyped ==
  ASSUME NEW N, N \cap {".", ".."} = {}, NEW p \in Seq(N), NEW seg \in N \cup {".", ".."}
  PROVE  Entered(p, seg) \in Seq(N)
<1>1. CASE seg = "."
  BY <1>1 DEF Entered
<1>2. CASE seg = ".."
  <2>1. p # <<>> => SubSeq(p, 1, Len(p) - 1) \in Seq(N)
    BY SubSeqProperties
  <2> QED
    BY <1>2, <2>1 DEF Entered, Front
<1>3. CASE seg \in N
  BY <1>3 DEF Entered
<1> QED
  BY <1>1, <1>2, <1>3

LEMMA ResolvingExists ==
  ASSUME NEW N, N \cap {".", ".."} = {}, NEW root \in Seq(N), NEW path,
         path.segs \in Seq(N \cup {".", ".."})
  PROVE  \E g : Resolving(g, root, path) /\ resolvePath(root, path) = g[Len(path.segs)]
<1> DEFINE P == Seq(N)
           S == N \cup {".", ".."}
           b == IF path.abs THEN <<>> ELSE root
<1>0. PICK segs : segs = path.segs /\ segs \in Seq(S)
  OBVIOUS
<1>1. PICK f : f \in [P -> [S -> P]] /\ \A p \in P, seg \in S : f[p][seg] = Entered(p, seg)
  <2> DEFINE F == [p \in P |-> [seg \in S |-> Entered(p, seg)]]
  <2>1. F \in [P -> [S -> P]]
    BY EnteredTyped
  <2>2. \A p \in P, seg \in S : F[p][seg] = Entered(p, seg)
    OBVIOUS
  <2> HIDE DEF F
  <2> QED
    BY <2>1, <2>2
<1>2. b \in P
  OBVIOUS
<1>3. PICK g \in [0..Len(segs) -> P] : Walk(g, f, b, segs)
  <2> HIDE DEF b, P, S
  <2> QED
    BY <1>1, <1>2, <1>0, WalkExists
<1>4. Len(segs) \in Nat
  BY <1>0
<1>5. ASSUME NEW n \in 1..Len(segs) PROVE g[n] = Entered(g[n - 1], segs[n])
  <2>1. g[n - 1] \in P
    <3>1. n - 1 \in 0..Len(segs)
      BY <1>4
    <3> QED
      BY <1>3, <3>1
  <2>2. segs[n] \in S
    BY <1>0
  <2> QED
    BY <1>1, <1>3, <2>1, <2>2 DEF Walk
<1>6. Resolving(g, root, path)
  <2>1. g = [n \in 0..Len(path.segs) |-> g[n]]
    BY <1>0, <1>3
  <2>2. ASSUME NEW n \in 0..Len(path.segs)
        PROVE  g[n] = IF n = 0 THEN IF path.abs THEN <<>> ELSE root ELSE Entered(g[n - 1], path.segs[n])
    BY <1>0, <1>3, <1>4, <1>5 DEF Walk
  <2> QED
    BY <2>1, <2>2 DEF Resolving
<1> QED
  BY <1>6 DEF Resolving, resolvePath

\* What path.resolve returns has no dots left.
LEMMA ResolvedTyped ==
  ASSUME NEW N, N \cap {".", ".."} = {}, NEW root \in Seq(N), NEW path,
         path.segs \in Seq(N \cup {".", ".."})
  PROVE  resolvePath(root, path) \in Seq(N)
<1>1. PICK g : Resolving(g, root, path) /\ resolvePath(root, path) = g[Len(path.segs)]
  BY ResolvingExists
<1>2. PICK segs : segs = path.segs /\ segs \in Seq(N \cup {".", ".."})
  OBVIOUS
<1>3. Len(segs) \in Nat
  BY <1>2
<1> DEFINE T == {n \in 0..Len(segs) : g[n] \in Seq(N)}
<1>4. g[0] \in Seq(N) /\ \A n \in 1..Len(segs) : g[n] = Entered(g[n - 1], segs[n])
  BY <1>1, <1>2, <1>3 DEF Resolving
<1>5. ASSUME NEW n \in 1..Len(segs), n - 1 \in T PROVE n \in T
  <2>1. segs[n] \in N \cup {".", ".."}
    BY <1>2
  <2> QED
    BY <1>3, <1>4, <1>5, <2>1, EnteredTyped
<1>6. 0 \in T
  BY <1>3, <1>4
<1>7. 0..Len(segs) \subseteq T
  <2> HIDE DEF T
  <2> QED
    BY <1>3, <1>5, <1>6, WalkInduction
<1> QED
  BY <1>1, <1>2, <1>3, <1>7

\* The walk along names alone is the path itself, as far as it got.
LEMMA PrefixNext ==
  ASSUME NEW N, NEW s \in Seq(N), NEW n \in 1..Len(s)
  PROVE  Append(SubSeq(s, 1, n - 1), s[n]) = SubSeq(s, 1, n)
<1>1. Len(s) \in Nat /\ n \in Nat /\ n - 1 \in Nat
  OBVIOUS
<1>2. PICK p : p = SubSeq(s, 1, n - 1)
  OBVIOUS
<1>3. p \in Seq(N) /\ Len(p) = n - 1 /\ \A i \in 1..(n - 1) : p[i] = s[i]
  BY <1>1, <1>2, SubSeqProperties
<1>4. PICK q : q = SubSeq(s, 1, n)
  OBVIOUS
<1>5. q \in Seq(N) /\ Len(q) = n /\ \A i \in 1..n : q[i] = s[i]
  BY <1>1, <1>4, SubSeqProperties
<1>6. PICK r : r = Append(p, s[n])
  OBVIOUS
<1>7. s[n] \in N
  OBVIOUS
<1>8. r \in Seq(N) /\ Len(r) = n /\ r[n] = s[n] /\ \A i \in 1..(n - 1) : r[i] = p[i]
  BY <1>1, <1>3, <1>6, <1>7
<1>9. \A i \in 1..n : r[i] = q[i]
  BY <1>1, <1>3, <1>5, <1>8
<1>10. r = q
  BY <1>5, <1>8, <1>9
<1> QED
  BY <1>2, <1>4, <1>6, <1>10

LEMMA WholePrefix ==
  ASSUME NEW N, NEW s \in Seq(N)
  PROVE  SubSeq(s, 1, Len(s)) = s /\ SubSeq(s, 1, 0) = <<>>
BY SubSeqProperties

\* path.resolve leaves an absolute path of names as it is.
LEMMA ResolveOwnName ==
  ASSUME NEW N, N \cap {".", ".."} = {}, NEW root \in Seq(N), NEW file \in Seq(N)
  PROVE  resolvePath(root, [abs |-> TRUE, segs |-> file]) = file
<1>1. PICK path : path = [abs |-> TRUE, segs |-> file]
  OBVIOUS
<1>2. path.segs = file /\ path.abs /\ path.segs \in Seq(N \cup {".", ".."})
  BY <1>1
<1>3. PICK g : Resolving(g, root, path) /\ resolvePath(root, path) = g[Len(path.segs)]
  BY <1>2, ResolvingExists
<1>4. Len(file) \in Nat
  OBVIOUS
<1>5. g[0] = <<>> /\ \A n \in 1..Len(file) : g[n] = Entered(g[n - 1], file[n])
  BY <1>2, <1>3, <1>4 DEF Resolving
<1> DEFINE T == {n \in 0..Len(file) : g[n] = SubSeq(file, 1, n)}
<1>6. 0 \in T
  <2>1. SubSeq(file, 1, 0) = <<>>
    BY WholePrefix
  <2>2. 0 \in 0..Len(file) /\ g[0] = SubSeq(file, 1, 0)
    BY <1>4, <1>5, <2>1
  <2> QED
    BY <2>2, Zenon
<1>7. ASSUME NEW n \in 1..Len(file), n - 1 \in T PROVE n \in T
  <2>1. file[n] \in N /\ file[n] # "." /\ file[n] # ".."
    OBVIOUS
  <2>2. g[n] = Append(g[n - 1], file[n])
    BY <1>5, <2>1 DEF Entered
  <2>3. g[n - 1] = SubSeq(file, 1, n - 1)
    BY <1>7
  <2>4. Append(SubSeq(file, 1, n - 1), file[n]) = SubSeq(file, 1, n)
    BY PrefixNext
  <2>5. n \in 0..Len(file) /\ g[n] = SubSeq(file, 1, n)
    BY <1>4, <2>2, <2>3, <2>4
  <2> QED
    BY <2>5, Zenon
<1>8. 0..Len(file) \subseteq T
  <2> HIDE DEF T
  <2> QED
    BY <1>4, <1>6, <1>7, WalkInduction
<1>9. g[Len(file)] = SubSeq(file, 1, Len(file))
  BY <1>4, <1>8
<1> QED
  BY <1>1, <1>2, <1>3, <1>9, WholePrefix

\* canonicalizePath walks the segments of the path.
Following(g, host, path) ==
  g = [n \in 0..Len(path) |-> IF n = 0 THEN <<>> ELSE Followed(host, Append(g[n - 1], path[n]))]

\* The ends of the links are paths, and the ends of those that lead somewhere are
\* canonical.
Targeted(host, N) ==
  \A p \in DOMAIN host.links :
    host.links[p] \in Seq(N) /\ (p \in Live(host) => Canonical(host, host.links[p]))

LEMMA FollowedTyped ==
  ASSUME NEW N, NEW host, Targeted(host, N), NEW p \in Seq(N), NEW seg \in N
  PROVE  Followed(host, Append(p, seg)) \in Seq(N)
<1>1. PICK q : q = Append(p, seg) /\ q \in Seq(N)
  <2>1. Append(p, seg) \in Seq(N)
    OBVIOUS
  <2> QED
    BY <2>1, Zenon
<1>2. Followed(host, q) \in Seq(N)
  BY <1>1 DEF Followed, Targeted, Live, existsSync
<1> QED
  BY <1>1, <1>2

LEMMA FollowingExists ==
  ASSUME NEW N, NEW host, Targeted(host, N), NEW path \in Seq(N)
  PROVE  \E g : Following(g, host, path) /\ canonicalizePath(host, path) = g[Len(path)]
<1> DEFINE P == Seq(N)
<1>1. PICK f : f \in [P -> [N -> P]] /\ \A p \in P, seg \in N : f[p][seg] = Followed(host, Append(p, seg))
  <2> DEFINE F == [p \in P |-> [seg \in N |-> Followed(host, Append(p, seg))]]
  <2>1. F \in [P -> [N -> P]]
    BY FollowedTyped
  <2>2. \A p \in P, seg \in N : F[p][seg] = Followed(host, Append(p, seg))
    OBVIOUS
  <2> HIDE DEF F
  <2> QED
    BY <2>1, <2>2
<1>2. PICK b : b = <<>> /\ b \in P
  <2>1. <<>> \in P
    OBVIOUS
  <2> QED
    BY <2>1, Zenon
<1>3. PICK g \in [0..Len(path) -> P] : Walk(g, f, b, path)
  <2> HIDE DEF P
  <2> QED
    BY <1>1, <1>2, WalkExists
<1>4. Len(path) \in Nat
  OBVIOUS
<1>5. ASSUME NEW n \in 1..Len(path) PROVE g[n] = Followed(host, Append(g[n - 1], path[n]))
  <2>1. g[n - 1] \in P
    <3>1. n - 1 \in 0..Len(path)
      BY <1>4
    <3> QED
      BY <1>3, <3>1
  <2>2. path[n] \in N
    OBVIOUS
  <2> QED
    BY <1>1, <1>3, <2>1, <2>2 DEF Walk
<1>6. Following(g, host, path)
  <2>1. g = [n \in 0..Len(path) |-> g[n]]
    BY <1>3
  <2>2. ASSUME NEW n \in 0..Len(path)
        PROVE  g[n] = IF n = 0 THEN <<>> ELSE Followed(host, Append(g[n - 1], path[n]))
    BY <1>2, <1>3, <1>4, <1>5 DEF Walk
  <2> QED
    BY <2>1, <2>2 DEF Following
<1> QED
  BY <1>6 DEF Following, canonicalizePath

\* A step from a canonical path leads to one.
LEMMA FollowedCanonical ==
  ASSUME NEW N, NEW host, Targeted(host, N), NEW p \in Seq(N), Canonical(host, p), NEW seg \in N
  PROVE  Canonical(host, Followed(host, Append(p, seg)))
<1>1. PICK q : q = Append(p, seg) /\ q \in Seq(N)
  <2>1. Append(p, seg) \in Seq(N)
    OBVIOUS
  <2> QED
    BY <2>1, Zenon
<1>2. CASE q \in Live(host)
  BY <1>1, <1>2 DEF Followed, Targeted, Live, existsSync
<1>3. CASE q \notin Live(host)
  <2>1. Followed(host, q) = q
    BY <1>3 DEF Followed, Live, existsSync
  <2>2. Len(q) = Len(p) + 1 /\ Len(p) \in Nat
    BY <1>1
  <2>3. ASSUME NEW n \in 1..Len(q) PROVE SubSeq(q, 1, n) \notin Live(host)
    <3>1. CASE n = Len(q)
      BY <1>1, <1>3, <3>1, WholePrefix
    <3>2. CASE n \in 1..Len(p)
      <4>1. SubSeq(q, 1, n) = SubSeq(p, 1, n)
        <5>1. \A i \in 1..n : q[i] = p[i]
          BY <1>1, <3>2
        <5>2. PICK u, v : u = SubSeq(q, 1, n) /\ v = SubSeq(p, 1, n)
          OBVIOUS
        <5>3. u \in Seq(N) /\ Len(u) = n /\ \A i \in 1..n : u[i] = q[i]
          BY <1>1, <2>2, <5>2, SubSeqProperties
        <5>4. v \in Seq(N) /\ Len(v) = n /\ \A i \in 1..n : v[i] = p[i]
          BY <2>2, <3>2, <5>2, SubSeqProperties
        <5>5. u = v
          BY <5>1, <5>3, <5>4
        <5> QED
          BY <5>2, <5>5
      <4> QED
        BY <3>2, <4>1 DEF Canonical
    <3> QED
      BY <2>2, <3>1, <3>2
  <2> QED
    BY <1>1, <2>1, <2>3 DEF Canonical
<1> QED
  BY <1>2, <1>3

\* What canonicalizePath returns is canonical.
LEMMA CanonicalizedPath ==
  ASSUME NEW N, NEW host, Targeted(host, N), NEW path \in Seq(N)
  PROVE  canonicalizePath(host, path) \in Seq(N) /\ Canonical(host, canonicalizePath(host, path))
<1>1. PICK g : Following(g, host, path) /\ canonicalizePath(host, path) = g[Len(path)]
  BY FollowingExists
<1>2. Len(path) \in Nat
  OBVIOUS
<1>3. g[0] = <<>> /\ \A n \in 1..Len(path) : g[n] = Followed(host, Append(g[n - 1], path[n]))
  BY <1>1, <1>2 DEF Following
<1> DEFINE T == {n \in 0..Len(path) : g[n] \in Seq(N) /\ Canonical(host, g[n])}
<1>4. 0 \in T
  <2>1. Canonical(host, <<>>)
    BY DEF Canonical
  <2>2. <<>> \in Seq(N)
    OBVIOUS
  <2>3. 0 \in 0..Len(path) /\ g[0] \in Seq(N) /\ Canonical(host, g[0])
    BY <1>2, <1>3, <2>1, <2>2
  <2> QED
    BY <2>3, Zenon
<1>5. ASSUME NEW n \in 1..Len(path), n - 1 \in T PROVE n \in T
  <2>1. path[n] \in N
    OBVIOUS
  <2>2. g[n - 1] \in Seq(N) /\ Canonical(host, g[n - 1])
    BY <1>5
  <2>3. n \in 0..Len(path)
    BY <1>2
  <2>4. g[n] = Followed(host, Append(g[n - 1], path[n]))
    BY <1>3, Zenon
  <2>5. Followed(host, Append(g[n - 1], path[n])) \in Seq(N)
    BY <2>1, <2>2, FollowedTyped, Zenon
  <2>6. Canonical(host, Followed(host, Append(g[n - 1], path[n])))
    BY <2>1, <2>2, FollowedCanonical, Zenon
  <2> QED
    BY <2>3, <2>4, <2>5, <2>6, Zenon
<1>6. 0..Len(path) \subseteq T
  <2> HIDE DEF T
  <2> QED
    BY <1>2, <1>4, <1>5, WalkInduction
<1> QED
  BY <1>1, <1>2, <1>6

\* A canonical path is its own canonical path.
LEMMA CanonicalOwnName ==
  ASSUME NEW N, NEW host, Targeted(host, N), NEW path \in Seq(N), Canonical(host, path)
  PROVE  canonicalizePath(host, path) = path
<1>1. PICK g : Following(g, host, path) /\ canonicalizePath(host, path) = g[Len(path)]
  BY FollowingExists
<1>2. Len(path) \in Nat
  OBVIOUS
<1>3. g[0] = <<>> /\ \A n \in 1..Len(path) : g[n] = Followed(host, Append(g[n - 1], path[n]))
  BY <1>1, <1>2 DEF Following
<1> DEFINE T == {n \in 0..Len(path) : g[n] = SubSeq(path, 1, n)}
<1>4. 0 \in T
  <2>1. SubSeq(path, 1, 0) = <<>>
    BY WholePrefix
  <2>2. 0 \in 0..Len(path) /\ g[0] = SubSeq(path, 1, 0)
    BY <1>2, <1>3, <2>1
  <2> QED
    BY <2>2, Zenon
<1>5. ASSUME NEW n \in 1..Len(path), n - 1 \in T PROVE n \in T
  <2>1. g[n - 1] = SubSeq(path, 1, n - 1)
    BY <1>5
  <2>2. Append(SubSeq(path, 1, n - 1), path[n]) = SubSeq(path, 1, n)
    BY PrefixNext
  <2>3. PICK q : q = SubSeq(path, 1, n)
    OBVIOUS
  <2>4. Followed(host, q) = q
    BY <2>3 DEF Canonical, Followed, Live, existsSync
  <2>5. g[n] = Followed(host, Append(g[n - 1], path[n]))
    BY <1>3
  <2>6. g[n] = SubSeq(path, 1, n)
    BY <2>1, <2>2, <2>3, <2>4, <2>5, Zenon
  <2>7. n \in 0..Len(path)
    BY <1>2
  <2> QED
    BY <2>6, <2>7, Zenon
<1>6. 0..Len(path) \subseteq T
  <2> HIDE DEF T
  <2> QED
    BY <1>2, <1>4, <1>5, WalkInduction
<1>7. g[Len(path)] = SubSeq(path, 1, Len(path))
  BY <1>2, <1>6
<1> QED
  BY <1>1, <1>7, WholePrefix

-----------------------------------------------------------------------------
(* The host's own lookup.                                                  *)

\* hostLookup walks the segments of the path, too.
Looking(g, host, path) ==
  g = [n \in 0..Len(path) |-> IF n = 0 THEN <<>> ELSE Looked(host, Append(g[n - 1], path[n]))]

LEMMA LookedTyped ==
  ASSUME NEW N, NEW host, Targeted(host, N), NEW p \in Seq(N), NEW seg \in N
  PROVE  Looked(host, Append(p, seg)) \in Seq(N)
<1>1. PICK q : q = Append(p, seg) /\ q \in Seq(N)
  <2>1. Append(p, seg) \in Seq(N)
    OBVIOUS
  <2> QED
    BY <2>1, Zenon
<1>2. Looked(host, q) \in Seq(N)
  BY <1>1 DEF Looked, Targeted
<1> QED
  BY <1>1, <1>2

LEMMA LookingExists ==
  ASSUME NEW N, NEW host, Targeted(host, N), NEW path \in Seq(N)
  PROVE  \E g :
           /\ hostLookup(host, path) = g[Len(path)]
           /\ g[0] = <<>>
           /\ \A n \in 1..Len(path) : g[n] = Looked(host, Append(g[n - 1], path[n]))
<1> DEFINE P == Seq(N)
<1>1. PICK f : f \in [P -> [N -> P]] /\ \A p \in P, seg \in N : f[p][seg] = Looked(host, Append(p, seg))
  <2> DEFINE F == [p \in P |-> [seg \in N |-> Looked(host, Append(p, seg))]]
  <2>1. F \in [P -> [N -> P]]
    BY LookedTyped
  <2>2. \A p \in P, seg \in N : F[p][seg] = Looked(host, Append(p, seg))
    OBVIOUS
  <2> HIDE DEF F
  <2> QED
    BY <2>1, <2>2
<1>2. PICK b : b = <<>> /\ b \in P
  <2>1. <<>> \in P
    OBVIOUS
  <2> QED
    BY <2>1, Zenon
<1>3. PICK g \in [0..Len(path) -> P] : Walk(g, f, b, path)
  <2> HIDE DEF P
  <2> QED
    BY <1>1, <1>2, WalkExists
<1>4. Len(path) \in Nat
  OBVIOUS
<1>5. ASSUME NEW n \in 1..Len(path) PROVE g[n] = Looked(host, Append(g[n - 1], path[n]))
  <2>1. g[n - 1] \in P
    <3>1. n - 1 \in 0..Len(path)
      BY <1>4
    <3> QED
      BY <1>3, <3>1
  <2>2. path[n] \in N
    OBVIOUS
  <2> QED
    BY <1>1, <1>3, <2>1, <2>2 DEF Walk
<1>6. Looking(g, host, path)
  <2>1. g = [n \in 0..Len(path) |-> g[n]]
    BY <1>3
  <2>2. ASSUME NEW n \in 0..Len(path)
        PROVE  g[n] = IF n = 0 THEN <<>> ELSE Looked(host, Append(g[n - 1], path[n]))
    BY <1>2, <1>3, <1>4, <1>5 DEF Walk
  <2> QED
    BY <2>1, <2>2 DEF Looking
<1>7. PICK h : Looking(h, host, path) /\ hostLookup(host, path) = h[Len(path)]
  BY <1>6 DEF Looking, hostLookup
<1>8. h[0] = <<>> /\ \A n \in 1..Len(path) : h[n] = Looked(host, Append(h[n - 1], path[n]))
  <2>1. \A n \in 0..Len(path) :
          h[n] = IF n = 0 THEN <<>> ELSE Looked(host, Append(h[n - 1], path[n]))
    BY <1>7, Zenon DEF Looking
  <2>2. 0 \in 0..Len(path) /\ \A n \in 1..Len(path) : n \in 0..Len(path) /\ n # 0
    BY <1>4
  <2> QED
    BY <2>1, <2>2, Zenon
<1> QED
  BY <1>7, <1>8

\* A part of the way is the way to that part.
LEMMA LookingPrefix ==
  ASSUME NEW N, NEW host, Targeted(host, N), NEW path \in Seq(N), NEW g,
         g[0] = <<>>, \A i \in 1..Len(path) : g[i] = Looked(host, Append(g[i - 1], path[i])),
         NEW n \in 0..Len(path)
  PROVE  hostLookup(host, SubSeq(path, 1, n)) = g[n]
<1>1. PICK q : q = SubSeq(path, 1, n)
  OBVIOUS
<1>2. Len(path) \in Nat /\ n \in Nat /\ n \leq Len(path)
  OBVIOUS
<1>3. q \in Seq(N) /\ Len(q) = n /\ \A i \in 1..n : q[i] = path[i]
  BY <1>1, <1>2, SubSeqProperties
<1>4. PICK h : /\ hostLookup(host, q) = h[n] /\ h[0] = <<>>
               /\ \A i \in 1..n : h[i] = Looked(host, Append(h[i - 1], q[i]))
  <2>0. q \in Seq(N)
    BY <1>3
  <2>1. \E h : /\ hostLookup(host, q) = h[Len(q)]
               /\ h[0] = <<>>
               /\ \A i \in 1..Len(q) : h[i] = Looked(host, Append(h[i - 1], q[i]))
    BY <2>0, LookingExists, SMTT(30)
  <2>2. Len(q) = n
    BY <1>3
  <2> QED
    BY <2>1, <2>2, Zenon
<1> DEFINE T == {i \in 0..n : h[i] = g[i]}
<1>5. 0 \in T
  BY <1>2, <1>4
<1>6. ASSUME NEW i \in 1..n, i - 1 \in T PROVE i \in T
  <2>1. i \in 1..Len(path) /\ i \in 0..n /\ h[i - 1] = g[i - 1]
    BY <1>2, <1>6
  <2> QED
    BY <1>3, <1>4, <2>1
<1>7. 0..n \subseteq T
  <2> HIDE DEF T
  <2> QED
    BY <1>2, <1>5, <1>6, WalkInduction
<1>8. n \in T
  <2>1. n \in 0..n
    BY <1>2
  <2> QED
    BY <1>7, <2>1
<1> QED
  BY <1>1, <1>4, <1>8

LEMMA LookupTyped ==
  ASSUME NEW N, NEW host, Targeted(host, N), NEW path \in Seq(N)
  PROVE  hostLookup(host, path) \in Seq(N)
<1>1. PICK g : /\ hostLookup(host, path) = g[Len(path)] /\ g[0] = <<>>
               /\ \A n \in 1..Len(path) : g[n] = Looked(host, Append(g[n - 1], path[n]))
  BY LookingExists
<1>2. Len(path) \in Nat
  OBVIOUS
<1> DEFINE T == {n \in 0..Len(path) : g[n] \in Seq(N)}
<1>3. 0 \in T
  <2>1. <<>> \in Seq(N)
    OBVIOUS
  <2>2. 0 \in 0..Len(path) /\ g[0] \in Seq(N)
    BY <1>1, <1>2, <2>1
  <2> QED
    BY <2>2, Zenon
<1>4. ASSUME NEW n \in 1..Len(path), n - 1 \in T PROVE n \in T
  <2>1. path[n] \in N
    OBVIOUS
  <2>2. g[n - 1] \in Seq(N)
    BY <1>4
  <2>3. n \in 0..Len(path) /\ g[n] = Looked(host, Append(g[n - 1], path[n]))
    BY <1>1, <1>2
  <2>4. g[n] \in Seq(N)
    BY <2>1, <2>2, <2>3, LookedTyped
  <2> QED
    BY <2>3, <2>4
<1>5. 0..Len(path) \subseteq T
  <2> HIDE DEF T
  <2> QED
    BY <1>2, <1>3, <1>4, WalkInduction
<1> QED
  BY <1>1, <1>2, <1>5

\* One segment further.
LEMMA EntryNext ==
  ASSUME NEW N, NEW host, Targeted(host, N), NEW path \in Seq(N), NEW n \in 1..Len(path)
  PROVE  /\ Entry(host, SubSeq(path, 1, n)) = Append(hostLookup(host, SubSeq(path, 1, n - 1)), path[n])
         /\ hostLookup(host, SubSeq(path, 1, n)) = Looked(host, Entry(host, SubSeq(path, 1, n)))
         /\ hostLookup(host, SubSeq(path, 1, n - 1)) \in Seq(N)
<1>1. Len(path) \in Nat /\ n \in Nat /\ n - 1 \in Nat /\ n \leq Len(path)
  OBVIOUS
<1>2. PICK q : q = SubSeq(path, 1, n)
  OBVIOUS
<1>3. q \in Seq(N) /\ Len(q) = n /\ \A i \in 1..n : q[i] = path[i]
  BY <1>1, <1>2, SubSeqProperties
<1>4. PICK r : r = SubSeq(path, 1, n - 1)
  OBVIOUS
<1>5. r \in Seq(N) /\ Len(r) = n - 1 /\ \A i \in 1..(n - 1) : r[i] = path[i]
  BY <1>1, <1>4, SubSeqProperties
<1>6. PICK t : t = SubSeq(q, 1, n - 1)
  OBVIOUS
<1>7. t \in Seq(N) /\ Len(t) = n - 1 /\ \A i \in 1..(n - 1) : t[i] = q[i]
  BY <1>1, <1>3, <1>6, SubSeqProperties
<1>8. \A i \in 1..(n - 1) : t[i] = r[i]
  <2>1. \A i \in 1..(n - 1) : i \in 1..n
    BY <1>1
  <2> QED
    BY <1>3, <1>5, <1>7, <2>1, Zenon
<1>9. t = r
  BY <1>5, <1>7, <1>8
<1>10. Front(q) = r
  BY <1>3, <1>6, <1>9 DEF Front
<1>11. Last(q) = path[n]
  BY <1>1, <1>3 DEF Last
<1>12. q # <<>>
  BY <1>1, <1>3
<1>13. Entry(host, q) = Append(hostLookup(host, r), path[n])
  BY <1>10, <1>11, <1>12, Zenon DEF Entry
<1>14. PICK g : /\ g[0] = <<>>
                /\ \A i \in 1..Len(path) : g[i] = Looked(host, Append(g[i - 1], path[i]))
  BY LookingExists
<1>15. n \in 0..Len(path) /\ n - 1 \in 0..Len(path)
  BY <1>1
<1>16. hostLookup(host, q) = g[n] /\ hostLookup(host, r) = g[n - 1]
  BY <1>2, <1>4, <1>14, <1>15, LookingPrefix
<1>17. hostLookup(host, q) = Looked(host, Entry(host, q))
  BY <1>13, <1>14, <1>16
<1>18. hostLookup(host, r) \in Seq(N)
  BY <1>5, LookupTyped
<1> QED
  BY <1>2, <1>4, <1>13, <1>17, <1>18

\* Without a dangling link on the way the policy looks where the host does.
LEMMA SeenLookup ==
  ASSUME NEW N, NEW host, Targeted(host, N), NEW path \in Seq(N), ~Blind(host, path)
  PROVE  hostLookup(host, path) = canonicalizePath(host, path)
<1>1. PICK h : Following(h, host, path) /\ canonicalizePath(host, path) = h[Len(path)]
  BY FollowingExists
<1>2. Len(path) \in Nat
  OBVIOUS
<1>3. h[0] = <<>> /\ \A n \in 1..Len(path) : h[n] = Followed(host, Append(h[n - 1], path[n]))
  BY <1>1, <1>2 DEF Following
<1> DEFINE T == {n \in 0..Len(path) : hostLookup(host, SubSeq(path, 1, n)) = h[n]}
<1>4. 0 \in T
  <2>1. PICK g : /\ g[0] = <<>>
                 /\ \A i \in 1..Len(path) : g[i] = Looked(host, Append(g[i - 1], path[i]))
    BY LookingExists
  <2>2. 0 \in 0..Len(path)
    BY <1>2
  <2>3. hostLookup(host, SubSeq(path, 1, 0)) = g[0]
    BY <2>1, <2>2, LookingPrefix
  <2> QED
    BY <1>3, <2>1, <2>2, <2>3
<1>5. ASSUME NEW n \in 1..Len(path), n - 1 \in T PROVE n \in T
  <2>1. PICK e : e = Entry(host, SubSeq(path, 1, n))
    OBVIOUS
  <2>2. e = Append(h[n - 1], path[n]) /\ hostLookup(host, SubSeq(path, 1, n)) = Looked(host, e)
    <3>1. hostLookup(host, SubSeq(path, 1, n - 1)) = h[n - 1]
      BY <1>5
    <3>2. /\ Entry(host, SubSeq(path, 1, n)) = Append(hostLookup(host, SubSeq(path, 1, n - 1)), path[n])
          /\ hostLookup(host, SubSeq(path, 1, n)) = Looked(host, Entry(host, SubSeq(path, 1, n)))
      BY EntryNext
    <3> QED
      BY <2>1, <3>1, <3>2, Zenon
  <2>3. e \in DOMAIN host.links => e \in Live(host)
    BY <2>1 DEF Blind
  <2>4. Looked(host, e) = Followed(host, e)
    BY <2>3 DEF Looked, Followed, Live, existsSync
  <2>5. h[n] = Followed(host, e)
    BY <1>3, <2>2
  <2>6. n \in 0..Len(path) /\ hostLookup(host, SubSeq(path, 1, n)) = h[n]
    BY <1>2, <2>2, <2>4, <2>5
  <2> QED
    BY <2>6, Zenon
<1>6. 0..Len(path) \subseteq T
  <2> HIDE DEF T
  <2> QED
    BY <1>2, <1>4, <1>5, WalkInduction
<1>7. Len(path) \in T
  <2>1. Len(path) \in 0..Len(path)
    BY <1>2
  <2> QED
    BY <1>6, <2>1
<1>8. SubSeq(path, 1, Len(path)) = path
  BY WholePrefix
<1> QED
  BY <1>1, <1>7, <1>8

LEMMA PrefixOfPrefix ==
  ASSUME NEW N, NEW root \in Seq(N), NEW path \in Seq(N), Inside(path, root), NEW n \in 1..Len(root)
  PROVE  n \in 1..Len(path) /\ SubSeq(root, 1, n) = SubSeq(path, 1, n)
<1>1. Len(root) \in Nat /\ Len(path) \in Nat /\ Len(root) \leq Len(path) /\ n \in Nat
  BY DEF Inside, IsPrefix
<1>2. SubSeq(path, 1, Len(root)) = root
  BY WholePrefix DEF Inside, IsPrefix
<1>3. \A i \in 1..Len(root) : root[i] = path[i]
  <2>1. PICK p : p = SubSeq(path, 1, Len(root))
    OBVIOUS
  <2>2. \A i \in 1..Len(root) : p[i] = path[i]
    BY <1>1, <2>1, SubSeqProperties
  <2> QED
    BY <1>2, <2>1, <2>2
<1>4. PICK u, v : u = SubSeq(root, 1, n) /\ v = SubSeq(path, 1, n)
  OBVIOUS
<1>5. u \in Seq(N) /\ Len(u) = n /\ \A i \in 1..n : u[i] = root[i]
  BY <1>1, <1>4, SubSeqProperties
<1>6. v \in Seq(N) /\ Len(v) = n /\ \A i \in 1..n : v[i] = path[i]
  BY <1>1, <1>4, SubSeqProperties
<1>7. \A i \in 1..n : u[i] = v[i]
  BY <1>1, <1>3, <1>5, <1>6
<1>8. u = v
  BY <1>5, <1>6, <1>7
<1> QED
  BY <1>1, <1>4, <1>8

\* On the way to a path below it, the root is seen as well.
LEMMA SeenRoot ==
  ASSUME NEW N, NEW host, NEW root \in Seq(N), NEW path \in Seq(N), Inside(path, root), ~Blind(host, path)
  PROVE  ~Blind(host, root)
<1>1. ASSUME NEW n \in 1..Len(root)
      PROVE  Entry(host, SubSeq(root, 1, n)) \notin DOMAIN host.links \ Live(host)
  <2>1. n \in 1..Len(path) /\ SubSeq(root, 1, n) = SubSeq(path, 1, n)
    BY PrefixOfPrefix
  <2>2. Entry(host, SubSeq(path, 1, n)) \notin DOMAIN host.links \ Live(host)
    BY <2>1, Zenon DEF Blind
  <2> QED
    BY <2>1, <2>2, Zenon
<1> QED
  BY <1>1, Zenon DEF Blind

-----------------------------------------------------------------------------
(* The file tool.                                                          *)

LEMMA InsideNext ==
  ASSUME NEW N, NEW base \in Seq(N), NEW p \in Seq(N), Inside(p, base), NEW seg \in N
  PROVE  Inside(Append(p, seg), base)
<1>1. Len(base) \in Nat /\ Len(p) \in Nat /\ Len(base) \leq Len(p)
  BY DEF Inside, IsPrefix
<1>2. PICK q : q = Append(p, seg)
  OBVIOUS
<1>3. q \in Seq(N) /\ Len(q) = Len(p) + 1 /\ \A i \in 1..Len(p) : q[i] = p[i]
  BY <1>2
<1>4. PICK u, v : u = SubSeq(q, 1, Len(base)) /\ v = SubSeq(p, 1, Len(base))
  OBVIOUS
<1>5. u \in Seq(N) /\ Len(u) = Len(base) /\ \A i \in 1..Len(base) : u[i] = q[i]
  BY <1>1, <1>3, <1>4, SubSeqProperties
<1>6. v \in Seq(N) /\ Len(v) = Len(base) /\ \A i \in 1..Len(base) : v[i] = p[i]
  BY <1>1, <1>4, SubSeqProperties
<1>7. \A i \in 1..Len(base) : u[i] = v[i]
  BY <1>1, <1>3, <1>5, <1>6
<1>8. u = v
  BY <1>5, <1>6, <1>7
<1>9. SubSeq(base, 1, Len(base)) = SubSeq(q, 1, Len(base)) /\ Len(base) \leq Len(q)
  BY <1>1, <1>3, <1>4, <1>8 DEF Inside, IsPrefix
<1> QED
  BY <1>2, <1>9 DEF Inside, IsPrefix

\* Below the anchor nothing exists, so no link leads away from there.
LEMMA BelowAnchor ==
  ASSUME NEW N, NEW host, Targeted(host, N), NEW target \in Seq(N), NEW base \in Seq(N),
         Inside(hostLookup(host, probe(host, target)), base), ~pathExists(host, target),
         NEW n \in NotThere(host, Front(target))
  PROVE  Inside(hostLookup(host, SubSeq(Front(target), 1, n)), base)
<1> DEFINE S == {0} \cup {m \in 1..Len(target) : pathExists(host, SubSeq(target, 1, m))}
<1>1. Len(target) \in Nat
  OBVIOUS
<1>2. PICK k : k = Max(S) /\ k \in S /\ \A m \in S : m \leq k
  <2>1. S \subseteq Nat /\ S # {} /\ \A m \in S : m \leq Len(target)
    BY <1>1
  <2>2. PICK R : R = S
    OBVIOUS
  <2>3. Max(R) \in R /\ \A m \in R : m \leq Max(R)
    BY <1>1, <2>1, <2>2, MaxExists
  <2> QED
    BY <2>2, <2>3
<1>3. probe(host, target) = SubSeq(target, 1, k)
  BY <1>2, Zenon DEF probe
<1>4. k \in 0..Len(target)
  BY <1>1, <1>2
<1> DEFINE T == {m \in 0..Len(target) : m < k \/ Inside(hostLookup(host, SubSeq(target, 1, m)), base)}
<1>5. 0 \in T
  BY <1>1, <1>3, <1>4
<1>6. ASSUME NEW m \in 1..Len(target), m - 1 \in T PROVE m \in T
  <2>1. m \in 0..Len(target) /\ m \in Nat
    BY <1>1
  <2>2. CASE m < k
    BY <2>1, <2>2
  <2>3. CASE m = k
    BY <1>3, <2>1, <2>3
  <2>4. CASE m > k
    <3>1. m \notin S
      BY <1>2, <1>4, <2>1, <2>4
    <3>2. ~pathExists(host, SubSeq(target, 1, m))
      BY <3>1
    <3>3. PICK e : e = Entry(host, SubSeq(target, 1, m)) /\ e \notin DOMAIN host.links
      BY <3>2 DEF pathExists, isSymbolicLink
    <3>4. PICK dir : dir = hostLookup(host, SubSeq(target, 1, m - 1))
      OBVIOUS
    <3>5. dir \in Seq(N) /\ e = Append(dir, target[m]) /\ hostLookup(host, SubSeq(target, 1, m)) = Looked(host, e)
      <4>1. Entry(host, SubSeq(target, 1, m)) = Append(hostLookup(host, SubSeq(target, 1, m - 1)), target[m])
        BY EntryNext, Zenon
      <4>2. hostLookup(host, SubSeq(target, 1, m)) = Looked(host, Entry(host, SubSeq(target, 1, m)))
        BY EntryNext, Zenon
      <4>3. hostLookup(host, SubSeq(target, 1, m - 1)) \in Seq(N)
        BY EntryNext, Zenon
      <4> QED
        BY <3>3, <3>4, <4>1, <4>2, <4>3, Zenon
    <3>6. Looked(host, e) = e
      BY <3>3 DEF Looked
    <3>7. ~(m - 1 < k)
      BY <1>4, <2>1, <2>4
    <3>8. Inside(dir, base)
      BY <1>6, <3>4, <3>7
    <3>9. target[m] \in N
      OBVIOUS
    <3>10. Inside(e, base)
      BY <3>5, <3>8, <3>9, InsideNext
    <3> QED
      BY <2>1, <3>5, <3>6, <3>10
  <2> QED
    BY <1>4, <2>1, <2>2, <2>3, <2>4
<1>7. 0..Len(target) \subseteq T
  <2> HIDE DEF T
  <2> QED
    BY <1>1, <1>5, <1>6, WalkInduction
<1>8. PICK parent : parent = Front(target)
  OBVIOUS
<1>9. n \in 1..Len(parent) /\ \A m \in n..Len(parent) : ~pathExists(host, SubSeq(parent, 1, m))
  BY <1>8 DEF NotThere
<1>10. Len(target) > 0
  <2> SUFFICES ASSUME Len(target) = 0 PROVE FALSE
    BY <1>1
  <2>1. target = <<>>
    OBVIOUS
  <2>2. SubSeq(target, 1, Len(target) - 1) = <<>>
    BY <2>1
  <2> QED
    BY <1>8, <1>9, <2>2 DEF Front
<1>11. parent \in Seq(N) /\ Len(parent) = Len(target) - 1 /\ \A i \in 1..(Len(target) - 1) : parent[i] = target[i]
  <2>1. PICK last : last = Len(target) - 1 /\ last \in Nat /\ last \leq Len(target)
    BY <1>1, <1>10
  <2>2. parent = SubSeq(target, 1, last)
    BY <1>8, <2>1 DEF Front
  <2> QED
    BY <2>1, <2>2, SubSeqProperties
<1>12. ASSUME NEW m \in 1..Len(parent)
       PROVE  SubSeq(parent, 1, m) = SubSeq(target, 1, m)
  <2>1. PICK u, v : u = SubSeq(parent, 1, m) /\ v = SubSeq(target, 1, m)
    OBVIOUS
  <2>2. u \in Seq(N) /\ Len(u) = m /\ \A i \in 1..m : u[i] = parent[i]
    BY <1>1, <1>11, <2>1, SubSeqProperties
  <2>3. v \in Seq(N) /\ Len(v) = m /\ \A i \in 1..m : v[i] = target[i]
    BY <1>1, <1>11, <2>1, SubSeqProperties
  <2>4. \A i \in 1..m : u[i] = v[i]
    <3> TAKE i \in 1..m
    <3>1. m \in Nat /\ Len(parent) \in Nat /\ i \in 1..Len(parent)
      BY <1>11
    <3>2. parent[i] = target[i]
      BY <1>11, <3>1
    <3> QED
      BY <2>2, <2>3, <3>2
  <2>5. u = v
    BY <2>2, <2>3, <2>4
  <2> QED
    BY <2>1, <2>5
<1>13. SubSeq(target, 1, Len(target)) = target
  BY WholePrefix
<1>14. k # Len(target)
  <2> SUFFICES ASSUME k = Len(target) PROVE FALSE
    OBVIOUS
  <2>1. k \in 1..Len(target) /\ pathExists(host, SubSeq(target, 1, k))
    BY <1>2, <1>10
  <2> QED
    BY <1>13, <2>1
<1>15. n > k
  <2> SUFFICES ASSUME n \leq k PROVE FALSE
    BY <1>1, <1>4, <1>9, <1>11
  <2>1. k \in n..Len(parent) /\ k \in 1..Len(parent)
    BY <1>1, <1>4, <1>9, <1>11, <1>14
  <2>2. pathExists(host, SubSeq(target, 1, k))
    BY <1>2, <1>9, <2>1
  <2> QED
    BY <1>9, <1>12, <2>1, <2>2
<1>16. n \in T
  BY <1>1, <1>7, <1>9, <1>11
<1>17. ~(n < k)
  BY <1>1, <1>4, <1>9, <1>11, <1>15
<1>18. Inside(hostLookup(host, SubSeq(target, 1, n)), base)
  BY <1>16, <1>17
<1> QED
  BY <1>8, <1>9, <1>12, <1>18

LEMMA ExistingConfined ==
  ASSUME NEW host, NEW target, NEW base, NEW r, r = resolveExistingInside(host, target, base),
         NEW file \in r.made \cup r.opened
  PROVE  Inside(file, base)
BY DEF resolveExistingInside, failed

LEMMA CreationConfined ==
  ASSUME NEW N, NEW host, Targeted(host, N), NEW target \in Seq(N), NEW base \in Seq(N),
         Inside(hostLookup(host, probe(host, target)), base), base \in host.there,
         Inside(target, base), NEW r, r = createFile(host, target, base),
         NEW file \in r.made \cup r.opened
  PROVE  Inside(file, base)
<1>1. PICK parent, parentReal, made :
        parent = Front(target) /\ parentReal = hostLookup(host, parent) /\ made = mkdir(host, parent)
  OBVIOUS
<1>2. r = IF isSymbolicLink(host, target) THEN failed("SYMLINK_ESCAPE")
          ELSE IF pathExists(host, target) THEN failed("FILE_ALREADY_EXISTS")
          ELSE IF ~Inside(parentReal, base)
          THEN [code |-> "SYMLINK_ESCAPE", made |-> made, opened |-> {}]
          ELSE [code |-> "OPENED", made |-> made, opened |-> {Append(parentReal, Last(target))}]
  BY <1>1, Zenon DEF createFile
<1>3. /\ ~pathExists(host, target)
      /\ file \in made \/ (Inside(parentReal, base) /\ file = Append(parentReal, Last(target)))
  BY <1>2 DEF failed
<1>4. CASE file \in made
  <2>1. PICK n \in NotThere(host, Front(target)) : file = hostLookup(host, SubSeq(Front(target), 1, n))
    BY <1>1, <1>4 DEF mkdir
  <2> QED
    BY <1>3, <2>1, BelowAnchor
<1>5. CASE Inside(parentReal, base) /\ file = Append(parentReal, Last(target))
  <2>1. CASE Len(target) = 0
    <3>1. target = <<>>
      BY <2>1
    <3>2. Len(base) = 0
      BY <2>1 DEF Inside, IsPrefix
    <3>3. base = <<>>
      BY <3>2
    <3>4. Entry(host, target) = base
      BY <3>1, <3>3 DEF Entry
    <3> QED
      BY <1>3, <3>4 DEF pathExists
  <2>2. CASE Len(target) # 0
    <3>1. Len(target) \in Nat /\ Len(target) - 1 \in Nat /\ Len(target) \in 1..Len(target)
      BY <2>2
    <3>2. parent \in Seq(N) /\ Last(target) \in N
      <4>1. Last(target) \in N
        BY <3>1 DEF Last
      <4>2. parent \in Seq(N)
        BY <1>1, <3>1, SubSeqProperties DEF Front
      <4> QED
        BY <4>1, <4>2
    <3>3. parentReal \in Seq(N)
      BY <1>1, <3>2, LookupTyped
    <3> QED
      BY <1>5, <3>2, <3>3, InsideNext
  <2> QED
    BY <2>1, <2>2
<1> QED
  BY <1>3, <1>4, <1>5

\* Whatever the tool opens or makes lies below the real directory it works in.
LEMMA Confined ==
  ASSUME NEW N, N \cap {".", ".."} = {}, NEW ctx, NEW directory \in Seq(N), Targeted(ctx.host, N),
         ctx.requestedPath.segs \in Seq(N \cup {".", ".."}),
         NEW r, r = execute(ctx, directory), NEW file \in r.made \cup r.opened
  PROVE  IsPrefix(hostLookup(ctx.host, directory), file)
<1>1. PICK host, base, target, anchor :
        /\ host = ctx.host /\ base = hostLookup(host, directory)
        /\ target = resolvePath(base, ctx.requestedPath) /\ anchor = probe(host, target)
  OBVIOUS
<1>2. r = IF ctx.requestedAction \notin SUPPORTED_ACTIONS THEN failed("UNSUPPORTED_ACTION")
      ELSE IF ctx.requestedPath = ABSENT THEN failed("TARGET_PATH_REQUIRED")
      ELSE IF base \notin host.there THEN failed("FILE_TOOL_ERROR")
      ELSE IF ~Inside(target, base) \/ ~Inside(anchor, base) THEN failed("PATH_ESCAPE")
      ELSE IF hostLookup(host, anchor) \notin host.there THEN failed("FILE_TOOL_ERROR")
      ELSE IF ~Inside(hostLookup(host, anchor), base) THEN failed("SYMLINK_ESCAPE")
      ELSE carryOut(ctx.requestedAction, host, target, base)
  BY <1>1, Zenon DEF execute
<1>3. /\ ctx.requestedAction \in SUPPORTED_ACTIONS /\ base \in host.there
      /\ Inside(target, base) /\ Inside(hostLookup(host, anchor), base)
      /\ r = carryOut(ctx.requestedAction, host, target, base)
  <2>1. \A code : failed(code).made = {} /\ failed(code).opened = {}
    BY DEF failed
  <2>2. \A code : r # failed(code)
    BY <2>1
  <2> QED
    BY <1>2, <2>2, Zenon
<1>4. base \in Seq(N)
  BY <1>1, LookupTyped
<1>5. target \in Seq(N)
  BY <1>1, <1>4, ResolvedTyped
<1>6. \/ r = resolveExistingInside(host, target, base)
      \/ r = createFile(host, target, base)
  BY <1>3 DEF SUPPORTED_ACTIONS, carryOut, readFile, writeFile
<1>7. Inside(file, base)
  <2>1. CASE r = resolveExistingInside(host, target, base)
    BY <2>1, ExistingConfined
  <2>2. CASE r = createFile(host, target, base)
    BY <1>1, <1>3, <1>4, <1>5, <2>2, CreationConfined
  <2> QED
    BY <1>6, <2>1, <2>2
<1> QED
  BY <1>1, <1>7 DEF Inside

-----------------------------------------------------------------------------
(* The decoding of a path.                                                 *)

Flattening(g, seqs) ==
  g = [i \in 1..Len(seqs) |-> IF i = 1 THEN seqs[i] ELSE g[i - 1] \o seqs[i]]

LEMMA FlatteningExists ==
  ASSUME NEW M, NEW seqs \in Seq(Seq(M)), Len(seqs) # 0
  PROVE  \E g : Flattening(g, seqs) /\ FlattenSeq(seqs) = g[Len(seqs)]
<1> DEFINE P == Seq(M)
<1>1. PICK f : f \in [P -> [P -> P]] /\ \A p \in P, s \in P : f[p][s] = p \o s
  <2> DEFINE F == [p \in P |-> [s \in P |-> p \o s]]
  <2>1. F \in [P -> [P -> P]]
    OBVIOUS
  <2>2. \A p \in P, s \in P : F[p][s] = p \o s
    OBVIOUS
  <2> HIDE DEF F
  <2> QED
    BY <2>1, <2>2
<1>2. PICK b : b = <<>> /\ b \in P
  <2>1. <<>> \in P
    OBVIOUS
  <2> QED
    BY <2>1, Zenon
<1>3. PICK g \in [0..Len(seqs) -> P] : Walk(g, f, b, seqs)
  <2>1. seqs \in Seq(P)
    OBVIOUS
  <2> HIDE DEF P
  <2> QED
    BY <1>1, <1>2, <2>1, WalkExists
<1>4. Len(seqs) \in Nat /\ Len(seqs) > 0
  OBVIOUS
<1>5. ASSUME NEW n \in 1..Len(seqs) PROVE seqs[n] \in P /\ g[n] = g[n - 1] \o seqs[n]
  <2>1. g[n - 1] \in P
    <3>1. n - 1 \in 0..Len(seqs)
      BY <1>4
    <3> QED
      BY <1>3, <3>1
  <2>2. seqs[n] \in P
    OBVIOUS
  <2> QED
    BY <1>1, <1>3, <2>1, <2>2 DEF Walk
<1>6. g[1] = seqs[1]
  <2>1. g[0] = <<>>
    BY <1>2, <1>3 DEF Walk
  <2>2. 1 \in 1..Len(seqs)
    BY <1>4
  <2>3. seqs[1] \in P /\ g[1] = g[1 - 1] \o seqs[1]
    <3> HIDE DEF P
    <3> QED
      BY <1>5, <2>2, Zenon
  <2>4. 1 - 1 = 0
    OBVIOUS
  <2>5. g[1] = <<>> \o seqs[1]
    BY <2>1, <2>3, <2>4, Zenon
  <2> QED
    BY <2>3, <2>5
<1>7. PICK h : h = [i \in 1..Len(seqs) |-> g[i]]
  OBVIOUS
<1>8. Flattening(h, seqs)
  <2>1. ASSUME NEW i \in 1..Len(seqs)
        PROVE  g[i] = IF i = 1 THEN seqs[i] ELSE h[i - 1] \o seqs[i]
    <3>1. CASE i = 1
      BY <1>6, <3>1
    <3>2. CASE i # 1
      <4>1. i - 1 \in 1..Len(seqs)
        BY <1>4, <3>2
      <4>2. h[i - 1] = g[i - 1]
        BY <1>7, <4>1
      <4> QED
        BY <1>5, <3>2, <4>2
    <3> QED
      BY <3>1, <3>2
  <2> QED
    BY <1>7, <2>1 DEF Flattening
<1> QED
  BY <1>8 DEF Flattening, FlattenSeq

\* Sequences over M put together are one.
LEMMA FlattenTyped ==
  ASSUME NEW M, NEW seqs \in Seq(Seq(M))
  PROVE  FlattenSeq(seqs) \in Seq(M)
<1>1. CASE Len(seqs) = 0
  <2>1. seqs = <<>> /\ <<>> \in Seq(M)
    BY <1>1
  <2> QED
    BY <1>1, <2>1 DEF FlattenSeq
<1>2. CASE Len(seqs) # 0
  <2>1. PICK g : Flattening(g, seqs) /\ FlattenSeq(seqs) = g[Len(seqs)]
    BY <1>2, FlatteningExists
  <2>2. Len(seqs) \in Nat /\ Len(seqs) > 0
    BY <1>2
  <2> DEFINE T == {n \in 0..Len(seqs) : n = 0 \/ g[n] \in Seq(M)}
  <2>3. 0 \in T
    BY <2>2
  <2>4. ASSUME NEW n \in 1..Len(seqs), n - 1 \in T PROVE n \in T
    <3>1. g[n] = IF n = 1 THEN seqs[n] ELSE g[n - 1] \o seqs[n]
      BY <2>1 DEF Flattening
    <3>2. seqs[n] \in Seq(M)
      OBVIOUS
    <3>3. n # 1 => g[n - 1] \in Seq(M)
      BY <2>2, <2>4
    <3>4. g[n] \in Seq(M)
      BY <3>1, <3>2, <3>3
    <3> QED
      BY <2>2, <3>4
  <2>5. 0..Len(seqs) \subseteq T
    <3> HIDE DEF T
    <3> QED
      BY <2>2, <2>3, <2>4, WalkInduction
  <2> QED
    BY <2>1, <2>2, <2>5
<1> QED
  BY <1>1, <1>2

\* One member each, put together, are the sequence of the members.
LEMMA FlattenSingles ==
  ASSUME NEW M, NEW s \in Seq(M), NEW seqs, seqs = [i \in DOMAIN s |-> <<s[i]>>]
  PROVE  FlattenSeq(seqs) = s
<1>1. Len(s) \in Nat /\ DOMAIN s = 1..Len(s)
  OBVIOUS
<1>2. \A i \in 1..Len(s) : <<s[i]>> \in Seq(M)
  OBVIOUS
<1>3. seqs \in Seq(Seq(M)) /\ Len(seqs) = Len(s)
  BY <1>1, <1>2
<1>4. CASE Len(s) = 0
  <2>1. seqs = <<>> /\ s = <<>>
    BY <1>3, <1>4
  <2> QED
    BY <1>3, <1>4, <2>1 DEF FlattenSeq
<1>5. CASE Len(s) # 0
  <2>1. PICK g : Flattening(g, seqs) /\ FlattenSeq(seqs) = g[Len(seqs)]
    BY <1>3, <1>5, FlatteningExists
  <2> DEFINE T == {n \in 0..Len(s) : n = 0 \/ g[n] = SubSeq(s, 1, n)}
  <2>2. 0 \in T
    BY <1>1
  <2>3. ASSUME NEW n \in 1..Len(s), n - 1 \in T PROVE n \in T
    <3>1. g[n] = IF n = 1 THEN <<s[n]>> ELSE g[n - 1] \o <<s[n]>>
      BY <1>1, <1>3, <2>1 DEF Flattening
    <3>2. s[n] \in M
      OBVIOUS
    <3>3. Append(SubSeq(s, 1, n - 1), s[n]) = SubSeq(s, 1, n)
      BY PrefixNext
    <3>4. SubSeq(s, 1, n - 1) \in Seq(M)
      BY <1>1, SubSeqProperties
    <3>5. PICK p : p = SubSeq(s, 1, n - 1)
      OBVIOUS
    <3>6. p \o <<s[n]>> = Append(p, s[n])
      BY <3>2, <3>4, <3>5
    <3>7. CASE n = 1
      <4>1. p = <<>>
        BY <3>5, <3>7, WholePrefix
      <4>2. Append(p, s[n]) = <<s[n]>>
        BY <3>2, <4>1
      <4>3. g[n] = SubSeq(s, 1, n)
        BY <3>1, <3>3, <3>5, <3>7, <4>2, Zenon
      <4>4. n \in 0..Len(s)
        BY <1>1
      <4> QED
        BY <4>3, <4>4, Zenon
    <3>8. CASE n # 1
      <4>1. g[n - 1] = p
        BY <2>3, <3>5, <3>8
      <4>2. g[n] = SubSeq(s, 1, n)
        BY <3>1, <3>3, <3>5, <3>6, <3>8, <4>1, Zenon
      <4>3. n \in 0..Len(s)
        BY <1>1
      <4> QED
        BY <4>2, <4>3, Zenon
    <3> QED
      BY <3>7, <3>8
  <2>4. 0..Len(s) \subseteq T
    <3> HIDE DEF T
    <3> QED
      BY <1>1, <2>2, <2>3, WalkInduction
  <2>5. g[Len(s)] = SubSeq(s, 1, Len(s))
    BY <1>1, <1>5, <2>4
  <2> QED
    BY <1>3, <2>1, <2>5, WholePrefix
<1> QED
  BY <1>4, <1>5

LEMMA DecodedTyped ==
  ASSUME NEW segs \in Seq(Names \cup Spellings)
  PROVE  /\ Decoded(segs) \in Seq(Names \cup {".", "..", "%00"})
         /\ ~Malformed(Decoded(segs)) => Decoded(segs) \in Seq(Names \cup {".", ".."})
<1> DEFINE M == Names \cup {".", "..", "%00"}
<1>1. ASSUME NEW seg \in Names \cup Spellings PROVE decodePercentEncoding(seg) \in Seq(M)
  <2>1. <<"..">> \in Seq(M) /\ <<"src", "..">> \in Seq(M)
    BY PathAssumption
  <2>2. seg \in M => <<seg>> \in Seq(M)
    OBVIOUS
  <2>3. seg \in M \/ seg \in {"%2e%2e", "src%2f.."}
    BY DEF Spellings
  <2> QED
    BY <2>1, <2>2, <2>3 DEF decodePercentEncoding
<1>2. PICK seqs : seqs = [i \in DOMAIN segs |-> decodePercentEncoding(segs[i])]
  OBVIOUS
<1>3. \A i \in 1..Len(segs) : decodePercentEncoding(segs[i]) \in Seq(M)
  BY <1>1
<1>4. seqs \in Seq(Seq(M))
  BY <1>2, <1>3
<1>5. FlattenSeq(seqs) \in Seq(M)
  BY <1>4, FlattenTyped
<1>6. PICK dec : dec = Decoded(segs) /\ dec \in Seq(M)
  BY <1>2, <1>5 DEF Decoded
<1>7. ASSUME ~Malformed(dec) PROVE dec \in Seq(Names \cup {".", ".."})
  <2>1. ASSUME NEW i \in 1..Len(dec) PROVE dec[i] \in Names \cup {".", ".."}
    <3>1. dec[i] \in M /\ i \in DOMAIN dec
      BY <1>6
    <3>2. dec[i] # "%00"
      BY <1>7, <3>1 DEF Malformed, Range
    <3> QED
      BY <3>1, <3>2
  <2> QED
    BY <1>6, <2>1
<1> QED
  BY <1>6, <1>7

\* Names need no decoding, and are no dots.
LEMMA DecodedOwnName ==
  ASSUME NEW file \in Seq(Names)
  PROVE  Decoded(file) = file /\ ~Malformed(file) /\ depth(file) \in Nat
<1>1. ASSUME NEW i \in DOMAIN file
      PROVE  file[i] \in Names /\ file[i] \notin Spellings
  BY PathAssumption
<1>2. \A i \in DOMAIN file : decodePercentEncoding(file[i]) = <<file[i]>>
  BY <1>1 DEF decodePercentEncoding, Spellings
<1>3. PICK seqs : seqs = [i \in DOMAIN file |-> decodePercentEncoding(file[i])]
  OBVIOUS
<1>4. seqs = [i \in DOMAIN file |-> <<file[i]>>]
  BY <1>2, <1>3
<1>5. Decoded(file) = file
  BY <1>3, <1>4, FlattenSingles DEF Decoded
<1>6. ~Malformed(file)
  BY <1>1 DEF Malformed, Spellings, Range
<1>7. depth(file) \in Nat
  <2>1. {i \in DOMAIN file : file[i] = ".."} = {}
    BY <1>1 DEF Spellings
  <2>2. IsFiniteSet(DOMAIN file)
    BY FS_Interval
  <2>3. IsFiniteSet({i \in DOMAIN file : file[i] \notin {".", ".."}})
    BY <2>2, FS_Subset
  <2>4. Cardinality({i \in DOMAIN file : file[i] \notin {".", ".."}}) \in Nat
    BY <2>3, FS_CardinalityType
  <2>5. Cardinality({i \in DOMAIN file : file[i] = ".."}) = 0
    BY <2>1, FS_EmptySet
  <2>6. PICK names, up : /\ names = Cardinality({i \in DOMAIN file : file[i] \notin {".", ".."}})
                        /\ up = Cardinality({i \in DOMAIN file : file[i] = ".."})
    OBVIOUS
  <2>7. depth(file) = names - up
    BY <2>6 DEF depth
  <2> QED
    BY <2>4, <2>5, <2>6, <2>7
<1> QED
  BY <1>5, <1>6, <1>7

-----------------------------------------------------------------------------
(* No spelling of a path gains anything.                                   *)

Resolved(requested) == resolvePath(Root, [abs |-> requested.abs, segs |-> Decoded(requested.segs)])
Reached(requested, host) == canonicalizePath(host, Resolved(requested))

LEMMA InsideResolved ==
  ASSUME NEW requested, requested.segs \in Seq(Names \cup Spellings), NEW host,
         normalizePath(requested, Root, host).insideRoot
  PROVE  Resolved(requested) \in Seq(Names) /\ Inside(Resolved(requested), Root)
<1>1. PICK segs, resolved, file, top :
        /\ segs = Decoded(requested.segs) /\ resolved = Resolved(requested)
        /\ file = canonicalizePath(host, resolved) /\ top = canonicalizePath(host, Root)
  OBVIOUS
<1>2. normalizePath(requested, Root, host) =
        IF Malformed(segs) \/ depth(segs) < 0 THEN [normalized |-> segs, insideRoot |-> FALSE]
        ELSE IF ~Inside(resolved, Root) THEN [normalized |-> resolved, insideRoot |-> FALSE]
        ELSE IF ~Inside(file, top) THEN [normalized |-> file, insideRoot |-> FALSE]
        ELSE [normalized |-> file, insideRoot |-> TRUE]
  BY <1>1, Zenon DEF normalizePath, Resolved
<1>3. ~Malformed(segs) /\ Inside(resolved, Root)
  BY <1>2
<1>4. segs \in Seq(Names \cup {".", ".."})
  BY <1>1, <1>3, DecodedTyped
<1>5. PICK path : path = [abs |-> requested.abs, segs |-> segs]
  OBVIOUS
<1>6. path.segs = segs
  BY <1>5
<1>7. Names \cap {".", ".."} = {} /\ Root \in Seq(Names)
  BY PathAssumption DEF Spellings
<1>8. resolvePath(Root, path) \in Seq(Names)
  BY <1>4, <1>6, <1>7, ResolvedTyped
<1> QED
  BY <1>1, <1>3, <1>5, <1>8 DEF Resolved

\* A path that normalizePath finds inside is canonical.
LEMMA NormalizedPath ==
  ASSUME NEW requested, requested.segs \in Seq(Names \cup Spellings),
         NEW host, Targeted(host, Names),
         normalizePath(requested, Root, host).insideRoot
  PROVE  /\ normalizePath(requested, Root, host).normalized = Reached(requested, host)
         /\ Inside(Reached(requested, host), canonicalizePath(host, Root))
         /\ Reached(requested, host) \in Seq(Names)
         /\ Canonical(host, Reached(requested, host))
<1>1. PICK segs : segs = Decoded(requested.segs)
  OBVIOUS
<1>2. PICK file, resolved, top :
        /\ resolved = Resolved(requested) /\ file = Reached(requested, host)
        /\ file = canonicalizePath(host, resolved) /\ top = canonicalizePath(host, Root)
  BY DEF Reached
<1>3. normalizePath(requested, Root, host) =
        IF Malformed(segs) \/ depth(segs) < 0 THEN [normalized |-> segs, insideRoot |-> FALSE]
        ELSE IF ~Inside(resolved, Root) THEN [normalized |-> resolved, insideRoot |-> FALSE]
        ELSE IF ~Inside(file, top) THEN [normalized |-> file, insideRoot |-> FALSE]
        ELSE [normalized |-> file, insideRoot |-> TRUE]
  BY <1>1, <1>2, Zenon DEF normalizePath, Resolved
<1>4. /\ Inside(file, top)
      /\ normalizePath(requested, Root, host).normalized = file
  BY <1>3
<1>5. resolved \in Seq(Names)
  BY <1>2, InsideResolved
<1>6. file \in Seq(Names) /\ Canonical(host, file)
  BY <1>2, <1>5, CanonicalizedPath
<1> QED
  BY <1>2, <1>4, <1>6

\* Under its own name the same file is inside as well, if it is by name.
LEMMA OwnName ==
  ASSUME NEW host, Targeted(host, Names), NEW file \in Seq(Names), Canonical(host, file),
         Inside(file, Root), Inside(file, canonicalizePath(host, Root))
  PROVE  normalizePath([abs |-> TRUE, segs |-> file], Root, host)
           = [normalized |-> file, insideRoot |-> TRUE]
<1>1. PICK own : own = [abs |-> TRUE, segs |-> file]
  OBVIOUS
<1>2. own.segs = file
  BY <1>1
<1>3. Decoded(file) = file /\ ~Malformed(file) /\ depth(file) \in Nat
  BY DecodedOwnName
<1>4. [abs |-> own.abs, segs |-> file] = own
  BY <1>1
<1>5. Names \cap {".", ".."} = {} /\ Root \in Seq(Names)
  BY PathAssumption DEF Spellings
<1>6. resolvePath(Root, own) = file
  BY <1>1, <1>5, ResolveOwnName
<1>7. canonicalizePath(host, file) = file
  BY CanonicalOwnName
<1>8. ~(depth(file) < 0)
  BY <1>3
<1>9. normalizePath(own, Root, host) = [normalized |-> file, insideRoot |-> TRUE]
  BY <1>2, <1>3, <1>4, <1>6, <1>7, <1>8, Zenon DEF normalizePath
<1> QED
  BY <1>1, <1>9

LEMMA DirectoryTyped == orgWorkspaceDirectory \in Seq(Names)
BY PathAssumption DEF orgWorkspaceDirectory

\* A request for a file, as it is made.
LEMMA PathRequested ==
  ASSUME PathInput
  PROVE  \E who, action, requested, host, home :
           /\ who \in ExecutionProfile /\ action \in SUPPORTED_ACTIONS /\ host \in Hosts
           /\ input = [executionProfile |-> who, requestedAction |-> action,
                       requestedPath |-> requested, requestedCommand |-> ABSENT, homeDir |-> home,
                       host |-> host, releaseGateStatus |-> ABSENT,
                       policy |-> createBuilderPolicy(Root)]
           /\ requested = [abs |-> requested.abs, segs |-> requested.segs]
           /\ requested.segs \in Seq(Names \cup Spellings) /\ requested.abs \in BOOLEAN
<1>1. PICK who \in ExecutionProfile, action \in SUPPORTED_ACTIONS,
           segs \in SeqOf(Segments, MaxSegments), abs \in BOOLEAN, host \in Hosts,
           home \in {ABSENT, orgWorkspaceDirectory} :
        input = PathRequest(who, action, abs, segs, host, home)
  BY DEF PathInput
<1>2. segs \in Seq(Segments)
  BY <1>1, BoundedIsSeq
<1>3. segs \in Seq(Names \cup Spellings) /\ orgWorkspaceDirectory \in Seq(Names \cup Spellings)
  BY <1>2, PathAssumption, DirectoryTyped
<1>4. PICK all : all = IF abs THEN orgWorkspaceDirectory \o segs ELSE segs
  OBVIOUS
<1>5. all \in Seq(Names \cup Spellings)
  BY <1>3, <1>4
<1>6. PICK requested : requested = [abs |-> abs, segs |-> all]
  OBVIOUS
<1>7. input = [executionProfile |-> who, requestedAction |-> action,
               requestedPath |-> requested, requestedCommand |-> ABSENT, homeDir |-> home,
               host |-> host, releaseGateStatus |-> ABSENT,
               policy |-> createBuilderPolicy(Root)]
  BY <1>1, <1>4, <1>6 DEF PathRequest, BaseContext
<1>8. requested.abs = abs /\ requested.segs = all
  BY <1>6
<1>9. /\ requested = [abs |-> requested.abs, segs |-> requested.segs]
      /\ requested.segs \in Seq(Names \cup Spellings) /\ requested.abs \in BOOLEAN
  BY <1>5, <1>6, <1>8
<1> QED
  BY <1>1, <1>7, <1>9, Zenon

\* The decision over a request for a file that is given.
LEMMA PathDecision ==
  ASSUME NEW ctx, ctx.policy = createBuilderPolicy(Root),
         ctx.executionProfile \in ExecutionProfile, ctx.requestedAction \in FileActions,
         ctx.requestedPath \in [abs : BOOLEAN, segs : Seq(Names \cup Spellings)],
         NEW n, n = normalizePath(ctx.requestedPath, Root, ctx.host)
  PROVE  /\ ~n.insideRoot => evaluatePolicy(ctx) # "POLICY_ALLOWED"
         /\ n.insideRoot =>
              evaluatePolicy(ctx) =
                IF HomeAccess(n.normalized, ctx.homeDir) THEN "HOME_ACCESS_DENIED"
                ELSE IF isSecretPath(n.normalized) THEN "SECRET_ACCESS_DENIED"
                ELSE IF ExplicitlyDenied(n.normalized, ctx.policy) THEN "PATH_EXPLICITLY_DENIED"
                ELSE ProfilePath(ctx.executionProfile, ctx.requestedAction, n.normalized, ctx.policy)
<1>1. createBuilderPolicy(Root) # ABSENT
  BY CommandAssumption DEF Policies
<1>2. ctx.requestedPath # ABSENT
  BY PathAssumption
<1>3. ctx.policy.allowedRoot = Root
  BY DEF createBuilderPolicy, BasePolicy
<1>4. evaluatePolicy(ctx) = evaluatePathAction(ctx)
  <2>1. CASE ctx.requestedAction = "READ_FILE"
    BY <1>1, <2>1 DEF evaluatePolicy, FileActions
  <2>2. CASE ctx.requestedAction = "WRITE_FILE"
    BY <1>1, <2>2 DEF evaluatePolicy, FileActions
  <2>3. CASE ctx.requestedAction = "CREATE_FILE"
    BY <1>1, <2>3 DEF evaluatePolicy, FileActions
  <2>4. CASE ctx.requestedAction = "DELETE_FILE"
    BY <1>1, <2>4 DEF evaluatePolicy, FileActions
  <2> QED
    BY <2>1, <2>2, <2>3, <2>4 DEF FileActions
<1>5. PICK dots : dots = (DOTTED \cap (Range(ctx.requestedPath.segs) \cup Range(n.normalized)) # {})
  OBVIOUS
<1>6. evaluatePathAction(ctx) =
        IF ~n.insideRoot THEN IF dots THEN "PATH_TRAVERSAL_REJECTED" ELSE "PATH_OUTSIDE_ALLOWED_ROOT"
        ELSE IF HomeAccess(n.normalized, ctx.homeDir) THEN "HOME_ACCESS_DENIED"
        ELSE IF isSecretPath(n.normalized) THEN "SECRET_ACCESS_DENIED"
        ELSE IF ExplicitlyDenied(n.normalized, ctx.policy) THEN "PATH_EXPLICITLY_DENIED"
        ELSE ProfilePath(ctx.executionProfile, ctx.requestedAction, n.normalized, ctx.policy)
  BY <1>2, <1>3, <1>5, Zenon DEF evaluatePathAction
<1> QED
  BY <1>4, <1>6

LEMMA ProfileWithin ==
  ASSUME NEW who \in ExecutionProfile, NEW action, NEW path, NEW policy,
         ProfilePath(who, action, path, policy) = "POLICY_ALLOWED"
  PROVE  /\ Inside(path, policy.allowedRoot)
         /\ action = "READ_FILE" \/ who = "BUILDER"
BY DEF ProfilePath, ExecutionProfile, Within, evaluateBuilderPath, evaluateReviewerPath,
       evaluateOrchestratorPath, evaluateReleaseAuthorityPath

\* What the host has for a path that is found inside without a dangling link.
LEMMA SeenInside ==
  ASSUME NEW requested, requested.segs \in Seq(Names \cup Spellings),
         NEW host, Targeted(host, Names),
         normalizePath(requested, Root, host).insideRoot, ~Blind(host, Resolved(requested))
  PROVE  /\ hostLookup(host, Resolved(requested)) = Reached(requested, host)
         /\ hostLookup(host, Root) = canonicalizePath(host, Root)
<1>1. PICK resolved : resolved = Resolved(requested)
  OBVIOUS
<1>2. resolved \in Seq(Names) /\ Inside(resolved, Root)
  BY <1>1, InsideResolved
<1>3. Root \in Seq(Names)
  BY PathAssumption
<1>4. ~Blind(host, Root)
  BY <1>1, <1>2, <1>3, SeenRoot
<1>5. hostLookup(host, resolved) = canonicalizePath(host, resolved)
  BY <1>1, <1>2, SeenLookup
<1>6. hostLookup(host, Root) = canonicalizePath(host, Root)
  BY <1>3, <1>4, SeenLookup
<1> QED
  BY <1>1, <1>5, <1>6 DEF Reached

\* However a path is spelled and whatever links the host has, dangling ones
\* included: a file that a request is given, and that is found without a dangling
\* link, lies in the real workspace, is no secret and is given under its own name
\* too; only a builder is given one to write; and the file tool opens and makes
\* nothing outside the real directory of the organization.
THEOREM SpellingsGainNothing == DecisionsSpec => []SpellingGainsNothing
<1>1. DecisionsInv => SpellingGainsNothing
  <2> SUFFICES ASSUME DecisionsInv, kind = "path", outcome = "POLICY_ALLOWED"
      PROVE  JudgedAsReached /\ ToolConfined
    BY Zenon DEF SpellingGainsNothing, Admitted
  <2>1. PathInput /\ evaluatePolicy(input) = "POLICY_ALLOWED"
    BY DEF DecisionsInv, Asked, Answer
  <2>2. PICK who, action, requested, host, home :
          /\ who \in ExecutionProfile /\ action \in SUPPORTED_ACTIONS /\ host \in Hosts
          /\ input = [executionProfile |-> who, requestedAction |-> action,
                      requestedPath |-> requested, requestedCommand |-> ABSENT, homeDir |-> home,
                      host |-> host, releaseGateStatus |-> ABSENT,
                      policy |-> createBuilderPolicy(Root)]
          /\ requested = [abs |-> requested.abs, segs |-> requested.segs]
          /\ requested.segs \in Seq(Names \cup Spellings) /\ requested.abs \in BOOLEAN
    BY <2>1, PathRequested
  <2>3. /\ input.executionProfile = who /\ input.requestedAction = action
        /\ input.requestedPath = requested /\ input.homeDir = home /\ input.host = host
        /\ input.policy = createBuilderPolicy(Root)
    BY <2>2
  <2>4. action \in FileActions
    BY <2>2 DEF FileActions, SUPPORTED_ACTIONS
  <2>5. requested \in [abs : BOOLEAN, segs : Seq(Names \cup Spellings)]
    BY <2>2
  <2>6. Targeted(host, Names)
    BY <2>2, PathAssumption DEF Targeted
  <2>7. PICK n : n = normalizePath(requested, Root, host)
    OBVIOUS
  <2>8. n.insideRoot
    BY <2>1, <2>2, <2>3, <2>4, <2>5, <2>7, PathDecision
  <2>9. PICK file : file = Reached(requested, host)
    OBVIOUS
  <2>10. /\ n.normalized = file /\ Inside(file, canonicalizePath(host, Root))
         /\ file \in Seq(Names) /\ Canonical(host, file)
    BY <2>2, <2>6, <2>7, <2>8, <2>9, NormalizedPath
  <2>11. Meant(input) = Resolved(requested) /\ FileOf(input) = hostLookup(host, Resolved(requested))
    BY <2>3, Zenon DEF Meant, FileOf, Resolved
  <2>12. /\ ~HomeAccess(file, home) /\ ~isSecretPath(file)
         /\ ~ExplicitlyDenied(file, createBuilderPolicy(Root))
         /\ ProfilePath(who, action, file, createBuilderPolicy(Root)) = "POLICY_ALLOWED"
    BY <2>1, <2>2, <2>3, <2>4, <2>5, <2>7, <2>8, <2>10, PathDecision
  <2>13. createBuilderPolicy(Root).allowedRoot = Root
    BY DEF createBuilderPolicy, BasePolicy
  <2>14. Inside(file, Root) /\ (action = "READ_FILE" \/ who = "BUILDER")
    BY <2>2, <2>12, <2>13, ProfileWithin
  <2>15. PICK own : own = [abs |-> TRUE, segs |-> file]
    OBVIOUS
  <2>16. normalizePath(own, Root, host) = [normalized |-> file, insideRoot |-> TRUE]
    BY <2>6, <2>10, <2>14, <2>15, OwnName
  <2>17. PICK m : m = normalizePath(own, Root, host) /\ m.insideRoot /\ m.normalized = file
    BY <2>16
  <2>18. PICK ctx : ctx = [input EXCEPT !.requestedPath = own]
    OBVIOUS
  <2>19. /\ ctx.executionProfile = who /\ ctx.requestedAction = action
         /\ ctx.requestedPath = own /\ ctx.homeDir = home /\ ctx.host = host
         /\ ctx.policy = createBuilderPolicy(Root)
    BY <2>2, <2>18
  <2>20. own \in [abs : BOOLEAN, segs : Seq(Names \cup Spellings)]
    BY <2>10, <2>15
  <2>21. evaluatePolicy(ctx) = "POLICY_ALLOWED"
    BY <2>2, <2>4, <2>12, <2>17, <2>19, <2>20, PathDecision
  <2>22. Decision([input EXCEPT !.requestedPath = [abs |-> TRUE, segs |-> file]]) = "POLICY_ALLOWED"
    BY <2>15, <2>18, <2>21, Zenon DEF Decision
  <2>23. JudgedAsReached
    <3>1. ASSUME ~Blind(input.host, Meant(input))
          PROVE  FileOf(input) = file /\ IsPrefix(hostLookup(input.host, Root), file)
      <4>1. ~Blind(host, Resolved(requested))
        BY <2>3, <2>11, <3>1
      <4>2. /\ hostLookup(host, Resolved(requested)) = file
            /\ hostLookup(host, Root) = canonicalizePath(host, Root)
        BY <2>2, <2>6, <2>7, <2>8, <2>9, <4>1, SeenInside
      <4> QED
        BY <2>3, <2>10, <2>11, <4>2 DEF Inside
    <3> QED
      BY <2>3, <2>12, <2>14, <2>22, <3>1, Zenon DEF JudgedAsReached
  <2>24. ToolConfined
    <3>1. PICK N : N = Names \cup {"%2e%2e", "src%2f..", "%00"}
      OBVIOUS
    <3>2. N \cap {".", ".."} = {} /\ N \cup {".", ".."} = Names \cup Spellings
      BY <3>1, PathAssumption DEF Spellings
    <3>3. Targeted(host, N)
      <4>1. \A s : s \in Seq(Names) => s \in Seq(N)
        BY <3>1
      <4> QED
        BY <2>6, <4>1 DEF Targeted
    <3>4. orgWorkspaceDirectory \in Seq(N)
      BY <3>1, DirectoryTyped
    <3>5. PICK r : r = execute(input, orgWorkspaceDirectory)
      OBVIOUS
    <3>6. ASSUME NEW f \in r.made \cup r.opened
          PROVE  IsPrefix(hostLookup(input.host, orgWorkspaceDirectory), f)
      BY <2>2, <2>3, <3>2, <3>3, <3>4, <3>5, Confined
    <3> QED
      BY <3>5, <3>6, Zenon DEF ToolConfined
  <2> QED
    BY <2>23, <2>24
<1> QED
  BY <1>1, DecisionsInvariance, PTL

-----------------------------------------------------------------------------
(* What the policies of the gate admit: a command of one word.             *)

LEMMA OneWord ==
  ASSUME NEW x
  PROVE  Len(<<x>>) = 1 /\ SubSeq(<<x>>, 1, 1) = <<x>>
<1>1. PICK s : s = <<x>>
  OBVIOUS
<1>2. s \in Seq({x}) /\ Len(s) = 1
  BY <1>1
<1>3. SubSeq(s, 1, Len(s)) = s
  BY <1>2
<1> QED
  BY <1>1, <1>2, <1>3

LEMMA OneWordPrefix ==
  ASSUME NEW alias
  PROVE  /\ \A x : IsPrefix(<<x>>, <<alias>>) <=> x = alias
         /\ \A x, y : ~IsPrefix(<<x, y>>, <<alias>>)
         /\ \A x, y, z : ~IsPrefix(<<x, y, z>>, <<alias>>)
<1>1. Len(<<alias>>) = 1 /\ SubSeq(<<alias>>, 1, 1) = <<alias>>
  BY OneWord
<1>2. ASSUME NEW x PROVE IsPrefix(<<x>>, <<alias>>) <=> x = alias
  <2>1. Len(<<x>>) = 1 /\ SubSeq(<<x>>, 1, 1) = <<x>>
    BY OneWord
  <2>2. IsPrefix(<<x>>, <<alias>>) <=> <<x>> = <<alias>>
    BY <1>1, <2>1 DEF IsPrefix
  <2> QED
    BY <2>2
<1>3. ASSUME NEW x, NEW y PROVE ~IsPrefix(<<x, y>>, <<alias>>)
  BY <1>1 DEF IsPrefix
<1>4. ASSUME NEW x, NEW y, NEW z PROVE ~IsPrefix(<<x, y, z>>, <<alias>>)
  BY <1>1 DEF IsPrefix
<1> QED
  BY <1>2, <1>3, <1>4

\* The single words the policies list.
LEMMA ListedWords ==
  ASSUME NEW alias
  PROVE  /\ (\E c \in createReviewerPolicy(<<"w">>).allowedCommands : IsPrefix(c, <<alias>>))
              <=> alias \in {"jest", "vitest"}
         /\ (\E c \in createBuilderPolicy(<<"w">>).allowedCommands : IsPrefix(c, <<alias>>))
              <=> alias \in {"jest", "vitest", "tsc", "eslint", "prettier"}
<1> DEFINE One == {<<"jest">>, <<"vitest">>}
           OneB == One \cup {<<"tsc">>, <<"eslint">>, <<"prettier">>}
<1>1. /\ \A x : IsPrefix(<<x>>, <<alias>>) <=> x = alias
      /\ \A x, y : ~IsPrefix(<<x, y>>, <<alias>>)
      /\ \A x, y, z : ~IsPrefix(<<x, y, z>>, <<alias>>)
  BY OneWordPrefix
<1>2. createReviewerPolicy(<<"w">>).allowedCommands = TEST_COMMANDS
  BY DEF createReviewerPolicy, BasePolicy
<1>3. createBuilderPolicy(<<"w">>).allowedCommands =
        TEST_COMMANDS
          \cup {<<pm, "run", "build">> : pm \in {"npm", "yarn", "pnpm"}}
          \cup {<<"tsc">>, <<"eslint">>, <<"prettier">>, <<"npx", "prisma", "generate">>,
                <<"prisma", "generate">>}
  BY DEF createBuilderPolicy, BasePolicy
<1>4. \A c \in {<<"git", sub>> : sub \in SAFE_GIT_SUBCOMMANDS} \cup {<<"git", "branch", "--show-current">>}
               \cup {<<pm, "test">> : pm \in {"npm", "yarn", "pnpm"}} :
        ~IsPrefix(c, <<alias>>)
  BY <1>1
<1>5. \A c \in {<<pm, "run", script>> : pm \in {"npm", "yarn", "pnpm"}, script \in {"test", "lint"}} :
        ~IsPrefix(c, <<alias>>)
  <2> TAKE c \in {<<pm, "run", script>> : pm \in {"npm", "yarn", "pnpm"}, script \in {"test", "lint"}}
  <2>1. PICK pm \in {"npm", "yarn", "pnpm"}, script \in {"test", "lint"} : c = <<pm, "run", script>>
    OBVIOUS
  <2> QED
    BY <1>1, <2>1
<1>6. (\E c \in TEST_COMMANDS : IsPrefix(c, <<alias>>)) <=> alias \in {"jest", "vitest"}
  <2>1. (\E c \in TEST_COMMANDS : IsPrefix(c, <<alias>>)) <=> (\E c \in One : IsPrefix(c, <<alias>>))
    BY <1>4, <1>5 DEF TEST_COMMANDS
  <2> QED
    BY <1>1, <2>1
<1>7. \A c \in {<<pm, "run", "build">> : pm \in {"npm", "yarn", "pnpm"}}
               \cup {<<"npx", "prisma", "generate">>, <<"prisma", "generate">>} : ~IsPrefix(c, <<alias>>)
  BY <1>1
<1>8. (\E c \in {<<"tsc">>, <<"eslint">>, <<"prettier">>} : IsPrefix(c, <<alias>>))
        <=> alias \in {"tsc", "eslint", "prettier"}
  BY <1>1
<1>9. (\E c \in createBuilderPolicy(<<"w">>).allowedCommands : IsPrefix(c, <<alias>>))
        <=> \/ \E c \in TEST_COMMANDS : IsPrefix(c, <<alias>>)
            \/ \E c \in {<<"tsc">>, <<"eslint">>, <<"prettier">>} : IsPrefix(c, <<alias>>)
  BY <1>3, <1>7
<1> QED
  BY <1>2, <1>6, <1>8, <1>9

\* The lists of the policies of the gate are those they are made from.
LEMMA GateListing ==
  ASSUME NEW policy, NEW base \in GateBases,
         \/ policy = base
         \/ \E field \in {"trustedCodingAgentAliases", "trustedReviewerAgentAliases"}, alias \in Trusted :
              policy = [base EXCEPT ![field] = {Command(alias)}]
  PROVE  policy.allowedCommands = base.allowedCommands /\ policy # ABSENT
<1>1. policy \in GatePolicies
  BY DEF GatePolicies
<1>2. PICK root, commands : base = BasePolicy(root, commands)
  BY DEF GateBases, createBuilderPolicy, createReviewerPolicy
<1>3. ASSUME NEW field \in {"trustedCodingAgentAliases", "trustedReviewerAgentAliases"}, NEW alias \in Trusted,
             policy = [base EXCEPT ![field] = {Command(alias)}]
      PROVE  policy.allowedCommands = base.allowedCommands
  BY <1>2, <1>3 DEF BasePolicy
<1> QED
  BY <1>1, <1>3, GateAssumption

\* A word is admitted by itself exactly when the policy lists it.
LEMMA SingleWord ==
  ASSUME NEW alias \in Aliases, NEW policy
  PROVE  classifySingleCommand(Command(alias), policy) = "POLICY_ALLOWED" <=>
           /\ alias \notin {"git", "node", "npx"}
           /\ \E c \in policy.allowedCommands : IsPrefix(c, <<alias>>)
<1>1. PICK command : command = Command(alias)
  OBVIOUS
<1>2. command \in Seq({Bare(alias)}) /\ Len(command) = 1 /\ command[1] = Bare(alias) /\ command # <<>>
  BY <1>1 DEF Command
<1>3. tokenizeCommand(command) = <<alias>>
  BY <1>2 DEF tokenizeCommand, Bare
<1>4. ~detectShellWrappers(command) /\ ~detectDangerousPatterns(command)
  <2>1. DOMAIN command = {1} /\ command[1].t = alias
    BY <1>2 DEF Bare
  <2> QED
    <3>1. ~detectShellWrappers(command)
      BY <1>2 DEF detectShellWrappers
    <3>2. alias \notin {">", "$(x)", "&"}
      BY GateAssumption
    <3>3. Bare(">").t = ">"
      BY DEF Bare
    <3>4. ~detectDangerousPatterns(command)
      BY <2>1, <3>2, <3>3 DEF detectDangerousPatterns
    <3> QED
      BY <3>1, <3>4
<1>5. matchAgainstAllowed(<<alias>>, policy.allowedCommands)
        <=> \E c \in policy.allowedCommands : IsPrefix(c, <<alias>>)
  <2>1. Len(<<alias>>) = 1
    BY OneWord
  <2> QED
    BY <2>1 DEF matchAgainstAllowed
<1>6. classifyGitCommand(<<alias>>) = "COMMAND_NOT_ALLOWED"
  <2>1. Len(<<alias>>) < 2
    BY OneWord
  <2> QED
    BY <2>1, GateAssumption DEF classifyGitCommand
<1> QED
  <2> DEFINE listed == IF matchAgainstAllowed(<<alias>>, policy.allowedCommands)
                       THEN "POLICY_ALLOWED" ELSE "COMMAND_NOT_ALLOWED"
  <2>1. Len(<<alias>>) < 2 /\ <<alias>>[1] = alias
    BY OneWord
  <2>2. ~IsPrefix(<<"npx", "prisma", "generate">>, <<alias>>)
    BY OneWordPrefix
  <2>3. <<alias, ABSENT>> \notin {<<"npm", "exec">>, <<"pnpm", "exec">>, <<"yarn", "dlx">>}
    BY GateAssumption
  <2>4. classifySingleCommand(command, policy) =
          CASE alias = "git" -> classifyGitCommand(<<alias>>)
            [] alias = "node" -> IF "-e" \notin Range(<<alias>>) /\ ABSENT = "--version"
                                 THEN listed ELSE "COMMAND_NOT_ALLOWED"
            [] alias = "npx" -> IF IsPrefix(<<"npx", "prisma", "generate">>, <<alias>>)
                                THEN "POLICY_ALLOWED" ELSE "COMMAND_NOT_ALLOWED"
            [] <<alias, ABSENT>> \in {<<"npm", "exec">>, <<"pnpm", "exec">>, <<"yarn", "dlx">>} ->
                 "COMMAND_NOT_ALLOWED"
            [] OTHER -> listed
    BY <1>2, <1>3, <1>4, <2>1 DEF classifySingleCommand
  <2>5. CASE alias \in {"git", "node", "npx"}
    BY <1>1, <1>6, <2>2, <2>4, <2>5, GateAssumption
  <2>6. CASE alias \notin {"git", "node", "npx"}
    BY <1>1, <1>5, <2>3, <2>4, <2>6
  <2> QED
    BY <2>5, <2>6

\* The decision of the gate on a word: an alias of the policy, or a word of its list.
LEMMA WordAdmitted ==
  ASSUME NEW alias \in Aliases, NEW policy, NEW base \in GateBases, NEW executionProfile \in ExecutionProfile,
         \/ policy = base
         \/ \E field \in {"trustedCodingAgentAliases", "trustedReviewerAgentAliases"}, known \in Trusted :
              policy = [base EXCEPT ![field] = {Command(known)}],
         NEW ctx, ctx.requestedAction = "RUN_COMMAND", ctx.policy = policy,
         ctx.executionProfile = executionProfile, ctx.requestedCommand = Command(alias)
  PROVE  evaluatePolicy(ctx) = "POLICY_ALLOWED" <=>
           \/ TrustedAlias(Command(alias), executionProfile, policy)
           \/ alias \in {"jest", "vitest"}
           \/ base = createBuilderPolicy(<<"w">>) /\ base # createReviewerPolicy(<<"w">>)
              /\ alias \in {"tsc", "eslint", "prettier"}
<1>1. PICK command : command = Command(alias)
  OBVIOUS
<1>2. command \in Seq({Bare(alias)}) /\ Len(command) = 1 /\ command[1] = Bare(alias) /\ command # <<>>
  BY <1>1 DEF Command
<1>3. DOMAIN command = {1} /\ command[1].t = alias
  BY <1>2 DEF Bare
<1>4. policy # ABSENT /\ policy.allowedCommands = base.allowedCommands
  BY GateListing
<1>5. command # ABSENT
  BY <1>1, GateAssumption
<1>6. evaluatePolicy(ctx) = classifyCommand(command, executionProfile, policy)
  BY <1>1, <1>4, <1>5, CommandDecision
<1>7. Range(command) \cap ChainOperators = {}
  <2>1. Bare(alias) \notin ChainOperators
    <3>1. Bare(alias).t = alias
      BY DEF Bare
    <3> QED
      BY <3>1, OperatorText, GateAssumption
  <2> QED
    BY <1>2, <1>3, <2>1 DEF Range
<1>8. ~detectShellWrappers(command) /\ ~detectDangerousPatterns(command)
  <2>1. ~detectShellWrappers(command)
    BY <1>2 DEF detectShellWrappers
  <2>2. alias \notin {">", "$(x)", "&"}
    BY GateAssumption
  <2>3. Bare(">").t = ">"
    BY DEF Bare
  <2>4. ~detectDangerousPatterns(command)
    BY <1>3, <2>2, <2>3 DEF detectDangerousPatterns
  <2> QED
    BY <2>1, <2>4
<1>9. CASE TrustedAlias(command, executionProfile, policy)
  BY <1>1, <1>2, <1>6, <1>8, <1>9, CommandAdmitted
<1>10. CASE ~TrustedAlias(command, executionProfile, policy)
  <2>1. evaluatePolicy(ctx) = "POLICY_ALLOWED" <=> classifySingleCommand(command, policy) = "POLICY_ALLOWED"
    BY <1>2, <1>6, <1>7, <1>10, PartAlone
  <2>2. classifySingleCommand(command, policy) = "POLICY_ALLOWED" <=>
          /\ alias \notin {"git", "node", "npx"}
          /\ \E c \in base.allowedCommands : IsPrefix(c, <<alias>>)
    BY <1>1, <1>4, SingleWord
  <2>3. base = createBuilderPolicy(<<"w">>) \/ base = createReviewerPolicy(<<"w">>)
    BY DEF GateBases
  <2> QED
    BY <1>1, <1>10, <2>1, <2>2, <2>3, ListedWords
<1> QED
  BY <1>9, <1>10

\* What the policy of the gate admits for the provider as it is.
PolicyAdmits ==
  \/ PlainCommand(row.alias)
  \/ /\ row.alias \in Trusted
     /\ \/ purpose = "CODE_BUILD"
        \/ /\ row.type = "CLOUD_LLM"
           /\ \/ purpose = "CODE_PLAN"
              \/ purpose = "TEST_EXECUTION" /\ profile.test = row.alias
              \/ /\ purpose \in {"REVIEW_PACKAGE", "RED_TEAM", "RELEASE_VERIFICATION"}
                 /\ profile.launcher = row.alias

\* The router accepts the provider.
Routable ==
  /\ providerSupportsCapability /\ isProviderRoutable /\ QuotaLeft
  /\ resolveExecutionTier(row.type) # ABSENT

RowTyped ==
  /\ {"type", "alias"} \subseteq DOMAIN row
  /\ row.type \in {"LOCAL_TOOL", "CLOUD_LLM"} /\ row.alias \in Aliases

LEMMA BuilderIsNotReviewer == createBuilderPolicy(<<"w">>) # createReviewerPolicy(<<"w">>)
<1>1. /\ \E c \in createBuilderPolicy(<<"w">>).allowedCommands : IsPrefix(c, <<"tsc">>)
      /\ ~\E c \in createReviewerPolicy(<<"w">>).allowedCommands : IsPrefix(c, <<"tsc">>)
  BY ListedWords
<1> QED
  BY <1>1, Zenon

LEMMA SameCommand ==
  ASSUME NEW a, NEW b
  PROVE  Command(a) = Command(b) <=> a = b
<1>1. Command(a)[1].t = a /\ Command(b)[1].t = b
  BY DEF Command, Bare
<1> QED
  BY <1>1

\* The aliases of the policies of the gate.
LEMMA GateAliases ==
  ASSUME NEW base \in GateBases
  PROVE  /\ base.trustedCodingAgentAliases = {} /\ base.trustedReviewerAgentAliases = {}
         /\ \A known : [base EXCEPT !["trustedCodingAgentAliases"] = {Command(known)}].trustedCodingAgentAliases
                         = {Command(known)}
         /\ \A known : [base EXCEPT !["trustedReviewerAgentAliases"] = {Command(known)}].trustedReviewerAgentAliases
                         = {Command(known)}
<1>1. PICK root, commands : base = BasePolicy(root, commands)
  BY DEF GateBases, createBuilderPolicy, createReviewerPolicy
<1> QED
  BY <1>1 DEF BasePolicy

LEMMA NothingAugmented ==
  ASSUME NEW p, NEW e, NEW base,
         purpose # "CODE_BUILD", ~(purpose = "CODE_PLAN" /\ isCloudGovernedProviderType(p.type))
  PROVE  augmentBuilderPolicy(p, e, base) = base
BY DEF augmentBuilderPolicy

\* The policy the gate evaluates with, for the validated provider.
LEMMA GatePolicy ==
  ASSUME RowTyped, resolveExecutionTier(row.type) # ABSENT, d.alias = row.alias,
         purpose \in DOMAIN DEFAULT_CAPABILITY_PROFILES,
         NEW executionProfile, executionProfile = DEFAULT_CAPABILITY_PROFILES[purpose],
         NEW policy, policy = augmentBuilderPolicy(row, executionProfile,
                                resolveTrustedExecutionPolicy(executionProfile))
  PROVE  \/ /\ executionProfile = "BUILDER"
            /\ LET base == createBuilderPolicy(<<"w">>)
               IN  \/ /\ policy = With(base, "trustedCodingAgentAliases", row.alias)
                      /\ purpose = "CODE_BUILD" \/ (purpose = "CODE_PLAN" /\ row.type = "CLOUD_LLM")
                   \/ /\ policy = With(base, "trustedCodingAgentAliases", profile.test)
                      /\ purpose = "TEST_EXECUTION" /\ row.type = "CLOUD_LLM" /\ profile.test # ABSENT
                   \/ /\ policy = base
                      /\ \/ purpose = "CODE_PLAN" /\ row.type # "CLOUD_LLM"
                         \/ purpose = "TEST_EXECUTION" /\ (row.type # "CLOUD_LLM" \/ profile.test = ABSENT)
         \/ /\ executionProfile = "REVIEWER"
            /\ LET base == createReviewerPolicy(<<"w">>)
                   launched == {"REVIEW_PACKAGE", "RED_TEAM", "RELEASE_VERIFICATION"}
               IN  \/ /\ policy = With(base, "trustedReviewerAgentAliases", profile.launcher)
                      /\ purpose \in launched /\ row.type = "CLOUD_LLM"
                   \/ /\ policy = base
                      /\ purpose \notin launched \/ row.type # "CLOUD_LLM"
                      /\ purpose \notin {"CODE_PLAN", "CODE_BUILD", "TEST_EXECUTION"}
<1>1. /\ row.type = "LOCAL_TOOL" => profile = ABSENT
      /\ row.type = "CLOUD_LLM" => EnabledProfile
      /\ row.type \in {"LOCAL_TOOL", "CLOUD_LLM"}
  BY DEF resolveExecutionTier, RowTyped
<1>2. isProviderAuthorizedForCodingAgent(row)
  BY <1>1 DEF isProviderAuthorizedForCodingAgent
<1>3. purpose \in {"CODE_PLAN", "CODE_BUILD", "TEST_EXECUTION", "REVIEW_PACKAGE", "RED_TEAM",
                   "RELEASE_VERIFICATION", "CODE_REVIEW", "SECURITY_REVIEW"}
  BY DEF DEFAULT_CAPABILITY_PROFILES
<1>4. CASE purpose \in {"CODE_PLAN", "CODE_BUILD", "TEST_EXECUTION"}
  <2>1. executionProfile = "BUILDER"
    BY <1>4 DEF DEFAULT_CAPABILITY_PROFILES
  <2>2. resolveTrustedExecutionPolicy(executionProfile) = resolveBuilderPolicy
    BY <2>1 DEF resolveTrustedExecutionPolicy
  <2>3. CASE purpose = "CODE_BUILD" \/ (purpose = "CODE_PLAN" /\ row.type = "CLOUD_LLM")
    <3>1. resolveBuilderPolicy = createBuilderPolicy(<<"w">>)
      BY <2>3 DEF resolveBuilderPolicy
    <3>2. policy = With(createBuilderPolicy(<<"w">>), "trustedCodingAgentAliases", row.alias)
      BY <1>2, <2>1, <2>2, <2>3, <3>1 DEF augmentBuilderPolicy, isCloudGovernedProviderType
    <3> QED
      BY <2>1, <2>3, <3>2
  <2>4. CASE ~(purpose = "CODE_BUILD" \/ (purpose = "CODE_PLAN" /\ row.type = "CLOUD_LLM"))
    <3>1. policy = resolveBuilderPolicy
      <4>1. purpose # "CODE_BUILD" /\ ~(purpose = "CODE_PLAN" /\ isCloudGovernedProviderType(row.type))
        BY <2>4 DEF isCloudGovernedProviderType
      <4>2. augmentBuilderPolicy(row, executionProfile, resolveBuilderPolicy) = resolveBuilderPolicy
        BY <4>1, NothingAugmented
      <4> QED
        BY <2>2, <4>2
    <3>2. CASE purpose = "TEST_EXECUTION" /\ row.type = "CLOUD_LLM" /\ profile.test # ABSENT
      BY <1>1, <2>1, <3>1, <3>2 DEF resolveBuilderPolicy, isCloudGovernedProviderType
    <3>3. CASE ~(purpose = "TEST_EXECUTION" /\ row.type = "CLOUD_LLM" /\ profile.test # ABSENT)
      <4>1. ~(/\ purpose = "TEST_EXECUTION" /\ isCloudGovernedProviderType(row.type)
              /\ EnabledProfile /\ profile.test # ABSENT)
        BY <3>3 DEF isCloudGovernedProviderType
      <4>2. resolveBuilderPolicy = createBuilderPolicy(<<"w">>)
        BY <4>1 DEF resolveBuilderPolicy, isCloudGovernedProviderType, EnabledProfile
      <4> QED
        BY <1>4, <2>1, <2>4, <3>1, <3>3, <4>2
    <3> QED
      BY <3>2, <3>3
  <2> QED
    BY <2>3, <2>4
<1>5. CASE purpose \notin {"CODE_PLAN", "CODE_BUILD", "TEST_EXECUTION"}
  <2>1. executionProfile = "REVIEWER"
    BY <1>3, <1>5 DEF DEFAULT_CAPABILITY_PROFILES
  <2>2. policy = resolveReviewerPolicy
    BY <2>1 DEF resolveTrustedExecutionPolicy, augmentBuilderPolicy
  <2> QED
    BY <1>1, <1>5, <2>1, <2>2 DEF resolveReviewerPolicy, isCloudGovernedProviderType
<1> QED
  BY <1>4, <1>5

\* What an alias of a policy of the gate amounts to.
LEMMA WithAdmits ==
  ASSUME NEW base \in GateBases, NEW known, NEW alias, NEW executionProfile, NEW field,
         \/ executionProfile = "BUILDER" /\ field = "trustedCodingAgentAliases"
         \/ executionProfile = "REVIEWER" /\ field = "trustedReviewerAgentAliases"
  PROVE  /\ ~TrustedAlias(Command(alias), executionProfile, base)
         /\ TrustedAlias(Command(alias), executionProfile, With(base, field, known))
              <=> known \in Trusted /\ alias = known
         /\ \/ With(base, field, known) = base
            \/ known \in Trusted /\ With(base, field, known) = [base EXCEPT ![field] = {Command(known)}]
<1>1. base.trustedCodingAgentAliases = {} /\ base.trustedReviewerAgentAliases = {}
  BY GateAliases
<1>2. ~TrustedAlias(Command(alias), executionProfile, base)
  BY <1>1 DEF TrustedAlias
<1>3. CASE known \notin Trusted
  <2>1. With(base, field, known) = base
    BY <1>3 DEF With, TrustedExecutable
  <2> QED
    BY <1>2, <1>3, <2>1
<1>4. CASE known \in Trusted
  <2>1. PICK policy : policy = With(base, field, known) /\ policy = [base EXCEPT ![field] = {Command(known)}]
    BY <1>4 DEF With, TrustedExecutable
  <2>2. CASE executionProfile = "BUILDER" /\ field = "trustedCodingAgentAliases"
    <3>1. policy.trustedCodingAgentAliases = {Command(known)}
      BY <2>1, <2>2, GateAliases
    <3>2. TrustedAlias(Command(alias), executionProfile, policy) <=> Command(alias) = Command(known)
      BY <2>2, <3>1 DEF TrustedAlias
    <3> QED
      BY <1>2, <1>4, <2>1, <3>2, SameCommand
  <2>3. CASE executionProfile = "REVIEWER" /\ field = "trustedReviewerAgentAliases"
    <3>1. policy.trustedReviewerAgentAliases = {Command(known)}
      BY <2>1, <2>3, GateAliases
    <3>2. TrustedAlias(Command(alias), executionProfile, policy) <=> Command(alias) = Command(known)
      BY <2>3, <3>1 DEF TrustedAlias
    <3> QED
      BY <1>2, <1>4, <2>1, <3>2, SameCommand
  <2> QED
    BY <2>2, <2>3
<1> QED
  BY <1>3, <1>4

\* The decision of the gate, for a provider nobody wrote since it was routed.
LEMMA GateDecision ==
  ASSUME RowTyped, resolveExecutionTier(row.type) # ABSENT, d.alias = row.alias, d.provider = row,
         purpose \in DOMAIN DEFAULT_CAPABILITY_PROFILES
  PROVE  evaluatePolicy(createPolicyEvaluationContext(d.provider, DEFAULT_CAPABILITY_PROFILES[purpose]))
           = "POLICY_ALLOWED" <=> PolicyAdmits
<1>1. PICK executionProfile, policy, ctx, alias, builderBase, reviewerBase :
        /\ executionProfile = DEFAULT_CAPABILITY_PROFILES[purpose]
        /\ policy = augmentBuilderPolicy(row, executionProfile, resolveTrustedExecutionPolicy(executionProfile))
        /\ ctx = createPolicyEvaluationContext(row, executionProfile)
        /\ alias = row.alias
        /\ builderBase = createBuilderPolicy(<<"w">>) /\ reviewerBase = createReviewerPolicy(<<"w">>)
  OBVIOUS
<1>2. /\ ctx.requestedAction = "RUN_COMMAND" /\ ctx.policy = policy
      /\ ctx.executionProfile = executionProfile /\ ctx.requestedCommand = Command(alias)
  BY <1>1 DEF createPolicyEvaluationContext
<1>3. alias \in Aliases /\ builderBase \in GateBases /\ reviewerBase \in GateBases /\ builderBase # reviewerBase
  BY <1>1, BuilderIsNotReviewer DEF RowTyped, GateBases
<1>4. {"BUILDER", "REVIEWER"} \subseteq ExecutionProfile
  BY DEF ExecutionProfile
<1>5. ASSUME executionProfile = "BUILDER", NEW known,
             policy = builderBase \/ policy = With(builderBase, "trustedCodingAgentAliases", known)
      PROVE  evaluatePolicy(ctx) = "POLICY_ALLOWED" <=>
               PlainCommand(alias) \/ TrustedAlias(Command(alias), "BUILDER", policy)
  <2>1. evaluatePolicy(ctx) = "POLICY_ALLOWED" <=>
          \/ TrustedAlias(Command(alias), "BUILDER", policy) \/ alias \in {"jest", "vitest"}
          \/ alias \in {"tsc", "eslint", "prettier"}
    <3>1. \/ policy = builderBase
          \/ known \in Trusted /\ policy = [builderBase EXCEPT !["trustedCodingAgentAliases"] = {Command(known)}]
      BY <1>3, <1>5, WithAdmits
    <3> QED
      BY <1>1, <1>2, <1>3, <1>4, <1>5, <3>1, WordAdmitted
  <2> QED
    BY <1>1, <1>5, <2>1 DEF PlainCommand
<1>6. ASSUME executionProfile = "REVIEWER", NEW known,
             policy = reviewerBase \/ policy = With(reviewerBase, "trustedReviewerAgentAliases", known)
      PROVE  evaluatePolicy(ctx) = "POLICY_ALLOWED" <=>
               PlainCommand(alias) \/ TrustedAlias(Command(alias), "REVIEWER", policy)
  <2>1. evaluatePolicy(ctx) = "POLICY_ALLOWED" <=>
          \/ TrustedAlias(Command(alias), "REVIEWER", policy) \/ alias \in {"jest", "vitest"}
    <3>1. \/ policy = reviewerBase
          \/ known \in Trusted /\ policy = [reviewerBase EXCEPT !["trustedReviewerAgentAliases"] = {Command(known)}]
      BY <1>3, <1>6, WithAdmits
    <3> QED
      BY <1>1, <1>2, <1>3, <1>4, <1>6, <3>1, WordAdmitted
  <2> QED
    BY <1>1, <1>6, <2>1 DEF PlainCommand
<1>7. CASE /\ executionProfile = "BUILDER" /\ policy = With(builderBase, "trustedCodingAgentAliases", alias)
           /\ purpose = "CODE_BUILD" \/ (purpose = "CODE_PLAN" /\ row.type = "CLOUD_LLM")
  <2>1. TrustedAlias(Command(alias), "BUILDER", policy) <=> alias \in Trusted
    BY <1>3, <1>7, WithAdmits
  <2> QED
    BY <1>1, <1>5, <1>7, <2>1 DEF PolicyAdmits
<1>8. CASE /\ executionProfile = "BUILDER" /\ policy = With(builderBase, "trustedCodingAgentAliases", profile.test)
           /\ purpose = "TEST_EXECUTION" /\ row.type = "CLOUD_LLM" /\ profile.test # ABSENT
  <2>1. TrustedAlias(Command(alias), "BUILDER", policy) <=> alias \in Trusted /\ alias = profile.test
    BY <1>3, <1>8, WithAdmits
  <2> QED
    BY <1>1, <1>5, <1>8, <2>1 DEF PolicyAdmits
<1>9. CASE /\ executionProfile = "BUILDER" /\ policy = builderBase
           /\ \/ purpose = "CODE_PLAN" /\ row.type # "CLOUD_LLM"
              \/ purpose = "TEST_EXECUTION" /\ (row.type # "CLOUD_LLM" \/ profile.test = ABSENT)
  <2>1. ~TrustedAlias(Command(alias), "BUILDER", policy)
    BY <1>3, <1>9, WithAdmits
  <2>2. alias # ABSENT
    BY <1>3, GateAssumption
  <2> QED
    BY <1>1, <1>5, <1>9, <2>1, <2>2 DEF PolicyAdmits
<1>10. CASE /\ executionProfile = "REVIEWER" /\ policy = With(reviewerBase, "trustedReviewerAgentAliases", profile.launcher)
            /\ purpose \in {"REVIEW_PACKAGE", "RED_TEAM", "RELEASE_VERIFICATION"} /\ row.type = "CLOUD_LLM"
  <2>1. TrustedAlias(Command(alias), "REVIEWER", policy) <=> alias \in Trusted /\ alias = profile.launcher
    BY <1>3, <1>10, WithAdmits
  <2> QED
    BY <1>1, <1>6, <1>10, <2>1 DEF PolicyAdmits
<1>11. CASE /\ executionProfile = "REVIEWER" /\ policy = reviewerBase
            /\ purpose \notin {"REVIEW_PACKAGE", "RED_TEAM", "RELEASE_VERIFICATION"} \/ row.type # "CLOUD_LLM"
            /\ purpose \notin {"CODE_PLAN", "CODE_BUILD", "TEST_EXECUTION"}
  <2>1. ~TrustedAlias(Command(alias), "REVIEWER", policy)
    BY <1>3, <1>11, WithAdmits
  <2> QED
    BY <1>1, <1>6, <1>11, <2>1 DEF PolicyAdmits
<1>12. evaluatePolicy(ctx) = "POLICY_ALLOWED" <=> PolicyAdmits
  BY <1>1, <1>7, <1>8, <1>9, <1>10, <1>11, GatePolicy
<1> QED
  BY <1>1, <1>12

-----------------------------------------------------------------------------
(* The gate of a provider.                                                 *)

\* The fields of a dispatch.
DispatchShape ==
  d = [pc |-> d.pc, alias |-> d.alias, target |-> d.target, provider |-> d.provider,
       policy |-> d.policy, credential |-> d.credential, outcome |-> d.outcome]

GateInv == DispatchShape /\ CodeBuildInItsTier /\ CloudHasCredential

\* A refused dispatch did not execute.
LEMMA RefusedStep ==
  ASSUME GateInv, NEW code, code # "EXECUTED", Outcome(code)
  PROVE  GateInv'
<1>1. d' = [d EXCEPT !.pc = "done", !.outcome = code]
  BY DEF Outcome
<1>2. d'.outcome = code /\ DispatchShape'
  BY <1>1 DEF GateInv, DispatchShape
<1> QED
  BY <1>2 DEF GateInv, CodeBuildInItsTier, CloudHasCredential, Executed

\* A dispatch that goes on has not executed yet.
LEMMA ProceedStep ==
  ASSUME GateInv, NEW pc, pc # "done", NEW field \in {"provider", "policy", "credential"}, NEW value,
         Proceed(pc, field, value)
  PROVE  GateInv'
<1>1. d' = [d EXCEPT !.pc = pc, ![field] = value]
  BY DEF Proceed
<1>2. d'.pc = pc /\ DispatchShape'
  BY <1>1 DEF GateInv, DispatchShape
<1> QED
  BY <1>2 DEF GateInv, CodeBuildInItsTier, CloudHasCredential, Executed

\* Nobody else writes the dispatch.
LEMMA AdministratorStep ==
  ASSUME GateInv, UNCHANGED <<purpose, d>>
  PROVE  GateInv'
BY DEF GateInv, DispatchShape, CodeBuildInItsTier, CloudHasCredential, Executed

LEMMA RouteStep ==
  ASSUME GateInv, Route
  PROVE  GateInv'
<1>1. CASE \E code \in {"NO_ELIGIBLE_AGENT_PROVIDER", "AGENT_PROVIDER_ADAPTER_NOT_READY"} : Outcome(code)
  BY <1>1, RefusedStep
<1>2. ASSUME NEW target, d' = [d EXCEPT !.pc = "routed", !.alias = row.alias, !.target = target]
      PROVE  GateInv'
  <2>1. d'.pc = "routed" /\ DispatchShape'
    BY <1>2 DEF GateInv, DispatchShape
  <2> QED
    BY <2>1 DEF GateInv, CodeBuildInItsTier, CloudHasCredential, Executed
<1> QED
  BY <1>1, <1>2 DEF Route

LEMMA ValidateStep ==
  ASSUME GateInv, Validate
  PROVE  GateInv'
<1>1. resolveAndValidateProvider # ABSENT => resolveAndValidateProvider # "EXECUTED"
  BY DEF resolveAndValidateProvider
<1>2. \/ Outcome("CODE_BUILD_TARGET_MISMATCH") \/ Outcome("EXECUTION_PROFILE_NOT_GOVERNED")
      \/ Proceed("validated", "provider", resolveProvider)
      \/ resolveAndValidateProvider # ABSENT /\ Outcome(resolveAndValidateProvider)
  BY DEF Validate
<1> QED
  BY <1>1, <1>2, RefusedStep, ProceedStep

LEMMA DecideStep ==
  ASSUME GateInv, Decide
  PROVE  GateInv'
<1>1. PICK code : IF code = "POLICY_ALLOWED" THEN Proceed("decided", "policy", code)
                  ELSE Outcome(policyDecisionToOutcome(code))
  BY DEF Decide
<1>2. code # "POLICY_ALLOWED" => policyDecisionToOutcome(code) # "EXECUTED"
  BY DEF policyDecisionToOutcome
<1> QED
  BY <1>1, <1>2, RefusedStep, ProceedStep

LEMMA ResolveCredentialsStep ==
  ASSUME GateInv, ResolveCredentials
  PROVE  GateInv'
<1>1. PICK reference : \/ Outcome("CREDENTIAL_INJECTION_FAILED") \/ Outcome("EXECUTABLE_NOT_TRUSTED")
                       \/ Proceed("ready", "credential", reference)
  BY DEF ResolveCredentials
<1> QED
  BY <1>1, RefusedStep, ProceedStep

\* The adapter has the last word: it executes only what it has checked itself.
LEMMA ExecuteStep ==
  ASSUME GateInv, Execute
  PROVE  GateInv'
<1>1. PICK code : /\ code = IF d.provider.type = "LOCAL_TOOL" THEN localAdapter ELSE cloudAdapter
                  /\ Outcome(code)
  BY DEF Execute
<1>2. CASE code # "EXECUTED"
  BY <1>1, <1>2, RefusedStep
<1>3. CASE code = "EXECUTED"
  <2>1. d.provider.type # "LOCAL_TOOL" => codeBuildTargetMatchesContext("CLOUD_GOVERNED") /\ d.credential # ABSENT
    BY <1>1, <1>3 DEF cloudAdapter
  <2>2. d.provider.type = "LOCAL_TOOL" => codeBuildTargetMatchesContext("LOCAL_ISOLATED")
    BY <1>1, <1>3 DEF localAdapter
  <2>3. d' = [d EXCEPT !.pc = "done", !.outcome = code] /\ purpose' = purpose
    BY <1>1 DEF Outcome, Execute, Unwritten
  <2>4. /\ DispatchShape' /\ d'.provider = d.provider /\ d'.target = d.target
        /\ d'.alias = d.alias /\ d'.credential = d.credential
    BY <2>3 DEF GateInv, DispatchShape
  <2>5. CodeBuildInItsTier'
    BY <2>1, <2>2, <2>3, <2>4 DEF CodeBuildInItsTier, codeBuildTargetMatchesContext
  <2>6. CloudHasCredential'
    BY <2>1, <2>4 DEF CloudHasCredential
  <2> QED
    BY <2>4, <2>5, <2>6 DEF GateInv
<1> QED
  BY <1>2, <1>3

LEMMA GateInitInv == GateInit => GateInv
<1> SUFFICES ASSUME GateInit PROVE GateInv
  OBVIOUS
<1>1. d = NoDispatch
  BY DEF GateInit
<1> QED
  BY <1>1 DEF NoDispatch, GateInv, DispatchShape, CodeBuildInItsTier, CloudHasCredential, Executed

LEMMA GateNextInv == GateInv /\ [GateNext]_gateVars => GateInv'
<1> SUFFICES ASSUME GateInv, [GateNext]_gateVars PROVE GateInv'
  OBVIOUS
<1>1. ASSUME NEW a \in Admins, NEW patch \in UpdateInputs, updateProvider(a, patch) PROVE GateInv'
  BY <1>1, AdministratorStep DEF updateProvider
<1>2. ASSUME NEW a \in Admins, activateProvider(a) \/ WriteProvider(a) PROVE GateInv'
  BY <1>2, AdministratorStep DEF activateProvider, WriteProvider
<1>3. ASSUME NEW l \in LinkKinds, NEW enabled \in BOOLEAN,
             assignCapability(l, enabled) \/ setCapabilityEnabled(l, enabled)
      PROVE  GateInv'
  BY <1>3, AdministratorStep DEF assignCapability, setCapabilityEnabled
<1>4. ASSUME NEW health, NEW quota, recordProbe(health, quota) PROVE GateInv'
  BY <1>4, AdministratorStep DEF recordProbe
<1>5. CASE Route \/ Validate \/ Decide \/ ResolveCredentials \/ Execute
  BY <1>5, RouteStep, ValidateStep, DecideStep, ResolveCredentialsStep, ExecuteStep
<1>6. CASE UNCHANGED gateVars
  BY <1>6, AdministratorStep DEF gateVars
<1> QED
  BY <1>1, <1>2, <1>3, <1>4, <1>5, <1>6 DEF GateNext

LEMMA GateInvariance == GateSpec => []GateInv
BY GateInitInv, GateNextInv, PTL DEF GateSpec

\* A build runs in the tier and with the command its approval was consumed for,
\* whatever was written between the reads of the dispatch
\* (codeBuildTargetMatchesContext, in both adapters).
THEOREM BuildsInTheirTier == GateSpec => []CodeBuildInItsTier
<1>1. GateInv => CodeBuildInItsTier
  BY DEF GateInv
<1> QED
  BY <1>1, GateInvariance, PTL

\* No agent is started in the cloud without a credential reference, even for a
\* provider that two updates left declaring that it needs none
\* (CloudGovernedAgentAdapter.execute).
THEOREM CloudNeedsCredential == GateSpec => []CloudHasCredential
<1>1. GateInv => CloudHasCredential
  BY DEF GateInv
<1> QED
  BY <1>1, GateInvariance, PTL

-----------------------------------------------------------------------------
(* The gate is exact.                                                      *)

\* What an administrator is about to write leaves a row of a known type and
\* with a valid alias.
KeepsTypes(patch) ==
  /\ "type" \in DOMAIN patch => patch["type"] \in {"LOCAL_TOOL", "CLOUD_LLM"}
  /\ "alias" \in DOMAIN patch => patch["alias"] \in Aliases

AdminTyped ==
  /\ admin = [a \in Admins |-> admin[a]]
  /\ \A a \in Admins : admin[a] # ABSENT => KeepsTypes(admin[a])

TargetOf == IF purpose # "CODE_BUILD" THEN ABSENT
            ELSE buildCodeBuildExecutionTarget(resolveExecutionTier(row.type), row.alias)

\* The credential the invocation asks for.
ReferenceOf == IF row.cred = "REQUIRED" THEN getCredentialReference ELSE ABSENT

\* What a dispatch has established about the provider at each of its reads,
\* while nobody writes it: each read found the same row.
Established ==
  /\ d.pc \in {"routed", "validated", "decided", "ready"} =>
       Routable /\ d.alias = row.alias /\ d.target = TargetOf
  /\ d.pc \in {"validated", "decided", "ready"} =>
       purpose \in DOMAIN DEFAULT_CAPABILITY_PROFILES /\ d.provider = row
  /\ d.pc \in {"decided", "ready"} => PolicyAdmits
  /\ d.pc = "ready" =>
       /\ row.alias \in Trusted
       /\ d.credential = ReferenceOf /\ (row.cred = "NOT_REQUIRED" \/ ReferenceOf # ABSENT)
  /\ d.pc = "done" => (Executed <=> Usable)

ExactInv ==
  /\ DispatchShape /\ RowTyped /\ AdminTyped
  /\ d.pc = "idle" => ~moved
  /\ ~moved => Established

LEMMA SameProvider ==
  ASSUME UNCHANGED <<purpose, profile, row, link>>
  PROVE  /\ Routable' <=> Routable
         /\ TargetOf' = TargetOf /\ ReferenceOf' = ReferenceOf
         /\ PolicyAdmits' <=> PolicyAdmits
         /\ Usable' <=> Usable
         /\ RowTyped' <=> RowTyped
<1>1. purpose' = purpose /\ profile' = profile /\ row' = row /\ link' = link
  OBVIOUS
<1>2. /\ Routable' <=> Routable
      /\ TargetOf' = TargetOf
  BY <1>1 DEF Routable, TargetOf, providerSupportsCapability, isProviderRoutable, QuotaLeft, resolveExecutionTier,
              EnabledProfile
<1>3. ReferenceOf' = ReferenceOf
  BY <1>1 DEF ReferenceOf, getCredentialReference, EnabledProfile
<1>4. PolicyAdmits' <=> PolicyAdmits
  BY <1>1 DEF PolicyAdmits, PlainCommand
<1>5. Usable' <=> Usable
  BY <1>1 DEF Usable, PlainCommand, providerSupportsCapability, isProviderRoutable, QuotaLeft, EnabledProfile
<1>6. RowTyped' <=> RowTyped
  BY <1>1 DEF RowTyped
<1> QED
  BY <1>2, <1>3, <1>4, <1>5, <1>6

\* What a usable provider has, in the order the dispatch asks for it.
LEMMA UsableHas ==
  ASSUME RowTyped, Usable
  PROVE  /\ Routable
         /\ purpose \in DOMAIN DEFAULT_CAPABILITY_PROFILES
         /\ PolicyAdmits
         /\ row.alias \in Trusted
         /\ row.cred = "NOT_REQUIRED" \/ ReferenceOf # ABSENT
<1>1. Routable
  BY GateAssumption DEF Usable, Routable, resolveExecutionTier
<1>2. PolicyAdmits
  BY DEF Usable, PolicyAdmits
<1>3. row.cred = "NOT_REQUIRED" \/ ReferenceOf # ABSENT
  BY GateAssumption DEF Usable, ReferenceOf, getCredentialReference
<1> QED
  BY <1>1, <1>2, <1>3 DEF Usable

\* A refusal is exact when the provider is not usable.
LEMMA ExactRefusal ==
  ASSUME ExactInv, NEW code, code # "EXECUTED", Outcome(code),
         UNCHANGED <<purpose, profile, row, link, admin>>, ~moved' => ~Usable
  PROVE  ExactInv'
<1>1. d' = [d EXCEPT !.pc = "done", !.outcome = code]
  BY DEF Outcome
<1>2. d'.pc = "done" /\ d'.outcome = code /\ DispatchShape'
  BY <1>1 DEF ExactInv, DispatchShape
<1>3. RowTyped' /\ AdminTyped' /\ (Usable' <=> Usable)
  BY SameProvider DEF ExactInv, AdminTyped
<1>4. ~Executed'
  BY <1>2 DEF Executed
<1>5. ~moved' => Established'
  BY <1>2, <1>3, <1>4 DEF Established
<1> QED
  BY <1>2, <1>3, <1>5 DEF ExactInv

LEMMA ExactRoute ==
  ASSUME ExactInv, Route
  PROVE  ExactInv'
<1>1. UNCHANGED <<purpose, profile, row, link, admin>> /\ moved' = FALSE
  BY DEF Route
<1>2. CASE ~(providerSupportsCapability /\ isProviderRoutable /\ QuotaLeft)
  <2>1. Outcome("NO_ELIGIBLE_AGENT_PROVIDER")
    BY <1>2 DEF Route
  <2>2. ~Usable
    BY <1>2 DEF Usable
  <2> QED
    BY <1>1, <2>1, <2>2, ExactRefusal
<1>3. CASE /\ providerSupportsCapability /\ isProviderRoutable /\ QuotaLeft
           /\ resolveExecutionTier(row.type) = ABSENT
  <2>1. Outcome("AGENT_PROVIDER_ADAPTER_NOT_READY")
    BY <1>3 DEF Route
  <2>2. ~Usable
    BY <1>3, UsableHas DEF Routable, ExactInv
  <2> QED
    BY <1>1, <2>1, <2>2, ExactRefusal
<1>4. CASE Routable
  <2>1. d' = [d EXCEPT !.pc = "routed", !.alias = row.alias, !.target = TargetOf]
    BY <1>4 DEF Route, Routable, TargetOf
  <2>2. /\ DispatchShape' /\ d'.pc = "routed" /\ d'.alias = row.alias /\ d'.target = TargetOf
    BY <2>1 DEF ExactInv, DispatchShape
  <2>3. RowTyped' /\ AdminTyped' /\ Routable' /\ TargetOf' = TargetOf
    BY <1>1, <1>4, SameProvider DEF ExactInv, AdminTyped
  <2>4. Established'
    BY <1>1, <2>2, <2>3 DEF Established
  <2> QED
    BY <1>1, <2>2, <2>3, <2>4 DEF ExactInv
<1> QED
  BY <1>2, <1>3, <1>4 DEF Routable

\* A dispatch that goes on keeps what it has established.
LEMMA ExactProceed ==
  ASSUME ExactInv, NEW pc \in {"validated", "decided", "ready"},
         NEW field \in {"provider", "policy", "credential"}, NEW value,
         Proceed(pc, field, value), Unwritten, d.pc \in {"routed", "validated", "decided"},
         field # "provider" \/ d.pc = "routed",
         ~moved => /\ pc \in {"validated", "decided", "ready"} =>
                        /\ purpose \in DOMAIN DEFAULT_CAPABILITY_PROFILES
                        /\ (IF field = "provider" THEN value ELSE d.provider) = row
                   /\ pc \in {"decided", "ready"} => PolicyAdmits
                   /\ pc = "ready" =>
                        /\ field = "credential" /\ row.alias \in Trusted
                        /\ value = ReferenceOf /\ (row.cred = "NOT_REQUIRED" \/ ReferenceOf # ABSENT)
  PROVE  ExactInv'
<1>1. UNCHANGED <<purpose, profile, row, link, admin, moved>>
  BY DEF Unwritten
<1>2. d' = [d EXCEPT !.pc = pc, ![field] = value]
  BY DEF Proceed
<1>3. /\ DispatchShape' /\ d'.pc = pc /\ d'.alias = d.alias /\ d'.target = d.target
      /\ d'.provider = (IF field = "provider" THEN value ELSE d.provider)
      /\ d'.credential = (IF field = "credential" THEN value ELSE d.credential)
  BY <1>2 DEF ExactInv, DispatchShape
<1>4. /\ RowTyped' /\ AdminTyped' /\ (Routable' <=> Routable) /\ TargetOf' = TargetOf
      /\ ReferenceOf' = ReferenceOf /\ (PolicyAdmits' <=> PolicyAdmits)
  BY <1>1, SameProvider DEF ExactInv, AdminTyped
<1>5. ~moved => Routable /\ d.alias = row.alias /\ d.target = TargetOf
  BY DEF ExactInv, Established
<1>6. ~moved' => Established'
  BY <1>1, <1>3, <1>4, <1>5 DEF Established
<1> QED
  BY <1>1, <1>3, <1>4, <1>6 DEF ExactInv

LEMMA ExactValidate ==
  ASSUME ExactInv, Validate
  PROVE  ExactInv'
<1>1. UNCHANGED <<purpose, profile, row, link, admin, moved>> /\ Unwritten /\ d.pc = "routed"
  BY DEF Validate, Unwritten
<1>2. ~moved => Routable /\ d.alias = row.alias /\ d.target = TargetOf
  BY <1>1 DEF ExactInv, Established
<1>3. ~moved => assertTrustedOperation
  <2> SUFFICES ASSUME ~moved, purpose = "CODE_BUILD"
      PROVE  d.target # ABSENT /\ d.target.alias = d.alias
    BY DEF assertTrustedOperation
  <2>1. d.target = [tier |-> resolveExecutionTier(row.type), alias |-> row.alias]
    BY <1>2 DEF TargetOf, buildCodeBuildExecutionTarget
  <2>2. resolveExecutionTier(row.type) \in {"LOCAL_ISOLATED", "CLOUD_GOVERNED"} /\ row.alias \in Aliases
    BY <1>2 DEF Routable, resolveExecutionTier, ExactInv, RowTyped
  <2>3. d.target \in [tier : {"LOCAL_ISOLATED", "CLOUD_GOVERNED"}, alias : Aliases] /\ d.target.alias = row.alias
    BY <2>1, <2>2
  <2>4. d.target # ABSENT
    BY <2>3, GateAssumption
  <2> QED
    BY <1>2, <2>3, <2>4
<1>4. ~moved => resolveAndValidateProvider = ABSENT
  BY <1>2 DEF Routable, resolveAndValidateProvider
<1>5. CASE ~assertTrustedOperation
  <2>1. Outcome("CODE_BUILD_TARGET_MISMATCH")
    BY <1>5 DEF Validate
  <2> QED
    BY <1>1, <1>3, <1>5, <2>1, ExactRefusal
<1>6. CASE assertTrustedOperation /\ resolveAndValidateProvider # ABSENT
  <2>1. Outcome(resolveAndValidateProvider)
    BY <1>6 DEF Validate
  <2>2. resolveAndValidateProvider # "EXECUTED"
    BY <1>6 DEF resolveAndValidateProvider
  <2> QED
    BY <1>1, <1>4, <1>6, <2>1, <2>2, ExactRefusal
<1>7. CASE /\ assertTrustedOperation /\ resolveAndValidateProvider = ABSENT
           /\ purpose \notin DOMAIN DEFAULT_CAPABILITY_PROFILES
  <2>1. Outcome("EXECUTION_PROFILE_NOT_GOVERNED")
    BY <1>7 DEF Validate
  <2>2. ~Usable
    BY <1>7 DEF Usable
  <2> QED
    BY <1>1, <2>1, <2>2, ExactRefusal
<1>8. CASE /\ assertTrustedOperation /\ resolveAndValidateProvider = ABSENT
           /\ purpose \in DOMAIN DEFAULT_CAPABILITY_PROFILES
  <2>1. Proceed("validated", "provider", row)
    BY <1>8 DEF Validate, resolveProvider
  <2> QED
    BY <1>1, <1>8, <2>1, ExactProceed
<1> QED
  BY <1>5, <1>6, <1>7, <1>8

LEMMA ExactDecide ==
  ASSUME ExactInv, Decide
  PROVE  ExactInv'
<1>1. UNCHANGED <<purpose, profile, row, link, admin, moved>> /\ Unwritten /\ d.pc = "validated"
  BY DEF Decide, Unwritten
<1>2. ~moved => /\ Routable /\ d.alias = row.alias
                /\ purpose \in DOMAIN DEFAULT_CAPABILITY_PROFILES /\ d.provider = row
  BY <1>1 DEF ExactInv, Established
<1>3. PICK code : /\ code = evaluatePolicy(createPolicyEvaluationContext(
                                d.provider, DEFAULT_CAPABILITY_PROFILES[purpose]))
                  /\ IF code = "POLICY_ALLOWED" THEN Proceed("decided", "policy", code)
                     ELSE Outcome(policyDecisionToOutcome(code))
  BY DEF Decide
<1>4. ~moved => (code = "POLICY_ALLOWED" <=> PolicyAdmits)
  BY <1>2, <1>3, GateDecision DEF ExactInv, Routable
<1>5. CASE code = "POLICY_ALLOWED"
  BY <1>1, <1>2, <1>3, <1>4, <1>5, ExactProceed
<1>6. CASE code # "POLICY_ALLOWED"
  <2>1. policyDecisionToOutcome(code) # "EXECUTED"
    BY <1>6 DEF policyDecisionToOutcome
  <2>2. ~moved => ~Usable
    BY <1>4, <1>6, UsableHas DEF ExactInv
  <2> QED
    BY <1>1, <1>3, <1>6, <2>1, <2>2, ExactRefusal
<1> QED
  BY <1>5, <1>6

LEMMA ExactResolveCredentials ==
  ASSUME ExactInv, ResolveCredentials
  PROVE  ExactInv'
<1>1. UNCHANGED <<purpose, profile, row, link, admin, moved>> /\ Unwritten /\ d.pc = "decided"
  BY DEF ResolveCredentials, Unwritten
<1>2. ~moved => /\ Routable /\ d.alias = row.alias /\ PolicyAdmits
                /\ purpose \in DOMAIN DEFAULT_CAPABILITY_PROFILES /\ d.provider = row
  BY <1>1 DEF ExactInv, Established
<1>3. PICK reference :
        /\ reference = IF d.provider.cred = "REQUIRED" THEN getCredentialReference ELSE ABSENT
        /\ IF d.provider.cred # "NOT_REQUIRED" /\ reference = ABSENT
             THEN Outcome("CREDENTIAL_INJECTION_FAILED")
           ELSE IF ~TrustedExecutable(d.alias) THEN Outcome("EXECUTABLE_NOT_TRUSTED")
           ELSE Proceed("ready", "credential", reference)
  BY DEF ResolveCredentials
<1>4. ~moved => reference = ReferenceOf
  BY <1>2, <1>3 DEF ReferenceOf
<1>5. CASE d.provider.cred # "NOT_REQUIRED" /\ reference = ABSENT
  <2>1. ~moved => ~Usable
    BY <1>2, <1>4, <1>5, UsableHas DEF ExactInv
  <2> QED
    BY <1>1, <1>3, <1>5, <2>1, ExactRefusal
<1>6. CASE ~(d.provider.cred # "NOT_REQUIRED" /\ reference = ABSENT) /\ d.alias \notin Trusted
  <2>1. ~moved => ~Usable
    BY <1>2, <1>6, UsableHas DEF ExactInv
  <2>2. Outcome("EXECUTABLE_NOT_TRUSTED")
    BY <1>3, <1>6 DEF TrustedExecutable
  <2> QED
    BY <1>1, <2>1, <2>2, ExactRefusal
<1>7. CASE ~(d.provider.cred # "NOT_REQUIRED" /\ reference = ABSENT) /\ d.alias \in Trusted
  <2>1. Proceed("ready", "credential", reference)
    BY <1>3, <1>7 DEF TrustedExecutable
  <2>2. ~moved => /\ row.alias \in Trusted
                  /\ reference = ReferenceOf /\ (row.cred = "NOT_REQUIRED" \/ ReferenceOf # ABSENT)
    BY <1>2, <1>4, <1>7
  <2> QED
    BY <1>1, <1>2, <2>1, <2>2, ExactProceed
<1> QED
  BY <1>5, <1>6, <1>7

\* With all that is established, the adapter has only to compare the launcher
\* and the credential.
LEMMA AdapterExact ==
  ASSUME ExactInv, ~moved, d.pc = "ready",
         NEW code, code = IF d.provider.type = "LOCAL_TOOL" THEN localAdapter ELSE cloudAdapter
  PROVE  code = "EXECUTED" <=> Usable
<1>1. /\ Routable /\ d.alias = row.alias /\ d.target = TargetOf
      /\ purpose \in DOMAIN DEFAULT_CAPABILITY_PROFILES /\ d.provider = row /\ PolicyAdmits
      /\ row.alias \in Trusted /\ d.credential = ReferenceOf
      /\ row.cred = "NOT_REQUIRED" \/ ReferenceOf # ABSENT
  BY DEF ExactInv, Established
<1>2. row.type \in {"LOCAL_TOOL", "CLOUD_LLM"} /\ row.alias \in Aliases
  BY DEF ExactInv, RowTyped
<1>3. codeBuildTargetMatchesContext(resolveExecutionTier(row.type))
  <2> SUFFICES ASSUME purpose = "CODE_BUILD"
      PROVE  /\ d.target # ABSENT /\ d.target.tier = resolveExecutionTier(row.type)
             /\ d.target.alias = d.alias
    BY DEF codeBuildTargetMatchesContext
  <2>1. d.target = [tier |-> resolveExecutionTier(row.type), alias |-> row.alias]
    BY <1>1 DEF TargetOf, buildCodeBuildExecutionTarget
  <2>2. resolveExecutionTier(row.type) \in {"LOCAL_ISOLATED", "CLOUD_GOVERNED"}
    BY <1>1, <1>2 DEF Routable, resolveExecutionTier
  <2>3. d.target \in [tier : {"LOCAL_ISOLATED", "CLOUD_GOVERNED"}, alias : Aliases]
    BY <1>2, <2>1, <2>2
  <2>4. d.target # ABSENT
    BY <2>3, GateAssumption
  <2> QED
    BY <1>1, <2>1, <2>4
<1>4. CASE row.type = "LOCAL_TOOL"
  <2>1. profile = ABSENT /\ resolveExecutionTier(row.type) = "LOCAL_ISOLATED"
    BY <1>1, <1>4 DEF Routable, resolveExecutionTier
  <2>2. code = "EXECUTED"
    BY <1>1, <1>3, <1>4, <2>1 DEF localAdapter
  <2>3. row.cred = "NOT_REQUIRED"
    BY <1>1, <1>4 DEF ReferenceOf, getCredentialReference
  <2>4. Usable
    BY <1>1, <1>4, <2>1, <2>3 DEF Usable, Routable, PolicyAdmits
  <2> QED
    BY <2>2, <2>4
<1>5. CASE row.type = "CLOUD_LLM"
  <2>1. EnabledProfile /\ resolveExecutionTier(row.type) = "CLOUD_GOVERNED"
    BY <1>1, <1>5 DEF Routable, resolveExecutionTier
  <2>2. code = "EXECUTED" <=> row.alias = profile.launcher /\ ReferenceOf # ABSENT
    BY <1>1, <1>3, <1>5, <2>1 DEF cloudAdapter
  <2>3. ReferenceOf # ABSENT <=> row.cred = "REQUIRED" /\ profile.stored
    BY <1>5, <2>1, GateAssumption DEF ReferenceOf, getCredentialReference
  <2>4. row.alias = profile.launcher =>
          (Usable <=> row.cred = "REQUIRED" /\ profile.stored)
    BY <1>1, <1>5, <2>1 DEF Usable, Routable, PolicyAdmits
  <2>5. row.alias # profile.launcher => ~Usable
    BY <1>5 DEF Usable
  <2> QED
    BY <2>2, <2>3, <2>4, <2>5
<1> QED
  BY <1>2, <1>4, <1>5

LEMMA ExactExecute ==
  ASSUME ExactInv, Execute
  PROVE  ExactInv'
<1>1. UNCHANGED <<purpose, profile, row, link, admin, moved>> /\ d.pc = "ready"
  BY DEF Execute, Unwritten
<1>2. PICK code : /\ code = IF d.provider.type = "LOCAL_TOOL" THEN localAdapter ELSE cloudAdapter
                  /\ Outcome(code)
  BY DEF Execute
<1>3. ~moved => (code = "EXECUTED" <=> Usable)
  BY <1>1, <1>2, AdapterExact
<1>4. CASE code # "EXECUTED"
  BY <1>1, <1>2, <1>3, <1>4, ExactRefusal
<1>5. CASE code = "EXECUTED"
  <2>1. d' = [d EXCEPT !.pc = "done", !.outcome = code]
    BY <1>2 DEF Outcome
  <2>2. d'.pc = "done" /\ d'.outcome = "EXECUTED" /\ DispatchShape'
    BY <1>5, <2>1 DEF ExactInv, DispatchShape
  <2>3. RowTyped' /\ AdminTyped' /\ (Usable' <=> Usable)
    BY <1>1, SameProvider DEF ExactInv, AdminTyped
  <2>4. ~moved' => Established'
    BY <1>1, <1>3, <1>5, <2>2, <2>3 DEF Established, Executed
  <2> QED
    BY <2>2, <2>3, <2>4 DEF ExactInv
<1> QED
  BY <1>4, <1>5

LEMMA PatchTyped ==
  ASSUME NEW patch \in UpdateInputs, NEW existing
  PROVE  KeepsTypes(updateData(patch, existing))
<1>1. KeepsTypes(patch)
  <2>1. CASE \E alias \in Aliases : patch = [alias |-> alias]
    BY <2>1 DEF KeepsTypes
  <2>2. CASE patch = [type |-> "CLOUD_LLM"] \/ patch = [type |-> "LOCAL_TOOL", cred |-> "NOT_REQUIRED"]
    BY <2>2 DEF KeepsTypes
  <2>3. CASE \/ patch = [cred |-> "NOT_REQUIRED"] \/ patch = [status |-> "DISABLED"]
             \/ patch = [status |-> "ACTIVE"] \/ patch = [health |-> "UNAVAILABLE"]
             \/ patch = [quota |-> "EXHAUSTED"]
    BY <2>3 DEF KeepsTypes
  <2> QED
    BY <2>1, <2>2, <2>3 DEF UpdateInputs
<1>2. ASSUME NEW cred PROVE KeepsTypes(Patched([cred |-> cred], patch))
  <2>1. PICK merged : merged = Patched([cred |-> cred], patch)
    OBVIOUS
  <2>2. DOMAIN [cred |-> cred] = {"cred"}
    OBVIOUS
  <2>3. /\ DOMAIN merged = {"cred"} \cup DOMAIN patch
        /\ \A f \in DOMAIN patch : f # "cred" => merged[f] = patch[f]
    BY <2>1, <2>2 DEF Patched
  <2>4. KeepsTypes(merged)
    BY <1>1, <2>3 DEF KeepsTypes
  <2> QED
    BY <2>1, <2>4
<1>3. \/ updateData(patch, existing) = patch
      \/ \E cred : updateData(patch, existing) = Patched([cred |-> cred], patch)
  BY DEF updateData
<1> QED
  BY <1>1, <1>2, <1>3

\* Nothing the dispatch has established changes while the row and the link do not.
LEMMA ExactUnwritten ==
  ASSUME ExactInv, UNCHANGED <<purpose, profile, row, link, d, moved>>, AdminTyped'
  PROVE  ExactInv'
<1>1. /\ RowTyped' /\ (Routable' <=> Routable) /\ TargetOf' = TargetOf /\ ReferenceOf' = ReferenceOf
      /\ (PolicyAdmits' <=> PolicyAdmits) /\ (Usable' <=> Usable)
  BY SameProvider DEF ExactInv
<1>2. DispatchShape' /\ (Executed' <=> Executed)
  BY DEF ExactInv, DispatchShape, Executed
<1>3. Established => Established'
  BY <1>1, <1>2 DEF Established
<1> QED
  BY <1>1, <1>2, <1>3 DEF ExactInv

\* A write of the row or of the link before the dispatch is routed leaves
\* nothing to establish, a later one is marked.
LEMMA ExactWritten ==
  ASSUME ExactInv, Since, d' = d, RowTyped', AdminTyped'
  PROVE  ExactInv'
<1>1. DispatchShape'
  BY DEF ExactInv, DispatchShape
<1>2. CASE d.pc = "idle"
  BY <1>1, <1>2 DEF ExactInv, Since, Established
<1>3. CASE d.pc # "idle"
  BY <1>1, <1>3 DEF ExactInv, Since
<1> QED
  BY <1>2, <1>3

LEMMA ExactUpdate ==
  ASSUME ExactInv, NEW a \in Admins, NEW patch \in UpdateInputs, updateProvider(a, patch)
  PROVE  ExactInv'
<1>1. PICK data : data = updateData(patch, row) /\ KeepsTypes(data)
  BY PatchTyped
<1>2. admin' = [admin EXCEPT ![a] = data]
  BY <1>1 DEF updateProvider
<1>3. AdminTyped'
  BY <1>1, <1>2 DEF ExactInv, AdminTyped
<1> QED
  BY <1>3, ExactUnwritten DEF updateProvider

LEMMA ExactActivate ==
  ASSUME ExactInv, NEW a \in Admins, activateProvider(a)
  PROVE  ExactInv'
<1>1. PICK data : data = [status |-> "ACTIVE"] /\ KeepsTypes(data)
  <2>1. DOMAIN [status |-> "ACTIVE"] = {"status"}
    OBVIOUS
  <2>2. KeepsTypes([status |-> "ACTIVE"])
    BY <2>1 DEF KeepsTypes
  <2> QED
    BY <2>2
<1>2. admin' = [admin EXCEPT ![a] = data]
  BY <1>1 DEF activateProvider
<1>3. AdminTyped'
  BY <1>1, <1>2 DEF ExactInv, AdminTyped
<1> QED
  BY <1>3, ExactUnwritten DEF activateProvider

LEMMA ExactWrite ==
  ASSUME ExactInv, NEW a \in Admins, WriteProvider(a)
  PROVE  ExactInv'
<1>1. PICK data : data = admin[a] /\ KeepsTypes(data) /\ row' = Patched(data, row)
  BY DEF WriteProvider, ExactInv, AdminTyped
<1>2. RowTyped'
  <2>1. /\ DOMAIN row' = DOMAIN data \cup DOMAIN row
        /\ \A f \in DOMAIN row : row'[f] = IF f \in DOMAIN data THEN data[f] ELSE row[f]
    BY <1>1 DEF Patched
  <2>2. RowTyped
    BY DEF ExactInv
  <2> QED
    BY <1>1, <2>1, <2>2 DEF RowTyped, KeepsTypes
<1>3. AdminTyped'
  BY DEF WriteProvider, ExactInv, AdminTyped
<1> QED
  BY <1>2, <1>3, ExactWritten DEF WriteProvider

LEMMA ExactOther ==
  ASSUME ExactInv, Since, d' = d, admin' = admin,
         \/ row' = row
         \/ \E health, quota : row' = [row EXCEPT !.health = health, !.quota = quota]
  PROVE  ExactInv'
<1>1. AdminTyped'
  BY DEF ExactInv, AdminTyped
<1>2. RowTyped'
  <2>1. RowTyped
    BY DEF ExactInv
  <2>2. DOMAIN row' = DOMAIN row /\ row'.type = row.type /\ row'.alias = row.alias
    BY <2>1 DEF RowTyped
  <2> QED
    BY <2>1, <2>2 DEF RowTyped
<1> QED
  BY <1>1, <1>2, ExactWritten

LEMMA ExactInit == GateInit => ExactInv
<1> SUFFICES ASSUME GateInit PROVE ExactInv
  OBVIOUS
<1>1. d = NoDispatch /\ moved = FALSE
  BY DEF GateInit
<1>2. d.pc = "idle" /\ DispatchShape
  BY <1>1 DEF NoDispatch, DispatchShape
<1>3. AdminTyped
  <2>1. admin = [a \in Admins |-> ABSENT]
    BY DEF GateInit
  <2> QED
    BY <2>1 DEF AdminTyped
<1>4. RowTyped
  <2>1. PICK type \in {"LOCAL_TOOL", "CLOUD_LLM"}, raw \in {ABSENT, "REQUIRED", "NOT_REQUIRED"},
             status \in {"ACTIVE", "DISABLED"}, alias \in Aliases :
          row = Created(type, raw, status, alias)
    BY DEF GateInit
  <2> QED
    BY <2>1 DEF Created, RowTyped
<1> QED
  BY <1>1, <1>2, <1>3, <1>4 DEF ExactInv, Established

LEMMA ExactNext == ExactInv /\ [GateNext]_gateVars => ExactInv'
<1> SUFFICES ASSUME ExactInv, [GateNext]_gateVars PROVE ExactInv'
  OBVIOUS
<1>1. ASSUME NEW a \in Admins, NEW patch \in UpdateInputs, updateProvider(a, patch) PROVE ExactInv'
  BY <1>1, ExactUpdate
<1>2. ASSUME NEW a \in Admins, activateProvider(a) \/ WriteProvider(a) PROVE ExactInv'
  BY <1>2, ExactActivate, ExactWrite
<1>3. ASSUME NEW l \in LinkKinds, NEW enabled \in BOOLEAN,
             assignCapability(l, enabled) \/ setCapabilityEnabled(l, enabled)
      PROVE  ExactInv'
  BY <1>3, ExactOther DEF assignCapability, setCapabilityEnabled
<1>4. ASSUME NEW health, NEW quota, recordProbe(health, quota) PROVE ExactInv'
  BY <1>4, ExactOther DEF recordProbe
<1>5. CASE Route \/ Validate \/ Decide \/ ResolveCredentials \/ Execute
  BY <1>5, ExactRoute, ExactValidate, ExactDecide, ExactResolveCredentials, ExactExecute
<1>6. CASE UNCHANGED gateVars
  <2>1. AdminTyped'
    BY <1>6 DEF gateVars, ExactInv, AdminTyped
  <2> QED
    BY <1>6, <2>1, ExactUnwritten DEF gateVars
<1> QED
  BY <1>1, <1>2, <1>3, <1>4, <1>5, <1>6 DEF GateNext

\* While nobody writes the provider a dispatch reaches an agent exactly when
\* the provider is usable, for every set of capabilities, cloud profiles,
\* aliases and trusted executables: the router, the invocation, the profile,
\* the policy, the credentials and the adapter refuse nothing else and let
\* nothing else pass (agent-workforce.service.ts, governed-invocation.service.ts,
\* execution-policy.ts, the adapters).
THEOREM TheGateIsExact == GateSpec => []GateIsExact
<1>1. ExactInv => GateIsExact
  BY DEF ExactInv, Established, GateIsExact
<1> QED
  BY <1>1, ExactInit, ExactNext, PTL DEF GateSpec
=============================================================================
