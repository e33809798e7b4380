------------------------------- MODULE Learning -------------------------------
(***************************************************************************)
(* What is learned from one experience of a digital employee: its capture, *)
(* outcomes, reflections, learning candidates and their maturity, failure  *)
(* patterns, skill candidates and promotion reviews, as the runtime        *)
(* pipeline and the requests of users write them.                          *)
(*                                                                         *)
(* No operation runs in a transaction: each statement is a step of its own *)
(* and may fail, after which the pipeline gives up (tryRecord, tryProcess) *)
(* and a request throws.  Texts and scores are left out; an outcome keeps  *)
(* its sign.                                                               *)
(***************************************************************************)
EXTENDS Absent, Naturals, Sequences, FiniteSets

CONSTANTS
  Seeds,          \* the tables to start from
  Operations,     \* concurrent operations
  Inputs,         \* what each kind of operation may be asked for
  MaxOperations,  \* bound on operations
  MaxFailures     \* bound on statements that fail

VARIABLES
  db,       \* the tables: status of the experience, outcomes, reflections, ...
  work,     \* each operation
  begun,
  failures

learningVars == <<db, work, begun, failures>>

ORDER == <<"OBSERVATION", "HYPOTHESIS", "PATTERN", "POLICY">>

EmptyDb ==
  [status |-> ABSENT, outcomes |-> <<>>, reflections |-> <<>>, candidates |-> <<>>,
   ledger |-> <<>>, patterns |-> <<>>, skills |-> <<>>, reviews |-> <<>>]

NoOperation == [pc |-> "idle", op |-> ABSENT, in |-> ABSENT, at |-> 0]

LearningInit ==
  /\ db \in Seeds
  /\ work = [r \in Operations |-> NoOperation]
  /\ begun = 0
  /\ failures = 0

-----------------------------------------------------------------------------
SetWork(r, local) == work' = [work EXCEPT ![r] = local]
Continue(r, pc) == SetWork(r, [work[r] EXCEPT !.pc = pc])
Remember(r, pc, at) == SetWork(r, [work[r] EXCEPT !.pc = pc, !.at = at])
Finish(r) == SetWork(r, NoOperation)
WorkAt(r, op, pc) == work[r].op = op /\ work[r].pc = pc
Insert(table, row) == db' = [db EXCEPT ![table] = Append(@, row)]

\* An operation starts with its input; authentication and the form of the input
\* are checked before any read.
Begin(r, op, in) ==
  /\ work[r].pc = "idle" /\ begun < MaxOperations
  /\ begun' = begun + 1
  /\ SetWork(r, [NoOperation EXCEPT !.pc = "begin", !.op = op, !.in = in])
  /\ UNCHANGED <<db, failures>>

\* A statement fails: the operation ends where it is.
Fails(r) ==
  /\ work[r].pc # "idle" /\ failures < MaxFailures
  /\ failures' = failures + 1
  /\ Finish(r)
  /\ UNCHANGED <<db, begun>>

(* Experiences, outcomes and reflections.                                  *)

\* The row of the experience; only its own operation inserts it.
createExperience == IF db.status = ABSENT THEN [db EXCEPT !.status = "OBSERVED"] ELSE db

\* RuntimeExperienceCaptureService.record, after a dispatch.
Capture(r) ==
  /\ WorkAt(r, "capture", "begin")
  /\ db' = createExperience
  /\ Finish(r)

\* ExperienceStoreService.record: an agent of another organization is refused.
RecordExperience(r) ==
  /\ WorkAt(r, "experience", "begin")
  /\ db' = IF work[r].in = "own" THEN createExperience ELSE db
  /\ Finish(r)

markExperienceEvaluated == IF db.status = "OBSERVED" THEN [db EXCEPT !.status = "EVALUATED"] ELSE db
markExperienceReflected == IF db.status = "EVALUATED" THEN [db EXCEPT !.status = "REFLECTED"] ELSE db

runtimeOutcomes == {i \in DOMAIN db.outcomes : db.outcomes[i].runtime}

\* Mutant: the experience is marked before its outcome is stored.
ReadOutcomesAndMark(r) ==
  /\ work[r].op \in {"outcome", "pipeline"} /\ work[r].pc = "begin"
  /\ db' = markExperienceEvaluated
  /\ IF db.status = ABSENT THEN Finish(r)
     ELSE IF work[r].op = "pipeline" /\ runtimeOutcomes # {} THEN Continue(r, "process") ELSE Continue(r, "create")

\* OutcomeEvaluationService.record, and RuntimeOutcomeEvaluationService.record,
\* which keeps an outcome of its metric that is there already.
ReadOutcomes(r) ==
  /\ work[r].op \in {"outcome", "pipeline"} /\ work[r].pc = "begin"
  /\ IF db.status = ABSENT THEN Finish(r)
     ELSE IF work[r].op = "pipeline" /\ runtimeOutcomes # {} THEN Continue(r, "process") ELSE Continue(r, "create")
  /\ UNCHANGED db

CreateOutcome(r) ==
  /\ work[r].op \in {"outcome", "pipeline"} /\ work[r].pc = "create"
  /\ Insert("outcomes", [runtime |-> work[r].op = "pipeline", score |-> work[r].in])
  /\ Continue(r, "mark")

MarkEvaluated(r) ==
  /\ work[r].op \in {"outcome", "pipeline"} /\ work[r].pc = "mark"
  /\ db' = markExperienceEvaluated
  /\ IF work[r].op = "pipeline" THEN Continue(r, "process") ELSE Finish(r)

reflectionsOf(i) == {j \in DOMAIN db.reflections : i \in db.reflections[j]}

\* RuntimeReflectionLearningService.process: of the latest outcome, if it says
\* anything, the earliest reflection, or a new one; then find or create the
\* candidate.
Process(r) ==
  /\ WorkAt(r, "pipeline", "process")
  /\ IF db.status \notin {"EVALUATED", "REFLECTED"} \/ runtimeOutcomes = {} THEN Finish(r)
     ELSE \E i \in runtimeOutcomes :
            /\ \A k \in runtimeOutcomes : k \leq i
            /\ IF db.outcomes[i].score = "neutral" THEN Finish(r)
               ELSE IF reflectionsOf(i) = {} THEN Remember(r, "reflect", i)
               ELSE \E j \in reflectionsOf(i) :
                      /\ \A k \in reflectionsOf(i) : j \leq k
                      /\ Remember(r, "candidate", j)
  /\ UNCHANGED db

\* ReflectionService.record: outcomes of an evaluated experience as evidence.
ReadForReflection(r) ==
  /\ WorkAt(r, "reflection", "begin")
  /\ IF db.status \in {"EVALUATED", "REFLECTED"} /\ work[r].in \subseteq DOMAIN db.outcomes
     THEN Continue(r, "reflect") ELSE Finish(r)
  /\ UNCHANGED db

CreateReflection(r) ==
  /\ work[r].pc = "reflect"
  /\ Insert("reflections", IF work[r].op = "pipeline" THEN {work[r].at} ELSE work[r].in)
  /\ Remember(r, "reflected", Len(db.reflections) + 1)

MarkReflected(r) ==
  /\ work[r].pc = "reflected"
  /\ db' = markExperienceReflected
  /\ IF work[r].op = "pipeline" THEN Continue(r, "candidate") ELSE Finish(r)

(* Learning candidates.                                                    *)

findCandidate(j) == {c \in DOMAIN db.candidates : db.candidates[c].reflection = j}

FindCandidate(r) ==
  /\ WorkAt(r, "pipeline", "candidate")
  /\ IF findCandidate(work[r].at) # {} THEN Finish(r) ELSE Continue(r, "observe")
  /\ UNCHANGED db

\* createObservation of LearningMaturityService.
ReadForObservation(r) ==
  /\ WorkAt(r, "observation", "begin")
  /\ IF db.status = "REFLECTED" /\ work[r].in \in DOMAIN db.reflections
     THEN Remember(r, "observe", work[r].in) ELSE Finish(r)
  /\ UNCHANGED db

CreateCandidate(r) ==
  /\ work[r].pc = "observe"
  /\ Insert("candidates", [reflection |-> work[r].at, maturity |-> 1,
                           confident |-> work[r].op = "pipeline"])
  /\ Finish(r)

\* promote reads the candidate, checks that the change is one step and that POLICY
\* has an approval, then changes the maturity it read and records the promotion.
ReadForPromotion(r) ==
  LET in == work[r].in IN
  /\ WorkAt(r, "promotion", "begin")
  /\ IF /\ in.candidate \in DOMAIN db.candidates
        /\ \/ in.to = db.candidates[in.candidate].maturity + 1
           \/ in.to + 1 = db.candidates[in.candidate].maturity
        /\ ORDER[in.to] = "POLICY" => in.approved
     THEN Remember(r, "change", db.candidates[in.candidate].maturity)
     ELSE Finish(r)
  /\ UNCHANGED db

\* Mutant: the maturity is set whatever it is by now.
changeable(c, from) == c \in DOMAIN db.candidates

\* setMaturity: UPDATE ... WHERE maturity = fromMaturity
setMaturity(c, from) == db.candidates[c].maturity = from

ChangeMaturity(r) ==
  LET in == work[r].in IN
  /\ WorkAt(r, "promotion", "change")
  /\ IF setMaturity(in.candidate, work[r].at)
     THEN /\ db' = [db EXCEPT !.candidates[in.candidate].maturity = in.to]
          /\ Continue(r, "ledger")
     ELSE Finish(r) /\ UNCHANGED db

CreatePromotion(r) ==
  /\ WorkAt(r, "promotion", "ledger")
  /\ Insert("ledger", [candidate |-> work[r].in.candidate, from |-> work[r].at, to |-> work[r].in.to,
                       approved |-> work[r].in.approved])
  /\ Finish(r)

\* FailurePatternService.record: a negative outcome of a reflected experience.
RecordPattern(r) ==
  /\ WorkAt(r, "pattern", "begin")
  /\ db' = IF /\ db.status = "REFLECTED" /\ db.reflections # <<>>
              /\ work[r].in \subseteq DOMAIN db.outcomes
              /\ \E i \in work[r].in : db.outcomes[i].score = "negative"
           THEN [db EXCEPT !.patterns = Append(@, work[r].in)] ELSE db
  /\ Finish(r)

(* Skill candidates and promotion reviews.                                 *)

\* PATTERN or POLICY, when it is read.
mature(c) == ORDER[db.candidates[c].maturity] \in {"PATTERN", "POLICY"}

\* SkillCandidateService.record
ReadForSkill(r) ==
  LET in == work[r].in IN
  /\ WorkAt(r, "skill", "begin")
  /\ IF /\ in.candidate \in DOMAIN db.candidates
        /\ mature(in.candidate)
        /\ db.candidates[in.candidate].confident
        /\ Cardinality(in.outcomes) >= 2 /\ in.outcomes \subseteq DOMAIN db.outcomes
     THEN Continue(r, "create") ELSE Finish(r)
  /\ UNCHANGED db

CreateSkill(r) ==
  /\ WorkAt(r, "skill", "create")
  /\ Insert("skills", work[r].in)
  /\ Finish(r)

pending(s) == {v \in DOMAIN db.reviews : db.reviews[v].skill = s /\ db.reviews[v].status = "PENDING_REVIEW"}

\* propose of SkillPromotionService.
ReadForProposal(r) ==
  /\ WorkAt(r, "proposal", "begin")
  /\ IF work[r].in \in DOMAIN db.skills /\ pending(work[r].in) = {} THEN Continue(r, "create") ELSE Finish(r)
  /\ UNCHANGED db

\* skill_promotion_reviews_one_pending_per_candidate
onePendingPerCandidate(s) == pending(s) = {}

CreateReview(r) ==
  /\ WorkAt(r, "proposal", "create")
  /\ IF onePendingPerCandidate(work[r].in)
     THEN Insert("reviews", [skill |-> work[r].in, status |-> "PENDING_REVIEW", by |-> ABSENT])
     ELSE UNCHANGED db
  /\ Finish(r)

\* Mutant: the review is updated by its id.
reviewable(v) == v \in DOMAIN db.reviews

stillPending(v) == v \in DOMAIN db.reviews /\ db.reviews[v].status = "PENDING_REVIEW"

\* approveForRegistration and reject: one UPDATE ... WHERE status = PENDING_REVIEW.
Review(r) ==
  LET in == work[r].in IN
  /\ WorkAt(r, "review", "begin")
  /\ db' = IF stillPending(in.review)
           THEN [db EXCEPT !.reviews[in.review].status = in.verdict, !.reviews[in.review].by = r] ELSE db
  /\ Finish(r)

Step(r) ==
  /\ \/ Capture(r) \/ RecordExperience(r) \/ ReadOutcomes(r) \/ CreateOutcome(r) \/ MarkEvaluated(r) \/ Process(r)
     \/ ReadForReflection(r) \/ CreateReflection(r) \/ MarkReflected(r)
     \/ FindCandidate(r) \/ ReadForObservation(r) \/ CreateCandidate(r)
     \/ ReadForPromotion(r) \/ ChangeMaturity(r) \/ CreatePromotion(r) \/ RecordPattern(r)
     \/ ReadForSkill(r) \/ CreateSkill(r) \/ ReadForProposal(r) \/ CreateReview(r) \/ Review(r)
  /\ UNCHANGED <<begun, failures>>

Scores == {"positive", "negative", "neutral"}
Decided == {"APPROVED_FOR_REGISTRATION", "REJECTED"}

\* The form each service requires of its input; rows are named by number.
InputTypes ==
  [capture |-> {ABSENT}, experience |-> {"own", "foreign"}, outcome |-> Scores, pipeline |-> Scores,
   reflection |-> (SUBSET Nat) \ {{}}, observation |-> Nat,
   promotion |-> [candidate : Nat, to : 1..4, approved : BOOLEAN],
   pattern |-> SUBSET Nat, skill |-> [candidate : Nat, outcomes : {s \in SUBSET Nat : IsFiniteSet(s)}],
   proposal |-> Nat, review |-> [review : Nat, verdict : Decided]]

LearningNext ==
  \E r \in Operations :
    \/ \E op \in DOMAIN Inputs : \E in \in Inputs[op] : Begin(r, op, in)
    \/ Step(r)
    \/ Fails(r)

LearningSpec == LearningInit /\ [][LearningNext]_learningVars

-----------------------------------------------------------------------------
(* Properties.                                                             *)

EvidenceIn(t) ==
  /\ t.status \in {"EVALUATED", "REFLECTED"} => t.outcomes # <<>>
  /\ t.status = "REFLECTED" => t.reflections # <<>>
  /\ \A j \in DOMAIN t.reflections : t.reflections[j] # {} /\ t.reflections[j] \subseteq DOMAIN t.outcomes
  /\ \A c \in DOMAIN t.candidates : t.candidates[c].reflection \in DOMAIN t.reflections
  /\ \A p \in DOMAIN t.patterns : t.patterns[p] \subseteq DOMAIN t.outcomes
  /\ \A s \in DOMAIN t.skills :
       \E i, j \in t.skills[s].outcomes : i # j /\ {i, j} \subseteq DOMAIN t.outcomes

\* The promotions on record, and those whose record is about to be written.
logged(t, c, to, from) ==
  {i \in DOMAIN t.ledger : t.ledger[i].candidate = c /\ t.ledger[i].to = to /\ t.ledger[i].from = from}
unlogged(c, to, from) ==
  {r \in Operations : /\ WorkAt(r, "promotion", "ledger")
                      /\ work[r].in.candidate = c /\ work[r].in.to = to /\ work[r].at = from}

\* The number of promotions a maturity still counts beyond n.
Beyond(maturity, n) == IF maturity > n THEN 1 ELSE 0

\* The promotions on record, and those whose record is about to be written, are
\* the way from OBSERVATION to the maturity of the candidate: concurrent
\* promotions are not applied twice.  Only a failing insert loses a step.
LedgerExplainsMaturity ==
  failures = 0 =>
    \A c \in DOMAIN db.candidates :
      LET made(to, from) == Cardinality(logged(db, c, to, from)) + Cardinality(unlogged(c, to, from))
      IN  \A n \in 1..3 : made(n + 1, n) = made(n, n + 1) + Beyond(db.candidates[c].maturity, n)

patternOnRecord(t, c) == \E i \in DOMAIN t.ledger : t.ledger[i].candidate = c /\ t.ledger[i].to = 3

\* The promotions show that the candidate had become a pattern.
WasPattern(c) ==
  \/ patternOnRecord(db, c)
  \/ \E r \in Operations : WorkAt(r, "promotion", "ledger") /\ work[r].in.candidate = c /\ work[r].in.to = 3

\* An experience is evaluated only when an outcome is stored, and reflected only
\* when a reflection is; a reflection, a failure pattern and a skill rest on
\* outcomes that are there, a skill on two of them, and a candidate on its
\* reflection; the promotions on record show that the candidate of a skill had
\* become a pattern, even if it was reverted before the skill was stored:
\* whichever statement failed, and whoever else writes.
LearnedFromEvidence ==
  /\ EvidenceIn(db)
  /\ failures = 0 => \A s \in DOMAIN db.skills : WasPattern(db.skills[s].candidate)

\* One review of a skill is pending at a time, also when two are proposed at once.
OnePendingReview == \A s \in DOMAIN db.skills : Cardinality(pending(s)) \leq 1

\* The decision of a review stands: of two reviewers, the second is refused.
ReviewStands ==
  \A v \in DOMAIN db.reviews :
    db.reviews[v].status # "PENDING_REVIEW" => db'.reviews[v] = db.reviews[v]

\* Both, of every step: however many are proposed at once, and whoever decides.
ReviewFinal == [][ReviewStands /\ OnePendingReview']_learningVars

-----------------------------------------------------------------------------
(* The constants.                                                          *)

Tables ==
  [status : {ABSENT, "OBSERVED", "EVALUATED", "REFLECTED"},
   outcomes : Seq([runtime : BOOLEAN, score : Scores]),
   reflections : Seq(SUBSET Nat),
   candidates : Seq([reflection : Nat, maturity : 1..4, confident : BOOLEAN]),
   ledger : Seq([candidate : Nat, from : 1..4, to : 1..4, approved : BOOLEAN]),
   patterns : Seq(SUBSET Nat),
   skills : Seq([candidate : Nat, outcomes : SUBSET Nat]),
   reviews : Seq([skill : Nat, status : Decided \cup {"PENDING_REVIEW"}, by : Operations \cup {ABSENT}])]

\* Tables that earlier operations may have left.
Learned(t) ==
  /\ t \in Tables
  /\ EvidenceIn(t)
  /\ \A i \in DOMAIN t.ledger : t.ledger[i].candidate \in DOMAIN t.candidates
  /\ \A c \in DOMAIN t.candidates, n \in 1..3 :
       Cardinality(logged(t, c, n + 1, n)) =
         Cardinality(logged(t, c, n, n + 1)) + Beyond(t.candidates[c].maturity, n)
  /\ \A s \in DOMAIN t.skills : patternOnRecord(t, t.skills[s].candidate)
  /\ \A v, w \in DOMAIN t.reviews :
       /\ t.reviews[v].skill = t.reviews[w].skill
       /\ t.reviews[v].status = "PENDING_REVIEW" /\ t.reviews[w].status = "PENDING_REVIEW"
       => v = w

\* Inputs have the form the services require, and the tables to start from are
\* what earlier operations may have left.
ASSUME LearningAssumption ==
  /\ IsFiniteSet(Operations)
  /\ MaxOperations \in Nat /\ MaxFailures \in Nat
  /\ \A op \in DOMAIN Inputs : op \in DOMAIN InputTypes /\ Inputs[op] \subseteq InputTypes[op]
  /\ \A t \in Seeds : Learned(t)
=============================================================================
