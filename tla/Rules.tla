--------------------------------- MODULE Rules ---------------------------------
(***************************************************************************)
(* The components that only compute, each from its own inputs: what counts *)
(* as evidence, what an assessment and its calibration say, what is        *)
(* urgent.  One component takes its steps in a behaviour, the others are   *)
(* switched off.  The components share no variable.                        *)
(***************************************************************************)
EXTENDS Integers, Sequences, FiniteSets

CONSTANTS
    None,
    Moves,                                                        \* the components that move
    Field, EvidenceRules, MaxIndex, Support,                      \* of EvidenceContract
    Practice, Form, Base, Capacity,                               \* of ContextPriority
    Levers, Competencies, Weight, Protocol, ParentOf, Active,     \* of NeedRanking
    Gap, Confidence, Remaining,
    Core, Capability, Orientation, AllowsNA, CapabilityLimit, OrientationLimit,  \* the questionnaire
    SmallCell, MinRetest, Inputs,                                 \* of CalibrationAnalysis
    Posted, MaxPosts,                                             \* of Assessment
    Actions, Facts, Values, States,                               \* of TypedEvidence
    Event, Candidate, Policy, Today, LeverShare, Baseline,        \* of CompetencyScoring
    Policies, Catalogs, Assessments, Credits                      \* of CompositeProjection

VARIABLES
    component,
    rules, input, event,                                              \* EvidenceContract
    forms, base, capacity, records, result,                           \* ContextPriority
    baseline, legacy, state, composite, needs, priorities, page, bases,  \* NeedRanking
    contributed, analysis,                                            \* CalibrationAnalysis
    action, facts, entries, stage, draft, typed,                      \* TypedEvidence
    policy, candidates, reversed, asOf,                               \* CompetencyScoring
    posts, stored,                                                    \* Assessment
    contract, catalog, assessed, credits, projection, completion      \* CompositeProjection

\* The core items of the questionnaire.
CoreItem == {Core[k] : k \in DOMAIN Core}

Contract == INSTANCE EvidenceContract WITH Rules <- EvidenceRules
Priority == INSTANCE ContextPriority WITH
    Protocol <- Practice, NoForm <- None, NoRecord <- None, NoProtocol <- None, NoResult <- None
Ranking == INSTANCE NeedRanking WITH
    Lever <- Levers, Competency <- Competencies, Unassessed <- None, NoPage <- None
Calibration == INSTANCE CalibrationAnalysis WITH Core <- CoreItem
Typed == INSTANCE TypedEvidence
Scoring == INSTANCE CompetencyScoring WITH Weight <- LeverShare
Questionnaire == INSTANCE Assessment WITH Lever <- Levers
Composite == INSTANCE CompositeProjection

-----------------------------------------------------------------------------
\* What validate_evidence_rules and the fields of a check-in allow.
ASSUME ContractAssumption ==
    /\ IsFiniteSet(Field) /\ MaxIndex \in Nat
    /\ Support \subseteq DOMAIN Contract!IndependenceFactor
    /\ EvidenceRules \subseteq [primary : (SUBSET Field) \ {{}}, supporting : (SUBSET Field) \ {{}}]

\* Practices are numbered; a form posts no more than its fields can hold.
ASSUME PriorityAssumption ==
    /\ IsFiniteSet(Practice) /\ Practice \subseteq Int /\ None \notin Practice
    /\ Form \subseteq Priority!Fields /\ Base \subseteq Nat
    /\ Capacity \subseteq Priority!Level \cup Priority!Missing

\* All that a competency gives to levers, in percent.
ShareTotal(c) == Ranking!MapThenSumSet(LAMBDA l : Weight[c][l], DOMAIN Weight[c])

\* Levers and practices are numbered; the weights of a competency are shares of one whole, as
\* ProtocolWeight and protocol_priority want them.
ASSUME RankingAssumption ==
    /\ IsFiniteSet(Levers) /\ Levers \subseteq Int /\ IsFiniteSet(Protocol) /\ Protocol \subseteq Int
    /\ Active \subseteq Protocol /\ ParentOf \in [Protocol -> Competencies]
    /\ \A c \in Competencies :
          /\ DOMAIN Weight[c] \subseteq Levers /\ \A l \in DOMAIN Weight[c] : Weight[c][l] \in Nat
          /\ ShareTotal(c) = 100
    /\ Gap \subseteq (0 .. 10) \cup {None} /\ Confidence \subseteq 0 .. 100 /\ Remaining \subseteq Ranking!Amount

\* An item has one place in the share code; the scorer posts answers and masses of its own types.
ASSUME QuestionnaireAssumption ==
    /\ Core \in Seq(STRING) /\ \A j, k \in DOMAIN Core : Core[j] = Core[k] => j = k
    /\ IsFiniteSet(Capability) /\ IsFiniteSet(Orientation)
    /\ CapabilityLimit \in Nat /\ OrientationLimit \in Nat
    /\ \A p \in Posted :
          /\ p.responses \in [DOMAIN p.responses -> STRING]
          /\ \A l \in DOMAIN p.levers : p.levers[l].alpha \in Int /\ p.levers[l].beta \in Int

\* The runs one participant contributes, one at least.
Contributed(runs) ==
    /\ Len(runs) \in Nat \ {0} /\ DOMAIN runs = 1 .. Len(runs)
    /\ \A k \in DOMAIN runs : runs[k].day \in Nat

ASSUME CohortAssumption ==
    /\ SmallCell \in Nat /\ MinRetest \in Nat
    /\ \A cohort \in Inputs :
          IsFiniteSet(DOMAIN cohort) /\ \A p \in DOMAIN cohort : Contributed(cohort[p])

\* The fields of a check-in and what its controls may hold: a choice, a number from nothing up, a share
\* of at least one opportunity, a selection of the criteria the rule lists.
Entered(r, value) ==
    /\ value # None
    /\ r.kind = "bounded_frequency" =>
           value.numerator \in Nat \cup {None} /\ value.denominator \in (Nat \ {0}) \cup {None}
    /\ r.kind \in {"count", "duration", "objective"} => value.amount \in Nat \cup {None}
    /\ r.kind \in Typed!Rubric => value.criteria_met \subseteq r.criteria

ASSUME TypedAssumption ==
    /\ None \notin Int
    /\ Facts \subseteq [attempted : BOOLEAN, completed : BOOLEAN, text : BOOLEAN, index : Nat \ {0},
                       direction : DOMAIN Typed!ContradictionLevel, support : DOMAIN Typed!SupportFactor,
                       context : DOMAIN Typed!ContextFactor]
    /\ \A a \in Actions :
          /\ IsFiniteSet(DOMAIN a.rules)
          /\ \A m \in DOMAIN a.rules :
                LET r == a.rules[m] IN
                /\ r.kind \in Typed!Number \cup Typed!Rubric \cup {"boolean", "ordinal", "attestation"}
                /\ r.kind \in Typed!Number => r.minimum \in Int /\ r.target \in Int /\ r.maximum \in Int
                /\ r.kind \in Typed!Rubric => IsFiniteSet(r.criteria)
                /\ \A value \in Values[r] : Entered(r, value)

\* What _validate_candidate and candidate_from_typed_evidence let through; masses, performances and
\* the baselines of a lever are no less than nothing.
ASSUME CandidateAssumption ==
    /\ IsFiniteSet(Event) /\ Today \in Nat
    /\ \A c \in Candidate :
          /\ c.mass \in 0 .. 100 /\ (c.withheld \/ c.performance \in 0 .. 100)
          /\ c.transfer \in {"protocol_only", "context_bound", "cross_context_candidate"}
          /\ c.age \in Nat /\ c.maxAge \in Nat \cup {None} /\ IsFiniteSet(c.provenance)
    /\ \A l \in DOMAIN LeverShare :
          /\ LeverShare[l].weight \in Nat /\ LeverShare[l].total \in Nat \ {0}
          /\ Baseline[l].alpha \in Nat /\ Baseline[l].beta \in Nat

\* Levers and competencies have an order; what a run says of a lever, and a credit, is a share of one.
ASSUME CompositeAssumption ==
    /\ \A k \in Catalogs :
          /\ IsFiniteSet(DOMAIN k.family) /\ DOMAIN k.family \subseteq Int
          /\ IsFiniteSet(DOMAIN k.domain) /\ DOMAIN k.domain \subseteq Int
          /\ \A c \in DOMAIN k.domain : \A l \in DOMAIN k.weights[c] : k.weights[c][l] \in Int
    /\ \A a \in Assessments : \A l \in DOMAIN a :
          a[l].estimate \in (0 .. Composite!Unit) \cup {None} /\ a[l].confidence \in 0 .. Composite!Unit
    /\ Credits \subseteq 0 .. Composite!Unit

-----------------------------------------------------------------------------
contractVars == <<rules, input, event>>
priorityVars == <<forms, base, capacity, records, result>>
rankingVars == <<baseline, legacy, state, composite, needs, priorities, page, bases>>
calibrationVars == <<contributed, analysis>>
typedVars == <<action, facts, entries, stage, draft, typed>>
competencyVars == <<policy, candidates, reversed, asOf>>
assessmentVars == <<posts, stored>>
compositeVars == <<contract, catalog, assessed, credits, projection, completion>>
vars == <<component, contractVars, priorityVars, rankingVars, calibrationVars, typedVars,
          competencyVars, assessmentVars, compositeVars>>

\* A component that is switched off.
NoContract == rules = None /\ input = None /\ event = None
NoPriority == forms = None /\ base = None /\ capacity = None /\ records = None /\ result = None
NoRanking ==
    /\ baseline = None /\ legacy = None /\ state = None /\ composite = None
    /\ needs = None /\ priorities = None /\ page = None /\ bases = None
NoCalibration == contributed = None /\ analysis = None
NoTyped == action = None /\ facts = None /\ entries = None /\ stage = None /\ draft = None /\ typed = None
NoCompetency == policy = None /\ candidates = None /\ reversed = None /\ asOf = None
NoAssessment == posts = None /\ stored = None
NoComposite ==
    /\ contract = None /\ catalog = None /\ assessed = None
    /\ credits = None /\ projection = None /\ completion = None

Init ==
    /\ component \in Moves
    /\ IF component = "contract" THEN Contract!Init ELSE NoContract
    /\ IF component = "priority" THEN Priority!Init ELSE NoPriority
    /\ IF component = "ranking" THEN Ranking!Init ELSE NoRanking
    /\ IF component = "calibration" THEN Calibration!Init ELSE NoCalibration
    /\ IF component = "typed" THEN Typed!Init ELSE NoTyped
    /\ IF component = "competency" THEN Scoring!Init ELSE NoCompetency
    /\ IF component = "assessment" THEN Questionnaire!Init ELSE NoAssessment
    /\ IF component = "composite" THEN Composite!Init ELSE NoComposite

Next ==
    /\ UNCHANGED component
    /\ \/ /\ component = "contract" /\ Contract!Next
          /\ UNCHANGED <<priorityVars, rankingVars, calibrationVars, typedVars, competencyVars,
                         assessmentVars, compositeVars>>
       \/ /\ component = "priority" /\ Priority!Next
          /\ UNCHANGED <<contractVars, rankingVars, calibrationVars, typedVars, competencyVars,
                         assessmentVars, compositeVars>>
       \/ /\ component = "ranking" /\ Ranking!Next
          /\ UNCHANGED <<contractVars, priorityVars, calibrationVars, typedVars, competencyVars,
                         assessmentVars, compositeVars>>
       \/ /\ component = "calibration" /\ Calibration!Next
          /\ UNCHANGED <<contractVars, priorityVars, rankingVars, typedVars, competencyVars,
                         assessmentVars, compositeVars>>
       \/ /\ component = "typed" /\ Typed!Next
          /\ UNCHANGED <<contractVars, priorityVars, rankingVars, calibrationVars, competencyVars,
                         assessmentVars, compositeVars>>
       \/ /\ component = "competency" /\ Scoring!Next
          /\ UNCHANGED <<contractVars, priorityVars, rankingVars, calibrationVars, typedVars,
                         assessmentVars, compositeVars>>
       \/ /\ component = "assessment" /\ Questionnaire!Next
          /\ UNCHANGED <<contractVars, priorityVars, rankingVars, calibrationVars, typedVars,
                         competencyVars, compositeVars>>
       \/ /\ component = "composite" /\ Composite!Next
          /\ UNCHANGED <<contractVars, priorityVars, rankingVars, calibrationVars, typedVars,
                         competencyVars, assessmentVars>>

Spec == Init /\ [][Next]_vars

-----------------------------------------------------------------------------
\* A stored event verifies for ever, whatever a release does to the rules; repeating adds ever
\* less, the direction is kept apart, and doing or recording more, guidance excepted, is never
\* worth less.
EvidenceIsFair ==
    component = "contract" =>
        /\ Contract!EventsReplay /\ Contract!StoredInRange /\ Contract!RepetitionDiminishes
        /\ Contract!DirectionIsSeparate /\ Contract!MoreIsNeverLess

\* The context-aware order: forms come back as they were posted, a missing answer is no zero, an
\* order never contradicts what was said, alternatives are the best there are, and the label
\* says whether there is an order.
PriorityIsHonest ==
    component = "priority" =>
        /\ Priority!TypeOK /\ Priority!FormsComeBack /\ Priority!MissingIsNotZero
        /\ Priority!DominanceIsRespected /\ Priority!AlternativeIsTheBest /\ Priority!LabelIsHonest

\* The home page: more need never ranks behind less, what is not assessed adds nothing, the most
\* urgent are recommended, a ledger that does not verify recommends nothing, and the context-aware
\* order rests on the same priorities.
RankingFollowsNeed ==
    component = "ranking" =>
        /\ Ranking!TypeOK /\ Ranking!NeedFollowsEvidence /\ Ranking!UnassessedAddsNothing
        /\ Ranking!TheMostUrgentAreRecommended /\ Ranking!FailsClosed
        /\ Ranking!OnePriority

\* What the calibration command exports its analysis accepts, but for a run with a repeated flag,
\* and the numbers of the report fit each other.
CalibrationIsSound == component = "calibration" => Calibration!CalibrationIsSound

\* Typed evidence: what the form accepts the contract accepts, an event replays, silence is no
\* credit, scores keep their range and direction, and a reopened draft is never altered.
TypedEvidenceIsSound == component = "typed" => Typed!TypedEvidenceIsSound

\* Evidence of a competency: withheld or reversed evidence leaves no trace, a policy is kept by
\* what was counted, evidence only wears, and a lever moves with it and never without transfer.
CompetencyEvidenceIsSound == component = "competency" => Scoring!CompetencyEvidenceIsSound

\* A share code says what was answered, a submission is stored once as first accepted, what is
\* stored can be contributed if the scorer kept to its flags and its timing method, and baselines
\* are earned by answers.
AssessmentsAreWhole == component = "assessment" => Questionnaire!AssessmentsAreWhole

\* Of the composite projection: every number in its range, inference no more certain than what it
\* is inferred from, and a queue without anything completed in front.
ProjectionIsSound == component = "composite" => Composite!ProjectionIsSound

\* Completing more never makes anything more urgent, and never moves the completed competency up.
MoreCreditIsNeverMoreUrgent == Composite!MoreCreditIsNeverMoreUrgent

-----------------------------------------------------------------------------
(* What the code says of itself and does not keep. *)

\* forms.py:781: a draft that is opened again has every value it was saved with.
DraftsAreRestored == component = "typed" => Typed!DraftsAreRestored
=============================================================================
