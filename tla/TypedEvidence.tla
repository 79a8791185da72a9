----------------------------- MODULE TypedEvidence -----------------------------
(***************************************************************************)
(* The contract GG-TYPED-EVIDENCE-1.0 of growth/domain/typed_evidence.py   *)
(* and the check-in form in front of it: the rules an action's             *)
(* measurements are described by, the form that asks for them, the draft   *)
(* it saves and shows again, and the event a submission becomes.  The form *)
(* and the contract validate separately and must agree.                    *)
(* Scores are in Whole parts, weights in tenths, stored quantities in      *)
(* parts of one Unit, four decimal places.                                 *)
(***************************************************************************)
EXTENDS Integers, FiniteSets, FiniteSetsExt

CONSTANTS
    Actions,     \* the typed rules of the actions of the instance
    Facts,       \* what the owner may say of the action itself
    Values,      \* bound: what the fields of a measurement may hold, of its rule
    States,      \* the observation states of the instance, "observed" one of them
    None

VARIABLES
    action,   \* the rules of the chosen action
    facts,    \* the action-level fields of the form
    entries,  \* the fields of each measurement: state, provenance, value
    stage,    \* "new", "no page", "draft saved", "reopened", "invalid", "refused", "submitted", "rejected"
    draft,    \* the stored typed_observations, None before the first save
    typed     \* the stored event, None before submission

vars == <<action, facts, entries, stage, draft, typed>>

Whole == 12
Unit == 10000
Number == {"count", "bounded_frequency", "duration", "objective"}
Rubric == {"artifact", "conceptual", "scenario"}
Scored == {"primary", "supporting"}
Provenance == {"firsthand_self_report", "reviewed_artifact", "objective_indicator",
               "consented_observer", "qualified_attestation"}

\* The one accepted specification, typed_evidence_spec_v1.yaml.
SupportFactor == [self_directed |-> 100, planning_aid |-> 85, guided |-> 60, not_recorded |-> 70]
ContextFactor == [first_record |-> 55, same_context |-> 55, varied_context |-> 75]
RepetitionMultiplier == <<100, 65, 40, 25>>
Points == [attempt |-> 3500, completion |-> 3500, primary |-> 2000, supporting |-> 1000]
Percent == [base |-> 45, attempt |-> 10, direction |-> 10, support |-> 5, context |-> 5, observed |-> 10,
            cap |-> 85]
ContradictionLevel ==
    [supports |-> 0, mixed |-> 5000, contradicts |-> 10000, inconclusive |-> 0, unknown |-> None]

-----------------------------------------------------------------------------
(* The rules an action may have: materialize_typed_evidence_rules.          *)

NumberRuleIsValid(r) ==
    /\ r.direction \in {"at_least", "at_most"}
    /\ r.minimum =< r.target /\ r.target =< r.maximum /\ r.minimum # r.maximum
    /\ r.kind \in {"count", "duration"} => r.minimum >= 0
    /\ r.kind = "bounded_frequency" => r.minimum >= 0 /\ r.maximum =< Whole

\* _materialize_measurement_rule: scored measurements weigh something, the others nothing.
RuleIsValid(r) ==
    /\ r.role \in Scored \cup {"adverse", "context"}
    /\ IF r.role \in Scored THEN r.weight \in 1 .. 10 ELSE r.weight = 0
    /\ r.allowed # {} /\ r.allowed \subseteq Provenance
    /\ r.kind \in Number => NumberRuleIsValid(r)
    /\ r.kind = "ordinal" => Cardinality(DOMAIN r.levels) >= 2
    /\ r.kind \in Rubric => r.criteria # {}
    /\ r.kind = "attestation" => r.attestations # {}

WithRole(rules, role) == {m \in DOMAIN rules : rules[m].role = role}

RulesAreValid(a) ==
    /\ \A m \in DOMAIN a.rules : RuleIsValid(a.rules[m])
    /\ WithRole(a.rules, "primary") # {}
    /\ \A m \in a.competency : m \in DOMAIN a.rules /\ a.rules[m].role \in Scored
    /\ (a.transfer = "protocol_only") = (a.competency = {})

-----------------------------------------------------------------------------
(* The form: PracticeCheckInForm.                                           *)

\* _add_typed_measurement_fields asks the levels of an ordinal measurement for a label, which a
\* materialized rule does not have: the page of such an action raises.
HasPage == \A m \in DOMAIN action.rules : action.rules[m].kind # "ordinal"

\* _typed_value: the value of an observed measurement is required; a rubric may be empty.
FieldError(r, value) ==
    CASE r.kind = "boolean" -> value.truth = None
      [] r.kind = "bounded_frequency" ->
           value.numerator = None \/ value.denominator = None \/ value.numerator > value.denominator
      [] r.kind = "attestation" -> value.attestation_id = None
      [] r.kind \in Rubric -> FALSE
      [] OTHER -> value.amount = None

\* The observation list covers the action's measurements, with values only of what was observed.
Observation(e) == [state      |-> e.state,
                   provenance |-> e.provenance,
                   value      |-> IF e.state = "observed" THEN e.value ELSE None]

Observations == [m \in DOMAIN action.rules |-> Observation(entries[m])]

\* clean: what is checked of a draft, and in addition of a submission.
DraftIsValid ==
    /\ facts.completed => facts.attempted
    /\ \A m \in DOMAIN action.rules :
           entries[m].state = "observed" => ~FieldError(action.rules[m], entries[m].value)
    /\ facts.direction \in {"mixed", "contradicts"} => facts.text

SubmissionIsValid ==
    DraftIsValid /\ facts.attempted /\ facts.direction # "unknown"

\* _set_typed_observation_initials: the page of a reopened draft.  A stored truth value is not a
\* choice of its select control, which offers the words "true" and "false"; the browser shows the
\* empty choice.  What was not observed shows the empty fields of its kind.
Blank(r) ==
    CASE r.kind = "boolean" -> [truth |-> None]
      [] r.kind = "bounded_frequency" -> [numerator |-> None, denominator |-> None]
      [] r.kind = "attestation" -> [attestation_id |-> None, consent_confirmed |-> FALSE]
      [] r.kind \in Rubric -> [criteria_met |-> {}]
      [] OTHER -> [amount |-> None]

Shown(r, o) ==
    [state |-> o.state, provenance |-> o.provenance,
     value |-> IF o.state # "observed" \/ r.kind = "boolean" THEN Blank(r) ELSE o.value]

-----------------------------------------------------------------------------
(* The contract: evaluate_typed_evidence and replay_typed_evidence.         *)

\* The observed number in the unit of its rule.
Amount(r, value) ==
    IF r.kind = "bounded_frequency" THEN (Whole * value.numerator) \div value.denominator ELSE value.amount

OutOfBounds(r, o) ==
    r.kind \in Number /\ o.state = "observed"
      /\ (Amount(r, o.value) < r.minimum \/ Amount(r, o.value) > r.maximum)

\* _ratio_score: the way from the worst bound to the target, of a value within the bounds.
RatioScore(r, v) ==
    IF r.direction = "at_least"
    THEN IF r.target = r.minimum \/ v >= r.target THEN Whole
         ELSE (Whole * (v - r.minimum)) \div (r.target - r.minimum)
    ELSE IF r.maximum = r.target \/ v =< r.target THEN Whole
         ELSE (Whole * (r.maximum - v)) \div (r.maximum - r.target)

\* _measurement_score: what was not observed scores nothing.
Score(r, o) ==
    IF o.state # "observed" THEN 0
    ELSE CASE r.kind = "boolean" -> IF o.value.truth = r.expected THEN Whole ELSE 0
           [] r.kind \in Number -> RatioScore(r, Amount(r, o.value))
           [] r.kind = "ordinal" -> r.levels[o.value.level]
           [] r.kind \in Rubric -> (Whole * Cardinality(o.value.criteria_met)) \div Cardinality(r.criteria)
           [] r.kind = "attestation" ->
                IF o.value.attestation_id \in r.attestations
                     /\ (r.consent => o.value.consent_confirmed)
                THEN Whole ELSE 0

Refuses(i, a) ==
    \/ i.completed /\ ~i.attempted
    \/ DOMAIN i.observations # DOMAIN a.rules
    \/ \E m \in DOMAIN i.observations :
           LET r == a.rules[m] o == i.observations[m]
           IN  \/ o.provenance \notin r.allowed
               \/ (o.state # "observed") # (o.value = None)
               \/ OutOfBounds(r, o)
               \/ r.kind = "ordinal" /\ o.value # None /\ o.value.level \notin DOMAIN r.levels
               \/ r.kind \in Rubric /\ o.value # None /\ ~(o.value.criteria_met \subseteq r.criteria)

Total(f) == MapThenSumSet(LAMBDA m : f[m], DOMAIN f)

RoundHalfUp(n, d) == (2 * n + d) \div (2 * d)

\* What measurements weigh, and what of it an input gains.
Weights(a, S) == [m \in S |-> a.rules[m].weight]
Gains(i, a, S) == [m \in S |-> a.rules[m].weight * Score(a.rules[m], i.observations[m])]

\* _weighted_role_score, as a fraction: every measurement of the role counts, observed or not.
RoleScore(i, a, role) ==
    LET S == WithRole(a.rules, role)
    IN  IF S = {} THEN [n |-> 0, d |-> 1]
        ELSE [n |-> Total(Gains(i, a, S)), d |-> Whole * Total(Weights(a, S))]

Performance(i, a) ==
    LET p == RoleScore(i, a, "primary") s == RoleScore(i, a, "supporting")
    IN  (IF i.attempted THEN Points.attempt ELSE 0) + (IF i.completed THEN Points.completion ELSE 0)
        + RoundHalfUp(Points.primary * p.n * s.d + Points.supporting * s.n * p.d, p.d * s.d)

Observed(i) == {m \in DOMAIN i.observations : i.observations[m].state = "observed"}

\* In hundredths.
Quality(i) ==
    LET bonus(condition, points) == IF condition THEN points ELSE 0
    IN  Min({Percent.cap,
              Percent.base + Percent.context + bonus(i.attempted, Percent.attempt)
                + bonus(i.direction # "unknown", Percent.direction)
                + bonus(i.support # "not_recorded", Percent.support)
                + bonus(Observed(i) # {}, Percent.observed)})

\* Mutant of CompetencyPerformance: what was not observed counts as failed.
CompetencyPerformanceOfAll(i, a) ==
    IF a.competency \cap Observed(i) = {} THEN None
    ELSE RoundHalfUp(Unit * Total(Gains(i, a, a.competency)), Whole * Total(Weights(a, a.competency)))

\* Only what was observed is counted, for and against.
CompetencyPerformance(i, a) ==
    LET S == a.competency \cap Observed(i)
    IN  IF S = {} THEN None ELSE RoundHalfUp(Unit * Total(Gains(i, a, S)), Whole * Total(Weights(a, S)))

Adverse(i, a) ==
    \E m \in WithRole(a.rules, "adverse") : Score(a.rules[m], i.observations[m]) > 0

\* Why the event is not to be counted, as a set; the observation is dated the day it is
\* evaluated, so that none is ever stale.
Withholding(i, a) ==
    {reason \in {"not attempted", "no direction", "adverse", "nothing observed",
                 "no competency observed", "invalid attestation"} :
        \/ reason = "not attempted" /\ ~i.attempted
        \/ reason = "no direction" /\ i.direction \in {"unknown", "inconclusive"}
        \/ reason = "adverse" /\ Adverse(i, a)
        \/ reason = "nothing observed" /\ Observed(i) = {}
        \/ reason = "no competency observed" /\ a.competency # {} /\ a.competency \cap Observed(i) = {}
        \/ reason = "invalid attestation" /\ \E m \in Observed(i) :
               a.rules[m].kind = "attestation" /\ Score(a.rules[m], i.observations[m]) = 0}

Evaluate(i, a) ==
    [performance   |-> Performance(i, a),
     quality       |-> 100 * Quality(i),
     mass          |-> RoundHalfUp(Quality(i) * SupportFactor[i.support] * ContextFactor[i.context]
                                   * RepetitionMultiplier[IF i.index < 4 THEN i.index ELSE 4], 10000),
     contradiction |-> ContradictionLevel[i.direction],
     competency    |-> CompetencyPerformance(i, a),
     adverse       |-> Adverse(i, a),
     provenance    |-> {i.observations[m].provenance : m \in Observed(i)},
     withholding   |-> Withholding(i, a),
     snapshot      |-> [input |-> i, rules |-> a]]

\* replay_typed_evidence: the snapshot is read back, accepted again and evaluated again.
Replays(e) ==
    /\ RulesAreValid(e.snapshot.rules) /\ ~Refuses(e.snapshot.input, e.snapshot.rules)
    /\ e = Evaluate(e.snapshot.input, e.snapshot.rules)

-----------------------------------------------------------------------------
Entry(r) == [state : States, provenance : r.allowed, value : Values[r]]

\* Every choice of the fields of every measurement.
Init ==
    /\ action \in Actions
    /\ facts \in Facts
    /\ entries \in {e \in [DOMAIN action.rules -> UNION {Entry(action.rules[m]) : m \in DOMAIN action.rules}] :
                        \A m \in DOMAIN e : e[m] \in Entry(action.rules[m])}
    /\ stage = "new" /\ draft = None /\ typed = None

\* Content whose rules do not materialize is not imported: the form never sees it.
Reject ==
    /\ stage = "new" /\ ~RulesAreValid(action)
    /\ stage' = "rejected"
    /\ UNCHANGED <<action, facts, entries, draft, typed>>

FailToOpen ==
    /\ stage = "new" /\ RulesAreValid(action) /\ ~HasPage
    /\ stage' = "no page"
    /\ UNCHANGED <<action, facts, entries, draft, typed>>

SaveDraft ==
    /\ stage \in {"new", "reopened"} /\ RulesAreValid(action) /\ HasPage
    /\ IF DraftIsValid THEN stage' = "draft saved" /\ draft' = Observations
       ELSE stage' = "invalid" /\ UNCHANGED draft
    /\ UNCHANGED <<action, facts, entries, typed>>

Reopen ==
    /\ stage = "draft saved"
    /\ stage' = "reopened"
    /\ entries' = [m \in DOMAIN draft |-> Shown(action.rules[m], draft[m])]
    /\ UNCHANGED <<action, facts, draft, typed>>

Input ==
    [field \in DOMAIN facts \cup {"observations"} |->
        IF field = "observations" THEN Observations ELSE facts[field]]

\* save_check_in(submit=True): one transaction; a refusal leaves the draft as it was.
Submit ==
    /\ stage \in {"new", "reopened"} /\ RulesAreValid(action) /\ HasPage
    /\ IF ~SubmissionIsValid THEN stage' = "invalid" /\ UNCHANGED typed
       ELSE IF Refuses(Input, action) THEN stage' = "refused" /\ UNCHANGED typed
       ELSE stage' = "submitted" /\ typed' = Evaluate(Input, action)
    /\ UNCHANGED <<action, facts, entries, draft>>

Next == Reject \/ FailToOpen \/ SaveDraft \/ Reopen \/ Submit

Spec == Init /\ [][Next]_vars

-----------------------------------------------------------------------------
\* What the form accepts the contract accepts too, unless a number lies outside the bounds of its
\* rule, which the form does not know of.
FormMatchesContract ==
    stage = "refused" =>
        \E m \in DOMAIN action.rules : OutOfBounds(action.rules[m], Observations[m])

\* An event replays from its own snapshot.
TypedReplays == stage = "submitted" => Replays(typed)

\* Withholding an observation never raises the performance, the quality or the mass.
SilenceIsNoCredit ==
    stage = "submitted" =>
        \A m \in Observed(typed.snapshot.input) :
            LET i == typed.snapshot.input
                silent == Evaluate([i EXCEPT !.observations[m] = [@ EXCEPT !.state = "unknown", !.value = None]],
                                   action)
            IN  /\ silent.performance =< typed.performance
                /\ silent.quality =< typed.quality /\ silent.mass =< typed.mass

\* Every bound of the stored columns; and what was not observed is no failure: a competency whose
\* every observed measurement is perfect performs perfectly.
StoredInRange ==
    stage = "submitted" =>
        LET i == typed.snapshot.input
            S == action.competency \cap Observed(i) IN
        /\ typed.performance \in 0 .. Unit
        /\ typed.quality \in 100 * (Percent.base + Percent.context) .. 100 * Percent.cap
        /\ typed.mass \in 1 .. typed.quality
        /\ typed.competency # None => typed.competency \in 0 .. Unit
        /\ (typed.competency = None) = (S = {})
        /\ S # {} /\ (\A m \in S : Score(action.rules[m], i.observations[m]) = Whole)
             => typed.competency = Unit

\* Every acceptable number has a score, more of what a rule wants is never less, and its target
\* is a full score.
ScoresFollowRules ==
    stage # "rejected" /\ RulesAreValid(action) =>
        \A m \in DOMAIN action.rules :
            LET r == action.rules[m] IN
            r.kind \in Number =>
                /\ RatioScore(r, r.target) = Whole
                /\ \A v, w \in r.minimum .. r.maximum :
                       /\ RatioScore(r, v) \in 0 .. Whole
                       /\ v < w => IF r.direction = "at_least" THEN RatioScore(r, v) =< RatioScore(r, w)
                                   ELSE RatioScore(r, v) >= RatioScore(r, w)

\* A draft that is opened again and saved untouched is refused or unchanged, never altered.
DraftsAreNotAltered ==
    stage = "reopened" => ~DraftIsValid \/ Observations = draft

TypedEvidenceIsSound ==
    /\ FormMatchesContract /\ TypedReplays /\ SilenceIsNoCredit
    /\ StoredInRange /\ ScoresFollowRules /\ DraftsAreNotAltered

\* "Restore every structured value when an existing draft is reopened" (forms.py:781).
DraftsAreRestored == stage = "reopened" => DraftIsValid /\ Observations = draft
=============================================================================
