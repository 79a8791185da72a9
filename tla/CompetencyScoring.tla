--------------------------- MODULE CompetencyScoring ---------------------------
(***************************************************************************)
(* The shadow projections of growth/domain/competency_scoring.py and       *)
(* growth/domain/scoring.py: which typed events count for a competency     *)
(* under its scoring policy, and what the counted ones do to the levers    *)
(* the competency is mapped to.  Reversals arrive and time passes between  *)
(* two projections.  Masses, performances and weights are in hundredths    *)
(* and are rounded there, where the code keeps more places.                *)
(***************************************************************************)
EXTENDS Integers, FiniteSets, FiniteSetsExt

CONSTANTS
    Event,       \* event keys
    Candidate,   \* the candidates of the instance, made from typed events
    Policy,      \* the scoring policies of the instance
    Today,       \* bound: the last as-of date, in days after the last observation
    Weight,      \* the competency's mapping: lever -> [weight, total]
    Baseline,    \* lever -> [alpha, beta]
    None

VARIABLES
    policy,      \* of the competency
    candidates,  \* event key -> candidate; two events of one origin are refused
    reversed,    \* the reversed event keys
    asOf         \* the as-of date

vars == <<policy, candidates, reversed, asOf>>

TransferRank ==
    [protocol_only |-> 0, context_bound |-> 1, cross_context_candidate |-> 2, cross_context_supported |-> 3]
Halves == [supports |-> 2, mixed |-> 1, contradicts |-> 0]   \* DIRECTION_MULTIPLIERS

RoundHalfUp(n, d) == (2 * n + d) \div (2 * d)

-----------------------------------------------------------------------------
(* Which events count.                                                      *)

\* The reasons an event is withheld for its own sake, and those that remain.
WithheldAlone(cs, gone, day) ==
    {k \in DOMAIN cs : \/ k \in gone \/ cs[k].adverse \/ cs[k].withheld
                       \/ cs[k].direction \notin DOMAIN Halves
                       \/ cs[k].transfer = "protocol_only"
                       \/ cs[k].maxAge # None /\ day + cs[k].age > cs[k].maxAge}
Eligible(cs, gone, day) == DOMAIN cs \ WithheldAlone(cs, gone, day)

\* Mutant of PolicyIsMet: evidence that is withheld still corroborates.
PolicyIsMetByAll(cs, gone, day) ==
    policy = "SP-CORROBORATION-REQUIRED" =>
        Cardinality(DOMAIN cs) >= 2 /\ Cardinality(UNION {cs[k].provenance : k \in DOMAIN cs}) >= 2

\* _policy_failure: what the eligible events must show together.
PolicyIsMet(cs, gone, day) ==
    LET E == Eligible(cs, gone, day)
        provenance == UNION {cs[k].provenance : k \in E}
    IN  /\ policy # "SP-NON-SCORED-REFLECTION"
        /\ policy = "SP-CORROBORATION-REQUIRED" => Cardinality(E) >= 2 /\ Cardinality(provenance) >= 2
        /\ policy = "SP-ARTIFACT-OBJECTIVE-PREFERRED" =>
             \E k \in E : /\ cs[k].kinds \cap {"artifact", "objective"} # {}
                          /\ cs[k].provenance \cap {"reviewed_artifact", "objective_indicator"} # {}
        /\ policy = "SP-QUALIFIED-EVIDENCE-REQUIRED" => \E k \in E : cs[k].qualified

Included(cs, gone, day) ==
    IF PolicyIsMet(cs, gone, day)
    THEN {k \in Eligible(cs, gone, day) :
              policy = "SP-QUALIFIED-EVIDENCE-REQUIRED" => cs[k].qualified}
    ELSE {}

\* What was seen in two contexts supports a transfer across contexts.
Transfer(cs, included, k) ==
    IF k \in included /\ cs[k].transfer = "cross_context_candidate"
         /\ Cardinality({cs[j].context : j \in included}) >= 2
    THEN "cross_context_supported" ELSE cs[k].transfer

Contribution(cs, included, k) ==
    LET mass == IF k \in included THEN cs[k].mass ELSE 0
        success == IF k \in included
                   THEN RoundHalfUp(mass * cs[k].performance * Halves[cs[k].direction], 200) ELSE 0
    IN  [included |-> k \in included, transfer |-> Transfer(cs, included, k),
         mass |-> mass, success |-> success, failure |-> mass - success]

\* project_competency_evidence; a competency's estimate is never published.
CompetencyShadow(cs, gone, day) ==
    LET included == Included(cs, gone, day)
    IN  [state         |-> IF included = {} THEN "unknown" ELSE "evidence_observed",
         contributions |-> [k \in DOMAIN cs |-> Contribution(cs, included, k)]]

-----------------------------------------------------------------------------
(* What the counted events do to the levers.                                *)

\* task_coefficient: the lever's budget of 24 shared by its competencies, 1.5 at most.
TaskCoefficient(l) == Min({150, RoundHalfUp(2400 * Weight[l].weight, Weight[l].total)})

LeverContribution(l, c, direction, performance) ==
    LET mass == RoundHalfUp(c.mass * TaskCoefficient(l), 100)
        effective == RoundHalfUp(performance * Halves[direction], 2)
        success == RoundHalfUp(mass * effective, 100)
    IN  [mass |-> mass, success |-> success, failure |-> mass - success]

\* project_competency_to_levers: the events whose transfer is good enough.
Allocated(shadow, minimum) ==
    {k \in DOMAIN shadow.contributions :
        /\ shadow.contributions[k].included
        /\ TransferRank[shadow.contributions[k].transfer] >= TransferRank[minimum]}

Total(f) == MapThenSumSet(LAMBDA k : f[k], DOMAIN f)

\* project_scores: alpha, beta and the mass added to each lever.
LeverShadow(cs, shadow, minimum) ==
    LET all == Allocated(shadow, minimum)
        part(l, k) == LeverContribution(l, shadow.contributions[k], cs[k].direction, cs[k].performance)
    IN  [l \in DOMAIN Weight |->
            [alpha |-> Baseline[l].alpha + Total([k \in all |-> part(l, k).success]),
             beta  |-> Baseline[l].beta + Total([k \in all |-> part(l, k).failure]),
             mass  |-> Total([k \in all |-> part(l, k).mass])]]

-----------------------------------------------------------------------------
Init ==
    /\ policy \in Policy
    /\ candidates \in UNION {[S -> Candidate] : S \in SUBSET Event}
    /\ reversed = {} /\ asOf = 0

Reverse(k) ==
    /\ k \in DOMAIN candidates \ reversed
    /\ reversed' = reversed \cup {k}
    /\ UNCHANGED <<policy, candidates, asOf>>

Pass ==
    /\ asOf < Today
    /\ asOf' = asOf + 1
    /\ UNCHANGED <<policy, candidates, reversed>>

Next == Pass \/ \E k \in Event : Reverse(k)

Spec == Init /\ [][Next]_vars

-----------------------------------------------------------------------------
Shadow == CompetencyShadow(candidates, reversed, asOf)
Without(k) == [j \in DOMAIN candidates \ {k} |-> candidates[j]]
Counted == Included(candidates, reversed, asOf)

\* An event that is not counted might as well not exist: whatever withholds it - a reversal, an
\* adverse outcome, its age, its direction, the policy - it does nothing for the others either.
WithheldIsErased ==
    \A k \in DOMAIN candidates \ Counted :
        CompetencyShadow(Without(k), reversed \ {k}, asOf).contributions
            = [j \in DOMAIN candidates \ {k} |-> Shadow.contributions[j]]

\* A policy is a promise about what was counted, not about what was submitted.
PolicyIsKept ==
    LET provenance == UNION {candidates[k].provenance : k \in Counted} IN
    Counted # {} =>
        CASE policy = "SP-NON-SCORED-REFLECTION" -> FALSE
          [] policy = "SP-CORROBORATION-REQUIRED" ->
               Cardinality(Counted) >= 2 /\ provenance # {"firsthand_self_report"}
          [] policy = "SP-QUALIFIED-EVIDENCE-REQUIRED" -> \A k \in Counted : candidates[k].qualified
          [] policy = "SP-ARTIFACT-OBJECTIVE-PREFERRED" ->
               provenance \cap {"reviewed_artifact", "objective_indicator"} # {}
          [] OTHER -> TRUE

\* Neither a reversal nor the passing of time brings evidence back or raises its transfer.
EvidenceOnlyWears ==
    \A R \in SUBSET DOMAIN candidates : \A d \in asOf .. Today :
        reversed \subseteq R =>
            LET later == CompetencyShadow(candidates, R, d) IN
            \A k \in DOMAIN candidates :
                /\ later.contributions[k].mass =< Shadow.contributions[k].mass
                /\ later.contributions[k].included =>
                     TransferRank[later.contributions[k].transfer]
                        =< TransferRank[Shadow.contributions[k].transfer]

\* Levers: what is added is what was counted and may be transferred; an event that stayed in one
\* context moves no lever that asks for transfer; evidence for never lowers an estimate and
\* evidence against never raises one.
LeversMoveWithEvidence ==
    LET levers == LeverShadow(candidates, Shadow, "cross_context_supported")
        contexts == {candidates[k].context : k \in Counted}
        moved == {l \in DOMAIN levers : levers[l].mass > 0}
    IN  /\ moved # {} => Cardinality(contexts) >= 2
        /\ \A l \in DOMAIN levers :
             /\ levers[l].alpha + levers[l].beta = Baseline[l].alpha + Baseline[l].beta + levers[l].mass
             /\ levers[l].mass =< 150 * Cardinality(Counted)
             /\ LET ratio(b) == b.alpha * (Baseline[l].alpha + Baseline[l].beta)
                    same == Baseline[l].alpha * (levers[l].alpha + levers[l].beta)
                IN  /\ (\A k \in Counted : candidates[k].direction = "supports" /\ candidates[k].performance = 100)
                         => ratio(levers[l]) >= same
                    /\ (\A k \in Counted : candidates[k].direction = "contradicts")
                         => ratio(levers[l]) =< same

CompetencyEvidenceIsSound ==
    WithheldIsErased /\ PolicyIsKept /\ EvidenceOnlyWears /\ LeversMoveWithEvidence
=============================================================================
