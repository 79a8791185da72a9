-------------------------- MODULE CompositeProjection --------------------------
(***************************************************************************)
(* The numbers of the composite ledger                                     *)
(* (growth/domain/composite_scoring.py): what an assessment says of        *)
(* families, levers, domains and competencies, and what completing         *)
(* practices leaves of it.  Decimals are in ten thousandths; the code      *)
(* rounds to twelve places, the model downwards to four.                   *)
(***************************************************************************)
EXTENDS Integers, FiniteSets, FiniteSetsExt

CONSTANTS
    Policies,     \* the scoring contracts of the instance, exponents in halves
    Catalogs,     \* the catalogs: family of each lever, domain and lever weights of each competency
    Assessments,  \* what a run says of each lever: estimate, or None, and confidence
    Credits,      \* the credits that occur besides none
    None

VARIABLES
    contract, catalog, assessed,  \* of the run
    credits,                      \* the largest active credit of each competency
    projection,                   \* build_assessment_projection: None, a refusal, or the projection
    completion                    \* build_completion_state for the credits

vars == <<contract, catalog, assessed, credits, projection, completion>>

Unit == 10000
Rounding == 10  \* bound on what rounding may add up to
Total(f) == MapThenSumSet(LAMBDA s : f[s], DOMAIN f)
Mean(f) == Total(f) \div Cardinality(DOMAIN f)

Lever == DOMAIN catalog.family
Family == Range(catalog.family)
Competency == DOMAIN catalog.domain
Domain == Range(catalog.domain)
Members(f) == {l \in Lever : catalog.family[l] = f}

Mapping(d) == {c \in Competency : catalog.domain[c] = d}

\* policy_from_contract
PolicyIsValid(p) ==
    /\ {p.canonical, p.equal, p.lever, p.family, p.domain, p.ownLever, p.ownFamily, p.ownDomain,
        p.inherited, p.floor, p.confidence} \subseteq 0 .. Unit
    /\ p.canonical + p.equal = Unit /\ p.floor + p.confidence = Unit
    /\ p.lever + p.family + p.domain = Unit
    /\ p.ownLever + p.ownFamily + p.ownDomain = Unit
    /\ 0 < p.needExponent /\ 0 < p.remainingExponent /\ 0 < p.ownExponent

-----------------------------------------------------------------------------
\* _power: the square root found bit by bit, and the exponents the contract uses.
WithBit(x, r, bit) == IF (r + bit) * (r + bit) =< x * Unit THEN r + bit ELSE r
FourBits(x, r, bit) ==
    WithBit(x, WithBit(x, WithBit(x, WithBit(x, r, 8 * bit), 4 * bit), 2 * bit), bit)
Root(x) == FourBits(x, FourBits(x, FourBits(x, FourBits(x, 0, 4096), 256), 16), 1)

Power(x, halves) ==
    CASE halves = 1 -> Root(x)
      [] halves = 2 -> x
      [] OTHER -> (x * Root(x)) \div Unit

\* starting_need, remaining_need
StartingNeed(estimate, confidence) ==
    (Power(Unit - estimate, contract.needExponent)
        * (contract.floor + (contract.confidence * confidence) \div Unit)) \div Unit
RemainingNeed(need, coverage) ==
    (need * Power(Unit - coverage, contract.remainingExponent)) \div Unit

\* _weighted_mean
WeightedMean(value, weight) ==
    IF Total(weight) = 0 THEN Mean(value)
    ELSE Total([s \in DOMAIN value |-> value[s] * weight[s]]) \div Total(weight)

\* blended_relationship_weights
Blended(given) ==
    [l \in DOMAIN given |->
        (contract.canonical * given[l]
           + contract.equal * (Unit \div Cardinality(DOMAIN given))) \div Unit]

\* _allocation_strings: what rounding loses goes to the largest share.
Relationships(c) ==
    LET blended == Blended(catalog.weights[c])
        largest == CHOOSE l \in DOMAIN blended :
                      \A k \in DOMAIN blended :
                          blended[k] < blended[l] \/ (blended[k] = blended[l] /\ k =< l)
    IN  [blended EXCEPT ![largest] = @ + (Unit - Total(blended))]

\* What the levers a competency trains, each by its share, add up to.
Mapped(shares, value) == Total([l \in DOMAIN shares |-> shares[l] * value[l]]) \div Unit

-----------------------------------------------------------------------------
\* build_assessment_projection
Assessed(f) == {l \in Members(f) : assessed[l].estimate # None}

FamilyRow(f) ==
    LET confidence == [l \in Assessed(f) |-> assessed[l].confidence]
    IN  [estimate |-> WeightedMean([l \in Assessed(f) |-> assessed[l].estimate], confidence),
         confidence |-> Mean(confidence)]

\* Mutant of LeverRow: an inherited estimate is as certain as that of the family.
LeverRowAsCertain(l, family) == IF assessed[l].estimate = None THEN family ELSE assessed[l]

LeverRow(l, family) ==
    IF assessed[l].estimate = None
      THEN [estimate |-> family.estimate,
            confidence |-> (family.confidence * contract.inherited) \div Unit]
      ELSE assessed[l]

\* The levers that a competency trains, their families and its domain, each by its part.
OfDomain(d, weights, byLever) == Mean([c \in Mapping(d) |-> Mapped(weights[c], byLever)])
OfCompetency(c, weights, byLever, byFamily) ==
    (contract.lever * Mapped(weights[c], byLever) + contract.family * Mapped(weights[c], byFamily)
       + contract.domain * OfDomain(catalog.domain[c], weights, byLever)) \div Unit

Row(estimate, confidence) ==
    [estimate |-> estimate, confidence |-> confidence, need |-> StartingNeed(estimate, confidence)]

\* A refusal: the contract, a family nobody assessed, weights that are no shares, unknown levers.
ProjectionIsRefused ==
    \/ ~PolicyIsValid(contract)
    \/ \E f \in Family : Assessed(f) = {}
    \/ \E c \in Competency :
          LET given == catalog.weights[c]
          IN  \/ DOMAIN given = {} \/ ~(DOMAIN given \subseteq Lever)
              \/ Total(given) # Unit \/ \E l \in DOMAIN given : given[l] =< 0

Projection ==
    LET families == [f \in Family |-> FamilyRow(f)]
        levers == [l \in Lever |-> LeverRow(l, families[catalog.family[l]])]
        weights == [c \in Competency |-> Relationships(c)]
        leverEstimate == [l \in Lever |-> levers[l].estimate]
        leverConfidence == [l \in Lever |-> levers[l].confidence]
        familyEstimate == [l \in Lever |-> families[catalog.family[l]].estimate]
        familyConfidence == [l \in Lever |-> families[catalog.family[l]].confidence]
    IN  [status |-> "projected",
         relationships |-> weights,
         inherited |-> {l \in Lever : assessed[l].estimate = None},
         families |-> [f \in Family |-> Row(families[f].estimate, families[f].confidence)],
         levers |-> [l \in Lever |-> Row(levers[l].estimate, levers[l].confidence)],
         domains |-> [d \in Domain |-> Row(OfDomain(d, weights, leverEstimate),
                                           OfDomain(d, weights, leverConfidence))],
         competencies |->
            [c \in Competency |-> Row(OfCompetency(c, weights, leverEstimate, familyEstimate),
                                      OfCompetency(c, weights, leverConfidence, familyConfidence))]]

-----------------------------------------------------------------------------
\* build_completion_state
Related(levers) ==
    {pair \in Competency \X levers : pair[2] \in DOMAIN projection.relationships[pair[1]]}
Share(pair) == projection.relationships[pair[1]][pair[2]]

\* A catalog with a lever no competency trains has no coverage to speak of.
CompletionIsRefused == \E l \in Lever : Related({l}) = {}

\* Normalised mass: the part of what trains these levers that was completed.
Coverage(levers, earned) ==
    Total([pair \in Related(levers) |-> Share(pair) * earned[pair[1]]])
       \div Total([pair \in Related(levers) |-> Share(pair)])
DomainCoverage(d, earned) == Mean([c \in Mapping(d) |-> earned[c]])

Left(row, coverage) ==
    [coverage |-> coverage, need |-> row.need, remaining |-> RemainingNeed(row.need, coverage)]

\* Mutant of Priority: what was completed counts for others only.
PriorityOfOthers(shared, credit) == shared

\* remaining_priority
Priority(shared, credit) == (shared * Power(Unit - credit, contract.ownExponent)) \div Unit

\* The queue: the higher priority first, of equal ones the lower ID.
Ranks(priority) ==
    LET Before(c, d) == priority[c] > priority[d] \/ (priority[c] = priority[d] /\ c < d)
    IN  [c \in Competency |-> 1 + Cardinality({d \in Competency : Before(d, c)})]

State(earned) ==
    LET levers == [l \in Lever |-> Left(projection.levers[l], Coverage({l}, earned))]
        families == [f \in Family |-> Left(projection.families[f], Coverage(Members(f), earned))]
        domains == [d \in Domain |-> Left(projection.domains[d], DomainCoverage(d, earned))]
        leverNeed == [l \in Lever |-> levers[l].remaining]
        familyNeed == [l \in Lever |-> families[catalog.family[l]].remaining]
        shared == [c \in Competency |->
                     (contract.ownLever * Mapped(projection.relationships[c], leverNeed)
                        + contract.ownFamily * Mapped(projection.relationships[c], familyNeed)
                        + contract.ownDomain * domains[catalog.domain[c]].remaining) \div Unit]
        priority == [c \in Competency |-> Priority(shared[c], earned[c])]
    IN  [status |-> "current", levers |-> levers, families |-> families, domains |-> domains,
         priority |-> priority, rank |-> Ranks(priority)]

-----------------------------------------------------------------------------
Init ==
    /\ contract \in Policies /\ catalog \in Catalogs
    /\ assessed \in Assessments /\ DOMAIN assessed = Lever
    /\ credits = [c \in Competency |-> 0]
    /\ projection = None /\ completion = None

\* project_assessment_run
Project ==
    /\ projection = None
    /\ projection' = IF ProjectionIsRefused THEN [status |-> "refused"] ELSE Projection
    /\ UNCHANGED <<contract, catalog, assessed, credits, completion>>

\* The state a run starts from, or the refusal of the catalog.
Initialize ==
    /\ projection # None /\ projection.status = "projected" /\ completion = None
    /\ completion' = IF CompletionIsRefused THEN [status |-> "refused"]
                     ELSE State(credits)
    /\ UNCHANGED <<contract, catalog, assessed, credits, projection>>

\* A closeout is credited or its credit is reversed; the state is built anew.
Change(c, credit) ==
    /\ completion # None /\ completion.status = "current" /\ credit # credits[c]
    /\ credits' = [credits EXCEPT ![c] = credit]
    /\ completion' = State(credits')
    /\ UNCHANGED <<contract, catalog, assessed, projection>>

Next ==
    \/ Project
    \/ Initialize
    \/ \E c \in Competency : \E credit \in Credits \cup {0} : Change(c, credit)

Spec == Init /\ [][Next]_vars

-----------------------------------------------------------------------------
Projected == projection # None /\ projection.status = "projected"
Current == completion # None /\ completion.status = "current"

InUnit(rows) ==
    \A i \in DOMAIN rows : {rows[i].estimate, rows[i].confidence, rows[i].need} \subseteq 0 .. Unit

\* A contract that is accepted keeps every number in its unit interval, and the relationships of
\* a competency add up to one after rounding, none of them lost.
ProjectionStaysInRange ==
    Projected =>
        /\ InUnit(projection.families) /\ InUnit(projection.levers)
        /\ InUnit(projection.domains) /\ InUnit(projection.competencies)
        /\ \A c \in Competency :
              LET shares == projection.relationships[c] IN
              /\ Total(shares) = Unit
              /\ \A l \in DOMAIN shares : shares[l] > 0

\* What was not assessed is not made up: it has no more than the contract's part of the certainty of
\* the family it is inferred from and is no more urgent, and no competency is outside of what its
\* levers and domain say.
InferenceIsModest ==
    Projected =>
        /\ \A l \in projection.inherited :
              LET f == projection.families[catalog.family[l]]
              IN  /\ projection.levers[l].confidence * Unit =< f.confidence * contract.inherited
                  /\ projection.levers[l].need =< f.need
        /\ \A c \in Competency :
              \E k, l \in Lever :
                 /\ projection.levers[k].estimate =< projection.competencies[c].estimate
                 /\ projection.competencies[c].estimate =< projection.levers[l].estimate

IsWornDown(rows) ==
    \A i \in DOMAIN rows :
        /\ rows[i].coverage \in 0 .. Unit /\ rows[i].remaining =< rows[i].need
        /\ Range(credits) = {0} => rows[i].remaining = rows[i].need
        /\ Range(credits) = {Unit} => rows[i].remaining = 0

\* The queue is an order; nothing completed is urgent, nothing is more urgent than it started,
\* and who has completed everything has no need left.
QueueIsConsistent ==
    Current =>
        /\ Range(completion.rank) = 1 .. Cardinality(Competency)
        /\ \A c, d \in Competency :
              completion.priority[c] > completion.priority[d] => completion.rank[c] < completion.rank[d]
        /\ \A c \in Competency : credits[c] = Unit => completion.priority[c] = 0
        /\ IsWornDown(completion.levers) /\ IsWornDown(completion.families)
        /\ IsWornDown(completion.domains)

ProjectionIsSound == ProjectionStaysInRange /\ InferenceIsModest /\ QueueIsConsistent

\* Completing more of a practice leaves no need, and no priority, higher than before.
LeavesLess ==
    \A c \in Competency :
       credits'[c] > credits[c] =>
          /\ \A l \in Lever : completion'.levers[l].remaining =< completion.levers[l].remaining
          /\ \A f \in Family : completion'.families[f].remaining =< completion.families[f].remaining
          /\ \A d \in Domain : completion'.domains[d].remaining =< completion.domains[d].remaining
          /\ \A d \in Competency : completion'.priority[d] =< completion.priority[d]
MoreCreditLeavesLess == [][Current => LeavesLess]_vars

\* And it never moves that practice's competency up in the queue, although it lowers the needs of
\* others too.
MoreCreditMovesNobodyUp ==
    [][Current =>
         \A c, d \in Competency :
            /\ credits'[c] > credits[c]
            /\ completion.priority[d] > completion.priority[c] + Rounding
            => completion'.priority[d] >= completion'.priority[c]]_vars

MoreCreditIsNeverMoreUrgent == MoreCreditLeavesLess /\ MoreCreditMovesNobodyUp
=============================================================================
