------------------------------ MODULE ScoringProofs -----------------------------
(***************************************************************************)
(* The components that score: evidence of competencies, typed evidence and *)
(* the composite projection.                                               *)
(***************************************************************************)
EXTENDS RulesProofs

-----------------------------------------------------------------------------
(* CompetencyScoring                                                        *)

\* What the events E show together, and which of them a policy then counts.
Meets(cs, E) ==
    /\ policy # "SP-NON-SCORED-REFLECTION"
    /\ policy = "SP-CORROBORATION-REQUIRED" =>
           Cardinality(E) >= 2 /\ Cardinality(UNION {cs[k].provenance : k \in E}) >= 2
    /\ policy = "SP-ARTIFACT-OBJECTIVE-PREFERRED" =>
           \E k \in E : /\ cs[k].kinds \cap {"artifact", "objective"} # {}
                        /\ cs[k].provenance \cap {"reviewed_artifact", "objective_indicator"} # {}
    /\ policy = "SP-QUALIFIED-EVIDENCE-REQUIRED" => \E k \in E : cs[k].qualified

Chosen(cs, E) ==
    IF Meets(cs, E) THEN {k \in E : policy = "SP-QUALIFIED-EVIDENCE-REQUIRED" => cs[k].qualified} ELSE {}

\* The candidates of a projection.
Pool(cs) == DOMAIN cs \subseteq Event /\ \A k \in DOMAIN cs : cs[k] \in Candidate

\* Reasons against a candidate of its own.
Fit(c, day) ==
    /\ ~c.adverse /\ ~c.withheld /\ c.direction \in DOMAIN Scoring!Halves /\ c.transfer # "protocol_only"
    /\ ~(c.maxAge # None /\ day + c.age > c.maxAge)

LEMMA ScoringCardinality == ASSUME NEW S PROVE Scoring!Cardinality(S) = Cardinality(S)
BY Zenon DEF Scoring!Cardinality, Cardinality

LEMMA EligibleIs ==
    ASSUME NEW cs, NEW gone, NEW day
    PROVE  Scoring!Eligible(cs, gone, day) = {k \in DOMAIN cs : k \notin gone /\ Fit(cs[k], day)}
<1>1. ASSUME NEW k \in DOMAIN cs
      PROVE  k \in Scoring!WithheldAlone(cs, gone, day) <=> ~(k \notin gone /\ Fit(cs[k], day))
  BY Zenon DEF Scoring!WithheldAlone, Fit
<1> QED BY <1>1 DEF Scoring!Eligible

LEMMA IncludedIs ==
    ASSUME NEW cs, NEW gone, NEW day
    PROVE  Scoring!Included(cs, gone, day) = Chosen(cs, Scoring!Eligible(cs, gone, day))
<1> DEFINE E == Scoring!Eligible(cs, gone, day)
<1>1. Scoring!PolicyIsMet(cs, gone, day) <=> Meets(cs, E)
  BY ScoringCardinality, Zenon DEF Scoring!PolicyIsMet, Meets
<1> QED BY <1>1, Zenon DEF Scoring!Included, Chosen

\* Provenance and members of finitely many candidates.
LEMMA PoolsAreFinite ==
    ASSUME NEW cs, Pool(cs), NEW E \in SUBSET DOMAIN cs
    PROVE  IsFiniteSet(E) /\ IsFiniteSet(UNION {cs[k].provenance : k \in E})
           /\ IsFiniteSet({cs[k].context : k \in E})
<1>1. IsFiniteSet(E)
  <2>1. E \subseteq Event /\ IsFiniteSet(Event)
    BY CandidateAssumption DEF Pool
  <2> QED BY <2>1, FS_Subset
<1>2. IsFiniteSet({cs[k].context : k \in E})
  <2> DEFINE f == [k \in E |-> cs[k].context]
  <2>1. f \in Surjection(E, {cs[k].context : k \in E})
    BY DEF Surjection
  <2> HIDE DEF f
  <2> QED BY <1>1, <2>1, FS_Surjection
<1>3. IsFiniteSet(UNION {cs[k].provenance : k \in E})
  <2> DEFINE f == [k \in E |-> cs[k].provenance]
             P == {cs[k].provenance : k \in E}
  <2>1. f \in Surjection(E, P)
    BY DEF Surjection
  <2> HIDE DEF f
  <2>2. IsFiniteSet(P)
    BY <1>1, <2>1, FS_Surjection
  <2>3. \A p \in P : IsFiniteSet(p)
    <3>1. ASSUME NEW k \in E PROVE IsFiniteSet(cs[k].provenance)
      <4>1. cs[k] \in Candidate
        BY DEF Pool
      <4> QED BY <4>1, CandidateAssumption
    <3> QED BY <3>1
  <2> HIDE DEF P
  <2>4. IsFiniteSet(UNION P)
    BY <2>2, <2>3, FS_UNION
  <2> QED BY <2>4 DEF P
<1> QED BY <1>1, <1>2, <1>3

\* What few events show together more events show as well.
LEMMA MeetsGrows ==
    ASSUME NEW cs, Pool(cs), NEW F \in SUBSET DOMAIN cs, NEW E \in SUBSET F, Meets(cs, E)
    PROVE  Meets(cs, F)
<1>1. CASE policy = "SP-CORROBORATION-REQUIRED"
  <2> DEFINE P(S) == UNION {cs[k].provenance : k \in S}
  <2>1. Cardinality(E) >= 2 /\ Cardinality(P(E)) >= 2
    BY <1>1, Zenon DEF Meets
  <2>2. P(E) \subseteq P(F)
    OBVIOUS
  <2>3. IsFiniteSet(F) /\ IsFiniteSet(P(F))
    BY PoolsAreFinite
  <2> HIDE DEF P
  <2>4. Cardinality(E) =< Cardinality(F) /\ Cardinality(P(E)) =< Cardinality(P(F))
    BY <2>2, <2>3, FS_Subset
  <2>5. /\ Cardinality(E) \in Nat /\ Cardinality(F) \in Nat
        /\ Cardinality(P(E)) \in Nat /\ Cardinality(P(F)) \in Nat
    BY <2>2, <2>3, FS_Subset, FS_CardinalityType
  <2>6. Cardinality(F) >= 2 /\ Cardinality(P(F)) >= 2
    BY <2>1, <2>4, <2>5
  <2> QED BY <1>1, <2>6 DEF Meets, P
<1>2. CASE policy # "SP-CORROBORATION-REQUIRED"
  BY <1>2 DEF Meets
<1> QED BY <1>1, <1>2

LEMMA ChosenGrows ==
    ASSUME NEW cs, Pool(cs), NEW F \in SUBSET DOMAIN cs, NEW E \in SUBSET F
    PROVE  Chosen(cs, E) \subseteq Chosen(cs, F) /\ Chosen(cs, E) \subseteq E
<1>1. Chosen(cs, E) \subseteq E
  BY DEF Chosen
<1>2. Meets(cs, E) => Meets(cs, F)
  BY MeetsGrows
<1> QED BY <1>1, <1>2 DEF Chosen

\* One event less, one that was not counted: what is counted stays.
LEMMA ChosenWithout ==
    ASSUME NEW cs, Pool(cs), NEW E \in SUBSET DOMAIN cs, NEW k, k \notin Chosen(cs, E),
           NEW ds, \A j \in E \ {k} : ds[j] = cs[j]
    PROVE  Chosen(ds, E \ {k}) = Chosen(cs, E)
<1> DEFINE D == E \ {k}
<1>1. UNION {ds[j].provenance : j \in D} = UNION {cs[j].provenance : j \in D}
  OBVIOUS
<1>2. Meets(ds, D) <=> Meets(cs, D)
  <2>1. \A j \in D : ds[j] = cs[j]
    OBVIOUS
  <2> HIDE DEF D
  <2> QED BY <1>1, <2>1 DEF Meets
<1>3. D \in SUBSET E
  OBVIOUS
<1>4. CASE ~Meets(cs, E)
  <2>1. ~Meets(cs, D)
    BY <1>3, <1>4, MeetsGrows
  <2> QED BY <1>2, <1>4, <2>1 DEF Chosen
<1>5. CASE Meets(cs, E)
  <2>1. Meets(cs, D)
    <3>1. CASE k \in E
      <4>1. policy = "SP-QUALIFIED-EVIDENCE-REQUIRED" /\ ~cs[k].qualified
        BY <1>5, <3>1 DEF Chosen
      <4>2. PICK q \in E : cs[q].qualified
        BY <1>5, <4>1, Zenon DEF Meets
      <4>3. q \in D
        BY <4>1, <4>2
      <4> QED BY <4>1, <4>2, <4>3 DEF Meets
    <3>2. CASE k \notin E
      <4>1. D = E
        BY <3>2
      <4> QED BY <1>5, <4>1
    <3> QED BY <3>1, <3>2
  <2>2. Chosen(cs, E) = {j \in E : policy = "SP-QUALIFIED-EVIDENCE-REQUIRED" => cs[j].qualified}
        /\ Chosen(ds, D) = {j \in D : policy = "SP-QUALIFIED-EVIDENCE-REQUIRED" => ds[j].qualified}
    BY <1>2, <1>5, <2>1, Zenon DEF Chosen
  <2> QED BY <2>2
<1> QED BY <1>4, <1>5

LEMMA ContributionsAgree ==
    ASSUME NEW cs, NEW ds, NEW included, \A j \in included : ds[j] = cs[j], NEW k, ds[k] = cs[k]
    PROVE  Scoring!Contribution(ds, included, k) = Scoring!Contribution(cs, included, k)
<1>1. {ds[j].context : j \in included} = {cs[j].context : j \in included}
  OBVIOUS
<1>2. Scoring!Transfer(ds, included, k) = Scoring!Transfer(cs, included, k)
  BY <1>1, Zenon DEF Scoring!Transfer
<1> QED BY <1>2, Zenon DEF Scoring!Contribution

\* What is known of the inputs of a projection.
CompetencyInv == Pool(candidates) /\ asOf \in Nat

LEMMA EligibleAre ==
    ASSUME NEW cs, NEW gone, NEW day
    PROVE  Scoring!Eligible(cs, gone, day) \in SUBSET DOMAIN cs
BY EligibleIs

LEMMA ErasedWhenWithheld == ASSUME CompetencyInv PROVE Scoring!WithheldIsErased
<1> SUFFICES ASSUME NEW k \in DOMAIN candidates \ Scoring!Counted
             PROVE  Scoring!CompetencyShadow(Scoring!Without(k), reversed \ {k}, asOf).contributions
                        = [j \in DOMAIN candidates \ {k} |-> Scoring!Shadow.contributions[j]]
  BY Zenon DEF Scoring!WithheldIsErased
<1> DEFINE ds == Scoring!Without(k)
           D == DOMAIN candidates \ {k}
           E == Scoring!Eligible(candidates, reversed, asOf)
           F == Scoring!Eligible(ds, reversed \ {k}, asOf)
           C == Scoring!Counted
<1>1. DOMAIN ds = D /\ \A j \in D : ds[j] = candidates[j]
  BY DEF Scoring!Without
<1>2. C = Chosen(candidates, E) /\ Scoring!Included(ds, reversed \ {k}, asOf) = Chosen(ds, F)
  BY IncludedIs, Zenon DEF Scoring!Counted
<1> HIDE DEF ds
<1>3. F = E \ {k}
  <2>1. E = {j \in DOMAIN candidates : j \notin reversed /\ Fit(candidates[j], asOf)}
    BY EligibleIs
  <2>2. F = {j \in DOMAIN ds : j \notin reversed \ {k} /\ Fit(ds[j], asOf)}
    BY EligibleIs
  <2> HIDE DEF E, F
  <2> QED BY <1>1, <2>1, <2>2
<1>4. E \in SUBSET DOMAIN candidates
  BY EligibleAre
<1> HIDE DEF E, F
<1>5. Pool(candidates) /\ k \notin C
  BY DEF CompetencyInv
<1> HIDE DEF C
<1>6. \A j \in E \ {k} : ds[j] = candidates[j]
  BY <1>1, <1>4
<1>7. Chosen(ds, F) = C
  BY <1>2, <1>3, <1>4, <1>5, <1>6, ChosenWithout
<1>8. C \subseteq D
  <2>1. Chosen(candidates, E) \subseteq E
    BY DEF Chosen
  <2> QED BY <1>2, <1>4, <1>5, <2>1
<1>9. ASSUME NEW j \in D
      PROVE  Scoring!Contribution(ds, C, j) = Scoring!Contribution(candidates, C, j)
  BY <1>1, <1>8, ContributionsAgree
<1>10. Scoring!CompetencyShadow(ds, reversed \ {k}, asOf).contributions
           = [j \in DOMAIN ds |-> Scoring!Contribution(ds, C, j)]
  <2>1. Scoring!Included(ds, reversed \ {k}, asOf) = C
    BY <1>2, <1>7
  <2> QED BY <2>1 DEF Scoring!CompetencyShadow
<1>11. Scoring!Shadow.contributions = [j \in DOMAIN candidates |-> Scoring!Contribution(candidates, C, j)]
  BY DEF Scoring!Shadow, Scoring!CompetencyShadow, Scoring!Counted, C
<1>12. \A j \in D : Scoring!Shadow.contributions[j] = Scoring!Contribution(candidates, C, j)
  BY <1>11
<1>13. \A j \in D : Scoring!Contribution(ds, C, j) = Scoring!Shadow.contributions[j]
  BY <1>9, <1>12
<1>14. Scoring!CompetencyShadow(ds, reversed \ {k}, asOf).contributions
           = [j \in D |-> Scoring!Shadow.contributions[j]]
  <2> HIDE DEF C, D
  <2> QED BY <1>1, <1>10, <1>13
<1> QED BY <1>14 DEF ds

LEMMA PoliciesAreKept == ASSUME CompetencyInv PROVE Scoring!PolicyIsKept
<1> DEFINE E == Scoring!Eligible(candidates, reversed, asOf)
           C == Scoring!Counted
           provenance == UNION {candidates[k].provenance : k \in C}
<1>1. C = Chosen(candidates, E)
  BY IncludedIs, Zenon DEF Scoring!Counted
<1> HIDE DEF E, C
<1>2. SUFFICES ASSUME C # {}
               PROVE  /\ policy # "SP-NON-SCORED-REFLECTION"
                      /\ policy = "SP-CORROBORATION-REQUIRED" =>
                             Cardinality(C) >= 2 /\ provenance # {"firsthand_self_report"}
                      /\ policy = "SP-QUALIFIED-EVIDENCE-REQUIRED" => \A k \in C : candidates[k].qualified
                      /\ policy = "SP-ARTIFACT-OBJECTIVE-PREFERRED" =>
                             provenance \cap {"reviewed_artifact", "objective_indicator"} # {}
  <2> DEFINE P1 == Cardinality(C) >= 2 /\ provenance # {"firsthand_self_report"}
             P2 == \A k \in C : candidates[k].qualified
             P3 == provenance \cap {"reviewed_artifact", "objective_indicator"} # {}
  <2>1. SUFFICES ASSUME C # {}
                 PROVE  CASE policy = "SP-NON-SCORED-REFLECTION" -> FALSE
                          [] policy = "SP-CORROBORATION-REQUIRED" -> P1
                          [] policy = "SP-QUALIFIED-EVIDENCE-REQUIRED" -> P2
                          [] policy = "SP-ARTIFACT-OBJECTIVE-PREFERRED" -> P3
                          [] OTHER -> TRUE
    BY ScoringCardinality, Zenon DEF Scoring!PolicyIsKept, C
  <2>2. /\ policy # "SP-NON-SCORED-REFLECTION"
        /\ policy = "SP-CORROBORATION-REQUIRED" => P1
        /\ policy = "SP-QUALIFIED-EVIDENCE-REQUIRED" => P2
        /\ policy = "SP-ARTIFACT-OBJECTIVE-PREFERRED" => P3
    BY <1>2, <2>1
  <2> HIDE DEF P1, P2, P3
  <2> QED BY <2>2
<1>3. Meets(candidates, E)
  BY <1>1, <1>2 DEF Chosen
<1>4. C = {k \in E : policy = "SP-QUALIFIED-EVIDENCE-REQUIRED" => candidates[k].qualified}
  BY <1>1, <1>3 DEF Chosen
<1>5. ASSUME policy = "SP-CORROBORATION-REQUIRED"
      PROVE  Cardinality(C) >= 2 /\ provenance # {"firsthand_self_report"}
  <2>1. C = E
    BY <1>4, <1>5
  <2>2. Cardinality(C) >= 2 /\ Cardinality(provenance) >= 2
    BY <1>3, <1>5, <2>1, Zenon DEF Meets
  <2>3. Cardinality({"firsthand_self_report"}) = 1
    BY FS_Singleton
  <2> HIDE DEF provenance
  <2> QED BY <2>2, <2>3
<1>6. ASSUME policy = "SP-ARTIFACT-OBJECTIVE-PREFERRED"
      PROVE  provenance \cap {"reviewed_artifact", "objective_indicator"} # {}
  <2>1. PICK k \in E : candidates[k].provenance \cap {"reviewed_artifact", "objective_indicator"} # {}
    BY <1>3, <1>6, Zenon DEF Meets
  <2>2. k \in C
    BY <1>4, <1>6
  <2> QED BY <2>1, <2>2
<1>7. policy # "SP-NON-SCORED-REFLECTION"
  BY <1>3 DEF Meets
<1>8. ASSUME policy = "SP-QUALIFIED-EVIDENCE-REQUIRED" PROVE \A k \in C : candidates[k].qualified
  BY <1>4, <1>8
<1> QED BY <1>5, <1>6, <1>7, <1>8

\* Later, or with more reversed, fewer events are eligible.
LEMMA EligibilityWears ==
    ASSUME NEW cs, Pool(cs), NEW gone, NEW R, gone \subseteq R, NEW day \in Nat, NEW d \in Nat, day =< d
    PROVE  Scoring!Eligible(cs, R, d) \subseteq Scoring!Eligible(cs, gone, day)
<1>1. ASSUME NEW k \in DOMAIN cs, Fit(cs[k], d) PROVE Fit(cs[k], day)
  <2>1. cs[k].age \in Nat /\ cs[k].maxAge \in Nat \cup {None}
    <3>1. cs[k] \in Candidate
      BY DEF Pool
    <3> QED BY <3>1, CandidateAssumption
  <2> DEFINE a == cs[k].age
             m == cs[k].maxAge
  <2>2. m # None => ~(d + a > m)
    BY <1>1, Zenon DEF Fit
  <2> HIDE DEF a, m
  <2>3. m # None => ~(day + a > m)
    BY <2>1, <2>2 DEF a, m
  <2> QED BY <1>1, <2>3, Zenon DEF Fit, a, m
<1>2. /\ Scoring!Eligible(cs, R, d) = {k \in DOMAIN cs : k \notin R /\ Fit(cs[k], d)}
      /\ Scoring!Eligible(cs, gone, day) = {k \in DOMAIN cs : k \notin gone /\ Fit(cs[k], day)}
  BY EligibleIs
<1> QED BY <1>1, <1>2

\* What is counted less is transferred no further.
LEMMA TransferWears ==
    ASSUME NEW cs, Pool(cs), NEW N \in SUBSET DOMAIN cs, NEW L \in SUBSET N, NEW k \in L
    PROVE  Scoring!TransferRank[Scoring!Transfer(cs, L, k)] =< Scoring!TransferRank[Scoring!Transfer(cs, N, k)]
<1> DEFINE contexts(S) == {cs[j].context : j \in S}
           few(S) == ~(Cardinality(contexts(S)) >= 2)
           r(t) == Scoring!TransferRank[t]
<1>1. cs[k].transfer \in {"protocol_only", "context_bound", "cross_context_candidate"}
  <2>1. cs[k] \in Candidate
    BY DEF Pool
  <2> QED BY <2>1, CandidateAssumption
<1>2. ~few(L) => ~few(N)
  <2>1. contexts(L) \subseteq contexts(N)
    OBVIOUS
  <2>2. IsFiniteSet(contexts(N))
    BY PoolsAreFinite
  <2> HIDE DEF contexts
  <2>3. /\ Cardinality(contexts(L)) =< Cardinality(contexts(N))
        /\ Cardinality(contexts(L)) \in Nat /\ Cardinality(contexts(N)) \in Nat
    BY <2>1, <2>2, FS_Subset, FS_CardinalityType
  <2> QED BY <2>3
<1>3. \A S \in SUBSET DOMAIN cs :
          k \in S => Scoring!Transfer(cs, S, k) =
                         IF cs[k].transfer = "cross_context_candidate" /\ ~few(S)
                         THEN "cross_context_supported" ELSE cs[k].transfer
  BY ScoringCardinality, Zenon DEF Scoring!Transfer
<1>4. /\ r("protocol_only") = 0 /\ r("context_bound") = 1
      /\ r("cross_context_candidate") = 2 /\ r("cross_context_supported") = 3
  BY DEF Scoring!TransferRank
<1> HIDE DEF few, r
<1>5. /\ Scoring!Transfer(cs, L, k) = IF cs[k].transfer = "cross_context_candidate" /\ ~few(L)
                                      THEN "cross_context_supported" ELSE cs[k].transfer
      /\ Scoring!Transfer(cs, N, k) = IF cs[k].transfer = "cross_context_candidate" /\ ~few(N)
                                      THEN "cross_context_supported" ELSE cs[k].transfer
  <2>1. L \in SUBSET DOMAIN cs /\ k \in N
    OBVIOUS
  <2> QED BY <1>3, <2>1, Zenon
<1>6. r(Scoring!Transfer(cs, L, k)) =< r(Scoring!Transfer(cs, N, k))
  <2>1. CASE cs[k].transfer = "cross_context_candidate"
    BY <1>2, <1>4, <1>5, <2>1
  <2>2. CASE cs[k].transfer # "cross_context_candidate"
    <3>1. Scoring!Transfer(cs, L, k) = cs[k].transfer /\ Scoring!Transfer(cs, N, k) = cs[k].transfer
      BY <1>5, <2>2
    <3>2. cs[k].transfer \in {"protocol_only", "context_bound"}
      BY <1>1, <2>2
    <3> QED BY <1>4, <3>1, <3>2
  <2> QED BY <2>1, <2>2
<1> QED BY <1>6 DEF r

LEMMA EvidenceWears == ASSUME CompetencyInv PROVE Scoring!EvidenceOnlyWears
<1> SUFFICES ASSUME NEW R \in SUBSET DOMAIN candidates, NEW d \in asOf .. Today, reversed \subseteq R,
                    NEW k \in DOMAIN candidates
             PROVE  LET later == Scoring!CompetencyShadow(candidates, R, d).contributions[k]
                        now == Scoring!Shadow.contributions[k]
                    IN  /\ later.mass =< now.mass
                        /\ later.included =>
                               Scoring!TransferRank[later.transfer] =< Scoring!TransferRank[now.transfer]
  BY Zenon DEF Scoring!EvidenceOnlyWears
<1> DEFINE N == Scoring!Included(candidates, reversed, asOf)
           L == Scoring!Included(candidates, R, d)
           E == Scoring!Eligible(candidates, reversed, asOf)
           F == Scoring!Eligible(candidates, R, d)
<1>1. d \in Nat /\ asOf =< d /\ asOf \in Nat /\ Pool(candidates)
  BY CandidateAssumption DEF CompetencyInv
<1>2. F \subseteq E
  BY <1>1, EligibilityWears
<1>3. E \in SUBSET DOMAIN candidates /\ N = Chosen(candidates, E) /\ L = Chosen(candidates, F)
  BY EligibleAre, IncludedIs, Zenon
<1> HIDE DEF E, F, N, L
<1>4. L \subseteq N /\ N \subseteq DOMAIN candidates
  <2>1. L \subseteq N
    BY <1>1, <1>2, <1>3, ChosenGrows
  <2>2. N \subseteq E
    BY <1>3 DEF Chosen
  <2> QED BY <1>3, <2>1, <2>2
<1> DEFINE later == Scoring!CompetencyShadow(candidates, R, d).contributions[k]
           now == Scoring!Shadow.contributions[k]
<1>5. later = Scoring!Contribution(candidates, L, k) /\ now = Scoring!Contribution(candidates, N, k)
  BY DEF Scoring!Shadow, Scoring!CompetencyShadow, L, N
<1>6. /\ later.included = (k \in L) /\ later.mass = (IF k \in L THEN candidates[k].mass ELSE 0)
      /\ now.mass = (IF k \in N THEN candidates[k].mass ELSE 0)
      /\ later.transfer = Scoring!Transfer(candidates, L, k)
      /\ now.transfer = Scoring!Transfer(candidates, N, k)
  BY <1>5 DEF Scoring!Contribution
<1> HIDE DEF later, now
<1>7. candidates[k].mass \in Nat
  <2>1. candidates[k] \in Candidate
    BY <1>1 DEF Pool
  <2> QED BY <2>1, CandidateAssumption
<1>8. later.mass =< now.mass
  BY <1>4, <1>6, <1>7
<1>9. k \in L => Scoring!TransferRank[later.transfer] =< Scoring!TransferRank[now.transfer]
  BY <1>1, <1>4, <1>6, TransferWears
<1> QED BY <1>6, <1>8, <1>9 DEF later, now

\* The totals of the levers are sums over the events they are made of.
LEMMA TotalIsTheSum ==
    ASSUME NEW f, IsFiniteSet(DOMAIN f)
    PROVE  Scoring!Total(f) = Sum(f, DOMAIN f)
<1> DEFINE S == DOMAIN f
           Adds(g) == g = [s \in SUBSET S |-> IF s = {} THEN 0
                              ELSE f[CHOOSE x \in s : TRUE] + g[s \ {CHOOSE x \in s : TRUE}]]
           iter == CHOOSE g : Adds(g)
<1>1. Scoring!Total(f) = iter[S]
  BY Zenon DEF Scoring!Total, Scoring!MapThenSumSet, Scoring!MapThenFoldSet
<1>2. \A g : Folding(g, f, S) <=> Adds(g)
  BY Zenon DEF Folding, Step
<1> HIDE DEF Adds
<1>3. \E g : Adds(g)
  BY <1>2, FoldingExists
<1>4. Folding(iter, f, S)
  BY <1>2, <1>3, Zenon
<1> HIDE DEF iter
<1>5. iter[S] = Sum(f, S)
  BY <1>4, FoldingIsTheSum
<1> QED BY <1>1, <1>5

\* What is a whole number already is not rounded away.
LEMMA RoundingIsExact ==
    ASSUME NEW k \in Nat, NEW d \in Nat \ {0}
    PROVE  Contract!RoundHalfUp(k * d, d) = k
<1> DEFINE n == k * d
<1>1. n \in Nat
  OBVIOUS
<1>2. Contract!RoundHalfUp(n, d) \in Nat /\ Contract!RoundHalfUp(n, d) =< k
  BY <1>1, RoundingIsMonotone
<1>3. 2 * n + d \in Nat /\ 2 * d \in Nat \ {0} /\ k * (2 * d) =< 2 * n + d
  OBVIOUS
<1>4. k =< (2 * n + d) \div (2 * d)
  BY <1>3, DivisionBounds
<1> QED BY <1>2, <1>4 DEF Contract!RoundHalfUp

LEMMA ScoringRounds ==
    ASSUME NEW n, NEW d
    PROVE  Scoring!RoundHalfUp(n, d) = Contract!RoundHalfUp(n, d)
BY DEF Scoring!RoundHalfUp, Contract!RoundHalfUp

LEMMA CoefficientBounds ==
    ASSUME NEW l \in DOMAIN LeverShare
    PROVE  Scoring!TaskCoefficient(l) \in 0 .. 150
<1> DEFINE r == Scoring!RoundHalfUp(2400 * LeverShare[l].weight, LeverShare[l].total)
<1>1. r \in Nat
  <2>1. LeverShare[l].weight \in Nat /\ LeverShare[l].total \in Nat \ {0}
    BY CandidateAssumption
  <2>2. 2400 * LeverShare[l].weight \in Nat
    BY <2>1
  <2> QED BY <2>1, <2>2, ScoringRounds, RoundingIsMonotone
<1>2. Scoring!TaskCoefficient(l) = CHOOSE x \in {150, r} : \A y \in {150, r} : x =< y
  BY DEF Scoring!TaskCoefficient, Scoring!Min
<1> HIDE DEF r
<1>3. \E x \in {150, r} : \A y \in {150, r} : x =< y
  BY <1>1
<1> DEFINE m == CHOOSE x \in {150, r} : \A y \in {150, r} : x =< y
<1>4. m \in {150, r} /\ \A y \in {150, r} : m =< y
  BY <1>3, Zenon
<1> HIDE DEF m
<1>5. m \in 0 .. 150
  BY <1>1, <1>4
<1> QED BY <1>2, <1>5 DEF m

\* What an event adds to a lever is a part of its mass, split between success and failure.
Part(l, c, direction, performance) == Scoring!LeverContribution(l, c, direction, performance)

LEMMA PartBounds ==
    ASSUME NEW l \in DOMAIN LeverShare, NEW c, c.mass \in 0 .. 100,
           NEW direction \in DOMAIN Scoring!Halves, NEW performance \in 0 .. 100
    PROVE  LET p == Part(l, c, direction, performance)
           IN  /\ p.mass \in 0 .. 150 /\ p.success \in Nat /\ p.failure \in Nat
               /\ p.success + p.failure = p.mass
               /\ direction = "supports" /\ performance = 100 => p.failure = 0
               /\ direction = "contradicts" => p.success = 0
<1> DEFINE t == Scoring!TaskCoefficient(l)
           h == Scoring!Halves[direction]
           n == c.mass
           mass == Contract!RoundHalfUp(n * t, 100)
           effective == Contract!RoundHalfUp(performance * h, 2)
           success == Contract!RoundHalfUp(mass * effective, 100)
           p == Part(l, c, direction, performance)
<1>1. t \in 0 .. 150
  BY CoefficientBounds
<1>2. /\ h \in {0, 1, 2}
      /\ direction = "supports" => h = 2
      /\ direction = "contradicts" => h = 0
  BY DEF Scoring!Halves
<1>3. p.mass = mass /\ p.success = success /\ p.failure = mass - success
  BY ScoringRounds DEF Part, Scoring!LeverContribution
<1> HIDE DEF p, t, h, n
<1>4. mass \in Nat /\ mass =< 150
  <2>1. n \in Nat /\ n =< 100 /\ t \in Nat /\ t =< 150
    BY <1>1 DEF n
  <2>2. n * t \in Nat /\ n * t =< 150 * 100
    BY <2>1, TimesIsMonotone DEF Times
  <2> QED BY <2>2, RoundingIsMonotone
<1>5. /\ effective \in Nat /\ effective =< 100
      /\ h = 2 /\ performance = 100 => effective = 100
      /\ h = 0 => effective = 0
  <2>1. performance * h \in Nat /\ performance * h =< 100 * 2
    BY <1>2
  <2>2. effective \in Nat /\ effective =< 100
    BY <2>1, RoundingIsMonotone
  <2>3. ASSUME h = 2, performance = 100 PROVE effective = 100
    BY <2>3, RoundingIsExact
  <2>4. ASSUME h = 0 PROVE effective = 0
    <3>1. performance * h = 0 * 2
      BY <2>4
    <3> QED BY <3>1, RoundingIsExact
  <2> QED BY <2>2, <2>3, <2>4
<1> HIDE DEF mass, effective
<1>6. /\ success \in Nat /\ success =< mass
      /\ effective = 100 => success = mass
      /\ effective = 0 => success = 0
  <2>1. mass * effective \in Nat /\ mass * effective =< mass * 100
    BY <1>4, <1>5, TimesIsMonotone DEF Times
  <2>2. success \in Nat /\ success =< mass
    BY <1>4, <2>1, RoundingIsMonotone
  <2>3. ASSUME effective = 100 PROVE success = mass
    BY <1>4, <2>3, RoundingIsExact
  <2>4. ASSUME effective = 0 PROVE success = 0
    <3>1. mass * effective = 0 * 100
      BY <1>4, <2>4
    <3> QED BY <3>1, RoundingIsExact
  <2> QED BY <2>2, <2>3, <2>4
<1> HIDE DEF success
<1>7. /\ mass \in 0 .. 150 /\ success \in Nat /\ mass - success \in Nat
      /\ success + (mass - success) = mass
      /\ direction = "supports" /\ performance = 100 => mass - success = 0
      /\ direction = "contradicts" => success = 0
  BY <1>2, <1>4, <1>5, <1>6
<1> QED BY <1>3, <1>7 DEF p

LEMMA CountedAre ==
    ASSUME CompetencyInv
    PROVE  /\ Scoring!Counted \in SUBSET DOMAIN candidates /\ IsFiniteSet(Scoring!Counted)
           /\ \A k \in Scoring!Counted :
                 /\ candidates[k] \in Candidate
                 /\ candidates[k].direction \in DOMAIN Scoring!Halves
                 /\ candidates[k].performance \in 0 .. 100
<1> DEFINE E == Scoring!Eligible(candidates, reversed, asOf)
           C == Scoring!Counted
<1>1. C = Chosen(candidates, E)
  BY IncludedIs, Zenon DEF Scoring!Counted
<1>2. E = {k \in DOMAIN candidates : k \notin reversed /\ Fit(candidates[k], asOf)}
  BY EligibleIs
<1> HIDE DEF C, E
<1>3. C \subseteq E
  BY <1>1 DEF Chosen
<1>4. C \in SUBSET DOMAIN candidates
  BY <1>2, <1>3
<1>5. IsFiniteSet(C)
  BY <1>4, PoolsAreFinite DEF CompetencyInv
<1>6. ASSUME NEW k \in C
      PROVE  /\ candidates[k] \in Candidate /\ candidates[k].direction \in DOMAIN Scoring!Halves
             /\ candidates[k].performance \in 0 .. 100
  <2>1. candidates[k] \in Candidate
    BY <1>4 DEF CompetencyInv, Pool
  <2>2. Fit(candidates[k], asOf)
    BY <1>2, <1>3
  <2>3. ~candidates[k].withheld /\ candidates[k].direction \in DOMAIN Scoring!Halves
    BY <2>2, Zenon DEF Fit
  <2> QED BY <2>1, <2>3, CandidateAssumption
<1> QED BY <1>4, <1>5, <1>6 DEF C

\* The events that are transferred to a lever that asks for transfer.
Transferred == Scoring!Allocated(Scoring!Shadow, "cross_context_supported")

LEMMA TransferredAre ==
    ASSUME CompetencyInv
    PROVE  /\ Transferred \subseteq Scoring!Counted
           /\ \A k \in Transferred : Scoring!Shadow.contributions[k].mass \in 0 .. 100
           /\ Transferred # {} => Cardinality({candidates[k].context : k \in Scoring!Counted}) >= 2
<1> DEFINE C == Scoring!Counted
           part(k) == Scoring!Shadow.contributions[k]
           r(t) == Scoring!TransferRank[t]
<1>1. Scoring!Shadow.contributions = [k \in DOMAIN candidates |-> Scoring!Contribution(candidates, C, k)]
  BY DEF Scoring!Shadow, Scoring!CompetencyShadow, Scoring!Counted, C
<1>2. C \in SUBSET DOMAIN candidates /\ \A k \in C : candidates[k] \in Candidate
  BY CountedAre
<1> HIDE DEF C
<1>3. \A k \in DOMAIN candidates : /\ part(k).included = (k \in C)
                                   /\ part(k).transfer = Scoring!Transfer(candidates, C, k)
                                   /\ part(k).mass = (IF k \in C THEN candidates[k].mass ELSE 0)
  BY <1>1 DEF Scoring!Contribution
<1>4. DOMAIN Scoring!Shadow.contributions = DOMAIN candidates
  BY <1>1
<1>5. Transferred = {k \in DOMAIN candidates : part(k).included /\ r(part(k).transfer) >= r("cross_context_supported")}
  BY <1>4 DEF Transferred, Scoring!Allocated
<1> HIDE DEF part
<1>6. Transferred \subseteq C
  BY <1>3, <1>5
<1>7. ASSUME NEW k \in Transferred PROVE part(k).mass \in 0 .. 100
  <2>1. part(k).mass = candidates[k].mass
    BY <1>2, <1>3, <1>6
  <2> QED BY <1>2, <1>6, <2>1, CandidateAssumption
<1>8. ASSUME NEW k \in Transferred PROVE Cardinality({candidates[j].context : j \in C}) >= 2
  <2>1. r(Scoring!Transfer(candidates, C, k)) >= r("cross_context_supported")
    BY <1>2, <1>3, <1>5
  <2>2. candidates[k].transfer \in {"protocol_only", "context_bound", "cross_context_candidate"}
    BY <1>2, <1>6, CandidateAssumption
  <2>3. /\ r("protocol_only") = 0 /\ r("context_bound") = 1
        /\ r("cross_context_candidate") = 2 /\ r("cross_context_supported") = 3
    BY DEF Scoring!TransferRank
  <2> HIDE DEF r
  <2>4. Scoring!Transfer(candidates, C, k) # candidates[k].transfer
    BY <2>1, <2>2, <2>3
  <2> QED BY <2>4, ScoringCardinality, Zenon DEF Scoring!Transfer
<1> QED BY <1>6, <1>7, <1>8 DEF C, part

\* What the transferred events add to a lever's success, failure and mass.
Gained(l, k) == Part(l, Scoring!Shadow.contributions[k], candidates[k].direction, candidates[k].performance)
Successes(l) == [k \in Transferred |-> Gained(l, k).success]
Failures(l) == [k \in Transferred |-> Gained(l, k).failure]
Masses(l) == [k \in Transferred |-> Gained(l, k).mass]

LEMMA LeverShadowIs ==
    ASSUME CompetencyInv
    PROVE  Scoring!LeverShadow(candidates, Scoring!Shadow, "cross_context_supported")
               = [l \in DOMAIN LeverShare |->
                     [alpha |-> Baseline[l].alpha + Sum(Successes(l), Transferred),
                      beta  |-> Baseline[l].beta + Sum(Failures(l), Transferred),
                      mass  |-> Sum(Masses(l), Transferred)]]
<1>1. IsFiniteSet(Transferred)
  BY CountedAre, TransferredAre, FS_Subset
<1>2. ASSUME NEW l
      PROVE  /\ Scoring!Total(Successes(l)) = Sum(Successes(l), Transferred)
             /\ Scoring!Total(Failures(l)) = Sum(Failures(l), Transferred)
             /\ Scoring!Total(Masses(l)) = Sum(Masses(l), Transferred)
  <2>1. /\ DOMAIN Successes(l) = Transferred /\ DOMAIN Failures(l) = Transferred
        /\ DOMAIN Masses(l) = Transferred
    BY DEF Successes, Failures, Masses
  <2> QED BY <1>1, <2>1, TotalIsTheSum
<1>3. Scoring!LeverShadow(candidates, Scoring!Shadow, "cross_context_supported")
          = [l \in DOMAIN LeverShare |->
                [alpha |-> Baseline[l].alpha + Scoring!Total(Successes(l)),
                 beta  |-> Baseline[l].beta + Scoring!Total(Failures(l)),
                 mass  |-> Scoring!Total(Masses(l))]]
  BY Zenon DEF Scoring!LeverShadow, Successes, Failures, Masses, Gained, Part, Transferred
<1> QED BY <1>2, <1>3

\* One lever: what is added is split without loss, bounded by what was counted, and moves the
\* estimate the way the evidence points.
LeverIsFair(l, lever) ==
    /\ lever.alpha + lever.beta = Baseline[l].alpha + Baseline[l].beta + lever.mass
    /\ lever.mass =< 150 * Cardinality(Scoring!Counted)
    /\ (\A k \in Scoring!Counted : candidates[k].direction = "supports" /\ candidates[k].performance = 100)
        => lever.alpha * (Baseline[l].alpha + Baseline[l].beta) >= Baseline[l].alpha * (lever.alpha + lever.beta)
    /\ (\A k \in Scoring!Counted : candidates[k].direction = "contradicts")
        => lever.alpha * (Baseline[l].alpha + Baseline[l].beta) =< Baseline[l].alpha * (lever.alpha + lever.beta)

LEMMA GainsAre ==
    ASSUME CompetencyInv, NEW l \in DOMAIN LeverShare, NEW k \in Transferred
    PROVE  /\ Masses(l)[k] \in 0 .. 150 /\ Successes(l)[k] \in Nat /\ Failures(l)[k] \in Nat
           /\ Successes(l)[k] + Failures(l)[k] = Masses(l)[k]
           /\ candidates[k].direction = "supports" /\ candidates[k].performance = 100 => Failures(l)[k] = 0
           /\ candidates[k].direction = "contradicts" => Successes(l)[k] = 0
<1> DEFINE p == Gained(l, k)
<1>1. /\ candidates[k].direction \in DOMAIN Scoring!Halves /\ candidates[k].performance \in 0 .. 100
      /\ Scoring!Shadow.contributions[k].mass \in 0 .. 100
  <2>1. Transferred \subseteq Scoring!Counted
        /\ \A j \in Transferred : Scoring!Shadow.contributions[j].mass \in 0 .. 100
    BY TransferredAre, SMT
  <2>2. \A j \in Scoring!Counted : /\ candidates[j].direction \in DOMAIN Scoring!Halves
                                   /\ candidates[j].performance \in 0 .. 100
    BY CountedAre, SMT
  <2> QED BY <2>1, <2>2
<1>2. /\ p.mass \in 0 .. 150 /\ p.success \in Nat /\ p.failure \in Nat
      /\ p.success + p.failure = p.mass
      /\ candidates[k].direction = "supports" /\ candidates[k].performance = 100 => p.failure = 0
      /\ candidates[k].direction = "contradicts" => p.success = 0
  BY <1>1, PartBounds DEF Gained
<1>3. Masses(l)[k] = p.mass /\ Successes(l)[k] = p.success /\ Failures(l)[k] = p.failure
  BY DEF Masses, Successes, Failures
<1> HIDE DEF p
<1> QED BY <1>2, <1>3

LEMMA LeversAreFair ==
    ASSUME CompetencyInv, NEW l \in DOMAIN LeverShare,
           NEW lever, lever = [alpha |-> Baseline[l].alpha + Sum(Successes(l), Transferred),
                               beta  |-> Baseline[l].beta + Sum(Failures(l), Transferred),
                               mass  |-> Sum(Masses(l), Transferred)]
    PROVE  LeverIsFair(l, lever)
<1> DEFINE T == Transferred
           C == Scoring!Counted
           a == Baseline[l].alpha
           b == Baseline[l].beta
           s == Sum(Successes(l), T)
           f == Sum(Failures(l), T)
           m == Sum(Masses(l), T)
           for == \A k \in C : candidates[k].direction = "supports" /\ candidates[k].performance = 100
           against == \A k \in C : candidates[k].direction = "contradicts"
<1>1. IsFiniteSet(T) /\ IsFiniteSet(C) /\ T \subseteq C
  BY CountedAre, TransferredAre, FS_Subset
<1>2. \A k \in T : /\ Masses(l)[k] \in Nat /\ Masses(l)[k] =< 150
                   /\ Successes(l)[k] \in Nat /\ Failures(l)[k] \in Nat
                   /\ Masses(l)[k] = Successes(l)[k] + Failures(l)[k]
                   /\ for => Failures(l)[k] = 0
                   /\ against => Successes(l)[k] = 0
  <2>1. ASSUME NEW k \in T
        PROVE  /\ Masses(l)[k] \in 0 .. 150 /\ Successes(l)[k] \in Nat /\ Failures(l)[k] \in Nat
               /\ Successes(l)[k] + Failures(l)[k] = Masses(l)[k]
               /\ for => Failures(l)[k] = 0
               /\ against => Successes(l)[k] = 0
    BY <1>1, GainsAre
  <2> HIDE DEF for, against
  <2> QED BY <2>1
<1>3. a \in Nat /\ b \in Nat
  BY CandidateAssumption
<1> HIDE DEF T, C, for, against
<1>4. Numbers(Successes(l), T) /\ Numbers(Failures(l), T) /\ Numbers(Masses(l), T)
  BY <1>2 DEF Numbers
<1>5. s \in Nat /\ f \in Nat /\ m = s + f
  BY <1>1, <1>2, <1>4, SumsAreNumbers, SumsAdd
<1>6. m =< 150 * Cardinality(C)
  <2>1. m =< 150 * Cardinality(T)
    BY <1>1, <1>2, <1>4, SumsAreBounded
  <2>2. Cardinality(T) =< Cardinality(C) /\ Cardinality(T) \in Nat /\ Cardinality(C) \in Nat
    BY <1>1, FS_Subset, FS_CardinalityType
  <2> HIDE DEF m
  <2> QED BY <1>5, <2>1, <2>2
<1>7. for => f = 0
  BY <1>1, <1>2, SumsOfNoughts
<1>8. against => s = 0
  BY <1>1, <1>2, SumsOfNoughts
<1>9. lever.alpha = a + s /\ lever.beta = b + f /\ lever.mass = m
  BY DEF T
<1> DEFINE x == lever.alpha
           y == lever.beta
           z == lever.mass
<1>10. x = a + s /\ y = b + f /\ z = m
  BY <1>9
<1> HIDE DEF a, b, s, f, m, x, y, z
<1>11. x + y = a + b + z
  BY <1>3, <1>5, <1>10
<1>12. ASSUME f = 0 PROVE x * (a + b) >= a * (x + y)
  <2>1. x * (a + b) = a * (a + b) + s * a + s * b /\ a * (x + y) = a * (a + b) + a * s
    BY <1>3, <1>5, <1>10, <1>12
  <2>2. s * b \in Nat /\ s * a = a * s /\ a * s \in Nat /\ a * (a + b) \in Nat
    BY <1>3, <1>5
  <2> QED BY <2>1, <2>2
<1>13. ASSUME s = 0 PROVE x * (a + b) =< a * (x + y)
  <2>1. x * (a + b) = a * (a + b) /\ a * (x + y) = a * (a + b) + a * f
    BY <1>3, <1>5, <1>10, <1>13
  <2>2. a * f \in Nat /\ a * (a + b) \in Nat
    BY <1>3, <1>5
  <2> QED BY <2>1, <2>2
<1>14. /\ x + y = a + b + z
       /\ z =< 150 * Cardinality(C)
       /\ for => x * (a + b) >= a * (x + y)
       /\ against => x * (a + b) =< a * (x + y)
  BY <1>6, <1>7, <1>8, <1>10, <1>11, <1>12, <1>13
<1> QED BY <1>14, Zenon DEF LeverIsFair, x, y, z, a, b, C, for, against

LEMMA LeversMove == ASSUME CompetencyInv PROVE Scoring!LeversMoveWithEvidence
<1> DEFINE levers == Scoring!LeverShadow(candidates, Scoring!Shadow, "cross_context_supported")
           contexts == {candidates[k].context : k \in Scoring!Counted}
           moved == {l \in DOMAIN levers : levers[l].mass > 0}
<1>1. levers = [l \in DOMAIN LeverShare |->
                   [alpha |-> Baseline[l].alpha + Sum(Successes(l), Transferred),
                    beta  |-> Baseline[l].beta + Sum(Failures(l), Transferred),
                    mass  |-> Sum(Masses(l), Transferred)]]
  BY LeverShadowIs
<1> HIDE DEF levers
<1>2. DOMAIN levers = DOMAIN LeverShare
  BY <1>1
<1>3. ASSUME NEW l \in DOMAIN levers PROVE LeverIsFair(l, levers[l])
  BY <1>1, <1>2, LeversAreFair
<1>4. ASSUME moved # {} PROVE Cardinality(contexts) >= 2
  <2>1. PICK l \in DOMAIN LeverShare : levers[l].mass > 0
    BY <1>2, <1>4
  <2>2. Sum(Masses(l), Transferred) > 0
    BY <1>1, <2>1
  <2>3. Transferred # {}
    BY <2>2, SumOfNothing
  <2> QED BY <2>3, TransferredAre
<1>5. \A l \in DOMAIN levers :
          /\ levers[l].alpha + levers[l].beta = Baseline[l].alpha + Baseline[l].beta + levers[l].mass
          /\ levers[l].mass =< 150 * Cardinality(Scoring!Counted)
          /\ (\A k \in Scoring!Counted : candidates[k].direction = "supports" /\ candidates[k].performance = 100)
              => levers[l].alpha * (Baseline[l].alpha + Baseline[l].beta)
                     >= Baseline[l].alpha * (levers[l].alpha + levers[l].beta)
          /\ (\A k \in Scoring!Counted : candidates[k].direction = "contradicts")
              => levers[l].alpha * (Baseline[l].alpha + Baseline[l].beta)
                     =< Baseline[l].alpha * (levers[l].alpha + levers[l].beta)
  BY <1>3, Zenon DEF LeverIsFair
<1> QED BY <1>4, <1>5, ScoringCardinality, Zenon DEF Scoring!LeversMoveWithEvidence, levers

LEMMA CompetencyIsSound == ASSUME CompetencyInv PROVE Scoring!CompetencyEvidenceIsSound
BY ErasedWhenWithheld, PoliciesAreKept, EvidenceWears, LeversMove, Zenon DEF Scoring!CompetencyEvidenceIsSound

CompetencyHolds == component = "competency" => CompetencyInv

LEMMA CompetencyInit == Init => CompetencyHolds
<1> SUFFICES ASSUME Init, component = "competency" PROVE CompetencyInv
  BY DEF CompetencyHolds
<1>1. Scoring!Init
  BY Zenon DEF Init
<1>2. candidates \in UNION {[S -> Candidate] : S \in SUBSET Event} /\ asOf = 0
  BY <1>1, Zenon DEF Scoring!Init
<1>3. PICK S \in SUBSET Event : candidates \in [S -> Candidate]
  BY <1>2
<1> QED BY <1>2, <1>3 DEF CompetencyInv, Pool

LEMMA CompetencyStep == CompetencyHolds /\ [Next]_vars => CompetencyHolds'
<1> SUFFICES ASSUME CompetencyHolds, [Next]_vars PROVE CompetencyHolds'
  OBVIOUS
<1>1. ASSUME candidates' = candidates, asOf' \in {asOf, asOf + 1}, CompetencyInv PROVE CompetencyInv'
  BY <1>1 DEF CompetencyInv, Pool
<1>2. CASE Next /\ component = "competency"
  <2>1. Scoring!Next /\ CompetencyInv
    BY <1>2, Zenon DEF Next, CompetencyHolds
  <2>2. CASE Scoring!Pass
    <3>1. candidates' = candidates /\ asOf' = asOf + 1
      BY <2>2 DEF Scoring!Pass
    <3> QED BY <1>1, <2>1, <3>1 DEF CompetencyHolds
  <2>3. CASE \E k \in Event : Scoring!Reverse(k)
    <3>1. candidates' = candidates /\ asOf' = asOf
      BY <2>3 DEF Scoring!Reverse
    <3> QED BY <1>1, <2>1, <3>1 DEF CompetencyHolds
  <2> QED BY <2>1, <2>2, <2>3, Zenon DEF Scoring!Next
<1>3. CASE Next /\ component # "competency"
  BY <1>3, Zenon DEF Next, CompetencyHolds
<1>4. CASE UNCHANGED vars
  <2>1. component' = component /\ UNCHANGED competencyVars
    BY <1>4, Zenon DEF vars
  <2>2. component' = component /\ candidates' = candidates /\ asOf' = asOf
    BY <2>1 DEF competencyVars
  <2> QED BY <1>1, <2>2 DEF CompetencyHolds
<1> QED BY <1>2, <1>3, <1>4

\* Whatever the policy, the candidates, the reversals and the date: an event that is withheld does
\* nothing for the others, what is counted keeps the policy's promise, evidence only wears, and the
\* levers gain exactly what was counted and transferred, the way it points
\* (growth/domain/competency_scoring.py, growth/domain/scoring.py).
THEOREM CompetenciesStayFair == Spec => []CompetencyEvidenceIsSound
<1>1. Init => CompetencyHolds
  BY CompetencyInit
<1>2. CompetencyHolds /\ [Next]_vars => CompetencyHolds'
  BY CompetencyStep
<1>3. CompetencyHolds => CompetencyEvidenceIsSound
  BY CompetencyIsSound, Zenon DEF CompetencyHolds, CompetencyEvidenceIsSound
<1> QED BY <1>1, <1>2, <1>3, PTL DEF Spec

-----------------------------------------------------------------------------
(* TypedEvidence: the scores                                                *)

LEMMA QuotientsGrow ==
    ASSUME NEW x \in Nat, NEW y \in Nat, x =< y, NEW d \in Nat \ {0}
    PROVE  x \div d =< y \div d
<1> DEFINE q == y \div d
<1>1. q \in Nat
  BY DivisionBounds
<1>2. y < (q + 1) * d
  <2>1. y = d * (y \div d) + (y % d) /\ y % d \in 0 .. d - 1
    BY SMT
  <2> QED BY <1>1, <2>1
<1> HIDE DEF q
<1>3. x < (q + 1) * d
  <2>1. (q + 1) * d \in Nat
    BY <1>1
  <2> QED BY <1>2, <2>1
<1>4. x \div d =< q
  BY <1>1, <1>3, DivisionBounds
<1> QED BY <1>4 DEF q

\* The part of the way from the worst bound that a number has gone.
Way(x, d) == (12 * x) \div d

LEMMA WaysAreParts ==
    ASSUME NEW d \in Nat \ {0}
    PROVE  /\ \A x \in 0 .. d : Way(x, d) \in 0 .. 12
           /\ \A x, y \in 0 .. d : x =< y => Way(x, d) =< Way(y, d)
<1>1. ASSUME NEW x \in 0 .. d PROVE Way(x, d) \in 0 .. 12
  <2>1. 12 * x \in Nat /\ 12 * x < (12 + 1) * d
    OBVIOUS
  <2>2. Way(x, d) \in Nat /\ Way(x, d) =< 12
    BY <2>1, DivisionBounds DEF Way
  <2> QED BY <2>2
<1>2. ASSUME NEW x \in 0 .. d, NEW y \in 0 .. d, x =< y PROVE Way(x, d) =< Way(y, d)
  <2>1. 12 * x \in Nat /\ 12 * y \in Nat /\ 12 * x =< 12 * y
    BY <1>2
  <2> QED BY <2>1, QuotientsGrow DEF Way
<1> QED BY <1>1, <1>2

\* The bounds of a number's rule are numbers.
Bounded(r) == r.minimum \in Int /\ r.target \in Int /\ r.maximum \in Int

RatioFollows(r) ==
    /\ Typed!RatioScore(r, r.target) = Typed!Whole
    /\ \A v, w \in r.minimum .. r.maximum :
           /\ Typed!RatioScore(r, v) \in 0 .. Typed!Whole
           /\ v < w => IF r.direction = "at_least" THEN Typed!RatioScore(r, v) =< Typed!RatioScore(r, w)
                       ELSE Typed!RatioScore(r, v) >= Typed!RatioScore(r, w)

\* More of what a rule wants is never less, and its target is a full score.
LEMMA RatioScoresFollow ==
    ASSUME NEW r, Bounded(r), Typed!NumberRuleIsValid(r) PROVE RatioFollows(r)
<1> DEFINE lo == r.minimum
           t == r.target
           hi == r.maximum
           s(v) == Typed!RatioScore(r, v)
<1>1. lo \in Int /\ t \in Int /\ hi \in Int /\ lo =< t /\ t =< hi
  BY DEF Bounded, Typed!NumberRuleIsValid
<1>2. Typed!Whole = 12
  BY DEF Typed!Whole
<1>3. CASE r.direction = "at_least"
  <2>1. \A v : s(v) = IF t = lo \/ v >= t THEN 12 ELSE Way(v - lo, t - lo)
    BY <1>2, <1>3 DEF Typed!RatioScore, Way
  <2> HIDE DEF lo, t, hi, s
  <2>2. s(t) = 12
    BY <1>1, <2>1
  <2>3. t # lo => t - lo \in Nat \ {0}
    BY <1>1
  <2>4. ASSUME NEW v \in lo .. hi PROVE s(v) \in 0 .. 12
    <3>1. CASE t = lo \/ v >= t
      BY <2>1, <3>1
    <3>2. CASE ~(t = lo \/ v >= t)
      <4>1. v - lo \in 0 .. t - lo
        BY <1>1, <3>2
      <4>2. Way(v - lo, t - lo) \in 0 .. 12
        BY <2>3, <3>2, <4>1, WaysAreParts
      <4> QED BY <2>1, <3>2, <4>2
    <3> QED BY <3>1, <3>2
  <2>5. ASSUME NEW v \in lo .. hi, NEW w \in lo .. hi, v < w PROVE s(v) =< s(w)
    <3>1. CASE t = lo \/ w >= t
      BY <2>1, <2>4, <3>1
    <3>2. CASE ~(t = lo \/ w >= t)
      <4>1. v - lo \in 0 .. t - lo /\ w - lo \in 0 .. t - lo /\ v - lo =< w - lo /\ ~(v >= t)
        BY <1>1, <2>5, <3>2
      <4>2. Way(v - lo, t - lo) =< Way(w - lo, t - lo)
        BY <2>3, <3>2, <4>1, WaysAreParts
      <4> QED BY <2>1, <3>2, <4>1, <4>2
    <3> QED BY <3>1, <3>2
  <2> QED BY <1>2, <1>3, <2>2, <2>4, <2>5 DEF RatioFollows, lo, t, hi, s
<1>4. CASE r.direction # "at_least"
  <2>1. \A v : s(v) = IF hi = t \/ v =< t THEN 12 ELSE Way(hi - v, hi - t)
    BY <1>2, <1>4 DEF Typed!RatioScore, Way
  <2> HIDE DEF lo, t, hi, s
  <2>2. s(t) = 12
    BY <1>1, <2>1
  <2>3. t # hi => hi - t \in Nat \ {0}
    BY <1>1
  <2>4. ASSUME NEW v \in lo .. hi PROVE s(v) \in 0 .. 12
    <3>1. CASE t = hi \/ v =< t
      BY <2>1, <3>1
    <3>2. CASE ~(t = hi \/ v =< t)
      <4>1. hi - v \in 0 .. hi - t
        BY <1>1, <3>2
      <4>2. Way(hi - v, hi - t) \in 0 .. 12
        BY <2>3, <3>2, <4>1, WaysAreParts
      <4> QED BY <2>1, <3>2, <4>2
    <3> QED BY <3>1, <3>2
  <2>5. ASSUME NEW v \in lo .. hi, NEW w \in lo .. hi, v < w PROVE s(v) >= s(w)
    <3>1. CASE t = hi \/ v =< t
      BY <2>1, <2>4, <3>1
    <3>2. CASE ~(t = hi \/ v =< t)
      <4>1. hi - v \in 0 .. hi - t /\ hi - w \in 0 .. hi - t /\ hi - w =< hi - v /\ ~(w =< t)
        BY <1>1, <2>5, <3>2
      <4>2. Way(hi - w, hi - t) =< Way(hi - v, hi - t)
        BY <2>3, <3>2, <4>1, WaysAreParts
      <4>3. Way(hi - w, hi - t) \in 0 .. 12 /\ Way(hi - v, hi - t) \in 0 .. 12
        BY <2>3, <3>2, <4>1, WaysAreParts
      <4> QED BY <2>1, <3>2, <4>1, <4>2, <4>3
    <3> QED BY <3>1, <3>2
  <2> QED BY <1>2, <1>4, <2>2, <2>4, <2>5 DEF RatioFollows, lo, t, hi, s
<1> QED BY <1>3, <1>4

\* What is known of a rule besides that it is valid, and of an observation that was accepted.
Sane(r) ==
    /\ r.kind \in Typed!Number \cup Typed!Rubric \cup {"boolean", "ordinal", "attestation"}
    /\ r.kind \in Typed!Number => Bounded(r)
    /\ r.kind \in Typed!Rubric => IsFiniteSet(r.criteria)

Fine(r, o) ==
    o.state = "observed" =>
        /\ r.kind # "ordinal"
        /\ r.kind \in Typed!Number => Typed!Amount(r, o.value) \in r.minimum .. r.maximum
        /\ r.kind \in Typed!Rubric => o.value.criteria_met \subseteq r.criteria

LEMMA TypedCardinality == ASSUME NEW S PROVE Typed!Cardinality(S) = Cardinality(S)
BY Zenon DEF Typed!Cardinality, Cardinality

LEMMA ScoresAreParts ==
    ASSUME NEW r, Sane(r), Typed!RuleIsValid(r), NEW o, Fine(r, o)
    PROVE  Typed!Score(r, o) \in 0 .. 12 /\ (o.state # "observed" => Typed!Score(r, o) = 0)
<1> DEFINE s == Typed!Score(r, o)
<1>0. Typed!Whole = 12
  BY DEF Typed!Whole
<1>1. ASSUME o.state # "observed" PROVE s = 0
  BY <1>1 DEF Typed!Score
<1>2. ASSUME o.state = "observed" PROVE s \in 0 .. 12
  <2>1. CASE r.kind = "boolean"
    <3>1. s = IF o.value.truth = r.expected THEN Typed!Whole ELSE 0
      BY <1>2, <2>1, Zenon DEF Typed!Score, Typed!Number, Typed!Rubric
    <3> HIDE DEF s
    <3> QED BY <1>0, <3>1
  <2>2. CASE r.kind \in Typed!Number
    <3>1. s = Typed!RatioScore(r, Typed!Amount(r, o.value))
      <4>1. r.kind \notin {"boolean", "ordinal", "attestation"} /\ r.kind \notin Typed!Rubric
        BY <2>2 DEF Typed!Number, Typed!Rubric
      <4> QED BY <1>2, <2>2, <4>1 DEF Typed!Score
    <3>2. RatioFollows(r)
      BY <2>2, RatioScoresFollow DEF Sane, Typed!RuleIsValid
    <3>3. Typed!Amount(r, o.value) \in r.minimum .. r.maximum
      BY <1>2, <2>2 DEF Fine
    <3> HIDE DEF s
    <3>4. s \in 0 .. Typed!Whole
      BY <3>1, <3>2, <3>3, Zenon DEF RatioFollows
    <3> QED BY <1>0, <3>4
  <2>3. CASE r.kind \in Typed!Rubric
    <3> DEFINE x == Cardinality(o.value.criteria_met)
               d == Cardinality(r.criteria)
    <3>1. s = Way(x, d)
      <4>1. r.kind \notin {"boolean", "ordinal", "attestation"} /\ r.kind \notin Typed!Number
        BY <2>3 DEF Typed!Number, Typed!Rubric
      <4>2. s = (Typed!Whole * Typed!Cardinality(o.value.criteria_met)) \div Typed!Cardinality(r.criteria)
        BY <1>2, <2>3, <4>1 DEF Typed!Score
      <4> QED BY <1>0, <4>2, TypedCardinality DEF Way
    <3>2. o.value.criteria_met \subseteq r.criteria /\ IsFiniteSet(r.criteria) /\ r.criteria # {}
      BY <1>2, <2>3, Zenon DEF Fine, Sane, Typed!RuleIsValid
    <3>3. x \in Nat /\ d \in Nat \ {0} /\ x =< d
      BY <3>2, FS_Subset, FS_CardinalityType, FS_EmptySet
    <3> HIDE DEF x, d, s
    <3>4. x \in 0 .. d
      BY <3>3
    <3> QED BY <3>1, <3>3, <3>4, WaysAreParts
  <2>4. CASE r.kind = "attestation"
    <3> DEFINE fits == o.value.attestation_id \in r.attestations /\ (r.consent => o.value.consent_confirmed)
    <3>1. s = IF fits THEN Typed!Whole ELSE 0
      BY <1>2, <2>4, Zenon DEF Typed!Score, Typed!Number, Typed!Rubric
    <3> HIDE DEF s, fits
    <3> QED BY <1>0, <3>1
  <2>5. r.kind # "ordinal"
    BY <1>2 DEF Fine
  <2> QED BY <2>1, <2>2, <2>3, <2>4, <2>5 DEF Sane
<1> QED BY <1>1, <1>2

-----------------------------------------------------------------------------
(* TypedEvidence: what an input gains                                       *)

LEMMA TypedTotalIsTheSum ==
    ASSUME NEW f, IsFiniteSet(DOMAIN f)
    PROVE  Typed!Total(f) = Sum(f, DOMAIN f)
<1> DEFINE S == DOMAIN f
           Adds(g) == g = [s \in SUBSET S |-> IF s = {} THEN 0
                              ELSE f[CHOOSE x \in s : TRUE] + g[s \ {CHOOSE x \in s : TRUE}]]
           iter == CHOOSE g : Adds(g)
<1>1. Typed!Total(f) = iter[S]
  BY Zenon DEF Typed!Total, Typed!MapThenSumSet, Typed!MapThenFoldSet
<1>2. \A g : Folding(g, f, S) <=> Adds(g)
  BY Zenon DEF Folding, Step
<1> HIDE DEF Adds
<1>3. \E g : Adds(g)
  BY <1>2, FoldingExists
<1>4. Folding(iter, f, S)
  BY <1>2, <1>3, Zenon
<1> HIDE DEF iter
<1>5. iter[S] = Sum(f, S)
  BY <1>4, FoldingIsTheSum
<1> QED BY <1>1, <1>5

\* The rules of an action that was imported, and an input its contract accepts.
Imported(a) ==
    /\ IsFiniteSet(DOMAIN a.rules) /\ Typed!RulesAreValid(a)
    /\ \A m \in DOMAIN a.rules : Sane(a.rules[m])
Accepted(i, a) ==
    /\ DOMAIN i.observations = DOMAIN a.rules
    /\ \A m \in DOMAIN a.rules : Fine(a.rules[m], i.observations[m])
ScoreOf(i, a, m) == Typed!Score(a.rules[m], i.observations[m])
ScoredOf(a) == {m \in DOMAIN a.rules : a.rules[m].role \in Typed!Scored}
WorthOf(a, S) == Typed!Total(Typed!Weights(a, S))
GainOf(i, a, S) == Typed!Total(Typed!Gains(i, a, S))

LEMMA InputScores ==
    ASSUME NEW a, Imported(a), NEW i, Accepted(i, a), NEW m \in DOMAIN a.rules
    PROVE  ScoreOf(i, a, m) \in 0 .. 12 /\ (i.observations[m].state # "observed" => ScoreOf(i, a, m) = 0)
<1>1. Sane(a.rules[m]) /\ Typed!RuleIsValid(a.rules[m]) /\ Fine(a.rules[m], i.observations[m])
  BY DEF Imported, Accepted, Typed!RulesAreValid
<1> QED BY <1>1, ScoresAreParts DEF ScoreOf

LEMMA WeightsAre ==
    ASSUME NEW a, Imported(a), NEW S \in SUBSET ScoredOf(a)
    PROVE  /\ IsFiniteSet(S) /\ \A m \in S : m \in DOMAIN a.rules /\ a.rules[m].weight \in Nat \ {0}
           /\ WorthOf(a, S) = Sum(Typed!Weights(a, S), S) /\ Numbers(Typed!Weights(a, S), S)
           /\ WorthOf(a, S) \in Nat /\ (S # {} => WorthOf(a, S) >= 1)
<1> DEFINE w == Typed!Weights(a, S)
<1>1. IsFiniteSet(S)
  BY FS_Subset DEF Imported, ScoredOf
<1>2. ASSUME NEW m \in S PROVE m \in DOMAIN a.rules /\ a.rules[m].weight \in Nat \ {0}
  <2>1. m \in DOMAIN a.rules /\ a.rules[m].role \in Typed!Scored
    BY DEF ScoredOf
  <2>2. Typed!RuleIsValid(a.rules[m])
    BY <2>1 DEF Imported, Typed!RulesAreValid
  <2>3. a.rules[m].weight \in 1 .. 10
    BY <2>1, <2>2 DEF Typed!RuleIsValid
  <2> QED BY <2>1, <2>3
<1>3. DOMAIN w = S /\ \A m \in S : w[m] = a.rules[m].weight
  BY DEF Typed!Weights
<1>4. Numbers(w, S)
  BY <1>2, <1>3 DEF Numbers
<1> HIDE DEF w
<1>5. WorthOf(a, S) = Sum(w, S)
  BY <1>1, <1>3, TypedTotalIsTheSum DEF WorthOf, w
<1>6. Sum(w, S) \in Nat
  BY <1>1, <1>4, SumsAreNumbers
<1>7. ASSUME S # {} PROVE Sum(w, S) >= 1
  <2>1. PICK m \in S : TRUE
    BY <1>7
  <2>2. Sum(w, S) = w[m] + Sum(w, S \ {m})
    BY <1>1, <1>4, SumsAddAnywhere
  <2>3. Sum(w, S \ {m}) \in Nat
    <3>1. IsFiniteSet(S \ {m}) /\ Numbers(w, S \ {m})
      BY <1>1, <1>4, FS_Subset DEF Numbers
    <3> QED BY <3>1, SumsAreNumbers
  <2> QED BY <1>2, <1>3, <2>2, <2>3
<1> QED BY <1>1, <1>2, <1>4, <1>5, <1>6, <1>7 DEF w

\* Nothing gains more than it weighs, and what is perfect gains all of it.
LEMMA GainsAreParts ==
    ASSUME NEW a, Imported(a), NEW i, Accepted(i, a), NEW S \in SUBSET ScoredOf(a)
    PROVE  /\ GainOf(i, a, S) = Sum(Typed!Gains(i, a, S), S) /\ Numbers(Typed!Gains(i, a, S), S)
           /\ GainOf(i, a, S) \in Nat /\ GainOf(i, a, S) =< 12 * WorthOf(a, S)
           /\ (\A m \in S : ScoreOf(i, a, m) = 12) => GainOf(i, a, S) = 12 * WorthOf(a, S)
<1> DEFINE w == Typed!Weights(a, S)
           g == Typed!Gains(i, a, S)
           h == [m \in S |-> 12 * w[m]]
           perfect == \A m \in S : ScoreOf(i, a, m) = 12
<1>1. IsFiniteSet(S) /\ WorthOf(a, S) = Sum(w, S) /\ Numbers(w, S)
      /\ \A m \in S : m \in DOMAIN a.rules /\ a.rules[m].weight \in Nat
  BY WeightsAre
<1>2. ASSUME NEW m \in S PROVE ScoreOf(i, a, m) \in 0 .. 12
  BY <1>1, InputScores
<1>3. /\ DOMAIN g = S
      /\ \A m \in S : w[m] = a.rules[m].weight /\ g[m] = a.rules[m].weight * ScoreOf(i, a, m)
  BY DEF Typed!Gains, Typed!Weights, ScoreOf
<1> HIDE DEF w, g
<1>4. \A m \in S : /\ g[m] \in Nat /\ h[m] \in Nat /\ g[m] =< h[m] /\ h[m] = 12 * w[m]
                   /\ perfect => g[m] = 12 * w[m]
  <2>1. ASSUME NEW m \in S
        PROVE  /\ g[m] \in Nat /\ h[m] \in Nat /\ g[m] =< h[m] /\ h[m] = 12 * w[m]
               /\ perfect => g[m] = 12 * w[m]
    <3> DEFINE x == w[m]
               y == ScoreOf(i, a, m)
    <3>1. x \in Nat /\ y \in 0 .. 12 /\ g[m] = x * y /\ h[m] = 12 * x
      BY <1>1, <1>2, <1>3
    <3>2. perfect => y = 12
      OBVIOUS
    <3> HIDE DEF x, y, perfect, h
    <3>3. x * y \in Nat /\ x * y =< 12 * x
      BY <3>1
    <3> QED BY <3>1, <3>2, <3>3 DEF x
  <2> QED BY <2>1
<1>5. Numbers(g, S) /\ Numbers(h, S)
  BY <1>4 DEF Numbers
<1>6. GainOf(i, a, S) = Sum(g, S)
  BY <1>1, <1>3, TypedTotalIsTheSum DEF GainOf, g
<1> HIDE DEF h, perfect
<1>7. Sum(g, S) \in Nat /\ Sum(g, S) =< Sum(h, S) /\ Sum(h, S) = 12 * Sum(w, S)
  BY <1>1, <1>4, <1>5, SumsAreNumbers, SumsCompare, SumsScale
<1>8. ASSUME perfect PROVE Sum(g, S) = 12 * Sum(w, S)
  <2>1. \A m \in S : g[m] = 12 * w[m]
    BY <1>4, <1>8
  <2> QED BY <1>1, <2>1, SumsScale
<1> QED BY <1>1, <1>5, <1>6, <1>7, <1>8 DEF g, perfect

\* Who scores no less gains no less.
LEMMA GainsGrow ==
    ASSUME NEW a, Imported(a), NEW i, Accepted(i, a), NEW j, Accepted(j, a), NEW S \in SUBSET ScoredOf(a),
           \A m \in S : ScoreOf(j, a, m) =< ScoreOf(i, a, m)
    PROVE  GainOf(j, a, S) =< GainOf(i, a, S)
<1> DEFINE g == Typed!Gains(i, a, S)
           h == Typed!Gains(j, a, S)
<1>1. IsFiniteSet(S) /\ \A m \in S : m \in DOMAIN a.rules /\ a.rules[m].weight \in Nat
  BY WeightsAre
<1>2. /\ GainOf(i, a, S) = Sum(g, S) /\ Numbers(g, S)
      /\ GainOf(j, a, S) = Sum(h, S) /\ Numbers(h, S)
  BY GainsAreParts
<1>3. \A m \in S : g[m] = a.rules[m].weight * ScoreOf(i, a, m) /\ h[m] = a.rules[m].weight * ScoreOf(j, a, m)
  BY DEF Typed!Gains, ScoreOf
<1> HIDE DEF g, h
<1>4. ASSUME NEW m \in S PROVE h[m] =< g[m]
  <2> DEFINE w == a.rules[m].weight
             x == ScoreOf(j, a, m)
             y == ScoreOf(i, a, m)
  <2>0. m \in DOMAIN a.rules
    BY <1>1
  <2>1. x \in 0 .. 12 /\ y \in 0 .. 12
    BY <2>0, InputScores
  <2>3. w \in Nat /\ x =< y /\ g[m] = w * y /\ h[m] = w * x
    BY <1>1, <1>3
  <2> HIDE DEF w, x, y
  <2>4. x \in Nat /\ y \in Nat /\ w \in Nat /\ x =< y
    BY <2>1, <2>3
  <2>2. Times(x, w) =< Times(y, w)
    BY <2>4, TimesIsMonotone, Zenon
  <2> QED BY <2>1, <2>2, <2>3 DEF Times
<1> QED BY <1>1, <1>2, <1>4, SumsCompare

\* The score of a role is a part of one, and no less for who scores no less.
LEMMA RoleScores ==
    ASSUME NEW a, Imported(a), NEW i, Accepted(i, a), NEW role \in Typed!Scored
    PROVE  LET p == Typed!RoleScore(i, a, role) IN p.n \in Nat /\ p.d \in Nat \ {0} /\ p.n =< p.d
<1> DEFINE S == Typed!WithRole(a.rules, role)
           p == Typed!RoleScore(i, a, role)
<1>1. S \in SUBSET ScoredOf(a)
  BY DEF Typed!WithRole, ScoredOf
<1>2. p = IF S = {} THEN [n |-> 0, d |-> 1]
          ELSE [n |-> GainOf(i, a, S), d |-> Typed!Whole * WorthOf(a, S)]
  BY DEF Typed!RoleScore, GainOf, WorthOf
<1> HIDE DEF S, p
<1>3. CASE S = {}
  <2>1. p = [n |-> 0, d |-> 1]
    BY <1>2, <1>3
  <2> QED BY <2>1 DEF p
<1>4. CASE S # {}
  <2>1. p.n = GainOf(i, a, S) /\ p.d = 12 * WorthOf(a, S)
    BY <1>2, <1>4 DEF Typed!Whole
  <2>2. WorthOf(a, S) \in Nat /\ WorthOf(a, S) >= 1
    BY <1>1, <1>4, WeightsAre
  <2>3. GainOf(i, a, S) \in Nat /\ GainOf(i, a, S) =< 12 * WorthOf(a, S)
    BY <1>1, GainsAreParts
  <2> QED BY <2>1, <2>2, <2>3 DEF p
<1> QED BY <1>3, <1>4

\* Who scores no less.
Better(i, j, a) == \A m \in DOMAIN a.rules : ScoreOf(j, a, m) =< ScoreOf(i, a, m)

LEMMA RoleScoresGrow ==
    ASSUME NEW a, Imported(a), NEW i, Accepted(i, a), NEW j, Accepted(j, a), Better(i, j, a),
           NEW role \in Typed!Scored
    PROVE  /\ Typed!RoleScore(j, a, role).n =< Typed!RoleScore(i, a, role).n
           /\ Typed!RoleScore(j, a, role).d = Typed!RoleScore(i, a, role).d
<1> DEFINE S == Typed!WithRole(a.rules, role)
           p == Typed!RoleScore(i, a, role)
           q == Typed!RoleScore(j, a, role)
<1>1. S \in SUBSET ScoredOf(a)
  BY DEF Typed!WithRole, ScoredOf
<1>2. p = IF S = {} THEN [n |-> 0, d |-> 1]
          ELSE [n |-> GainOf(i, a, S), d |-> Typed!Whole * WorthOf(a, S)]
  BY DEF Typed!RoleScore, GainOf, WorthOf
<1>3. q = IF S = {} THEN [n |-> 0, d |-> 1]
          ELSE [n |-> GainOf(j, a, S), d |-> Typed!Whole * WorthOf(a, S)]
  BY DEF Typed!RoleScore, GainOf, WorthOf
<1> HIDE DEF S, p, q
<1>4. CASE S = {}
  <2>1. p = [n |-> 0, d |-> 1] /\ q = [n |-> 0, d |-> 1]
    BY <1>2, <1>3, <1>4
  <2> QED BY <2>1 DEF p, q
<1>5. CASE S # {}
  <2>1. p.n = GainOf(i, a, S) /\ q.n = GainOf(j, a, S) /\ p.d = q.d
    BY <1>2, <1>3, <1>5
  <2>2. \A m \in S : ScoreOf(j, a, m) =< ScoreOf(i, a, m)
    BY <1>1 DEF Better, ScoredOf
  <2>3. GainOf(j, a, S) =< GainOf(i, a, S)
    BY <1>1, <2>2, GainsGrow
  <2> QED BY <2>1, <2>3 DEF p, q
<1> QED BY <1>4, <1>5

\* The points of the two roles over one denominator.
Earned(pn, pd, sn, sd) == 2000 * pn * sd + 1000 * sn * pd

LEMMA EarnedIsAPart ==
    ASSUME NEW pd \in Nat \ {0}, NEW sd \in Nat \ {0}, NEW pn \in 0 .. pd, NEW sn \in 0 .. sd
    PROVE  /\ pd * sd \in Nat \ {0} /\ Earned(pn, pd, sn, sd) \in Nat
           /\ Earned(pn, pd, sn, sd) =< 3000 * (pd * sd)
           /\ \A x \in 0 .. pn, y \in 0 .. sn : Earned(x, pd, y, sd) =< Earned(pn, pd, sn, sd)
<1> DEFINE d == Times(pd, sd)
           e == Times(sd, pd)
<1>0. Times(pd, sd) = pd * sd /\ Times(sd, pd) = pd * sd
  BY DEF Times
<1>1. d \in Nat /\ d # 0 /\ e = d
  <2>1. pd >= 1 /\ sd >= 1 /\ pd \in Nat /\ sd \in Nat
    OBVIOUS
  <2>2. Times(1, sd) =< Times(pd, sd) /\ Times(pd, sd) \in Nat
    BY <2>1, TimesIsMonotone
  <2>3. Times(1, sd) = sd
    BY DEF Times
  <2> QED BY <1>0, <2>1, <2>2, <2>3
<1>2. ASSUME NEW x \in Nat, NEW y \in Nat
      PROVE  Earned(x, pd, y, sd) = 2000 * Times(x, sd) + 1000 * Times(y, pd)
  BY DEF Earned, Times
<1>3. Times(pn, sd) \in Nat /\ Times(sn, pd) \in Nat /\ Times(pn, sd) =< d /\ Times(sn, pd) =< e
  <2>1. pn \in Nat /\ pd \in Nat /\ sn \in Nat /\ sd \in Nat /\ pn =< pd /\ sn =< sd
    OBVIOUS
  <2> QED BY <2>1, TimesIsMonotone, Zenon
<1>4. ASSUME NEW x \in 0 .. pn, NEW y \in 0 .. sn
      PROVE  /\ Times(x, sd) \in Nat /\ Times(y, pd) \in Nat
             /\ Times(x, sd) =< Times(pn, sd) /\ Times(y, pd) =< Times(sn, pd)
  <2>1. /\ pn \in Nat /\ pd \in Nat /\ sn \in Nat /\ sd \in Nat
        /\ x \in Nat /\ y \in Nat /\ x =< pn /\ y =< sn
    OBVIOUS
  <2> QED BY <2>1, TimesIsMonotone, Zenon
<1>5. Earned(pn, pd, sn, sd) = 2000 * Times(pn, sd) + 1000 * Times(sn, pd)
  BY <1>2
<1> HIDE DEF d, e
<1>6. Earned(pn, pd, sn, sd) \in Nat /\ Earned(pn, pd, sn, sd) =< 3000 * d
  BY <1>1, <1>3, <1>5
<1>7. ASSUME NEW x \in 0 .. pn, NEW y \in 0 .. sn PROVE Earned(x, pd, y, sd) =< Earned(pn, pd, sn, sd)
  <2>1. Earned(x, pd, y, sd) = 2000 * Times(x, sd) + 1000 * Times(y, pd)
    BY <1>2
  <2> QED BY <1>3, <1>4, <1>5, <2>1
<1> QED BY <1>0, <1>1, <1>6, <1>7 DEF d

\* The points for trying and completing, and what the measurements add.
Effort(i) == Points(i.attempted, 3500) + Points(i.completed, 3500)
Skill(i, a) ==
    LET p == Typed!RoleScore(i, a, "primary") s == Typed!RoleScore(i, a, "supporting")
    IN  Contract!RoundHalfUp(Earned(p.n, p.d, s.n, s.d), p.d * s.d)

LEMMA TypedPerformanceIs ==
    ASSUME NEW i, NEW a PROVE Typed!Performance(i, a) = Effort(i) + Skill(i, a)
<1>1. Typed!Points.attempt = 3500 /\ Typed!Points.completion = 3500
      /\ Typed!Points.primary = 2000 /\ Typed!Points.supporting = 1000
  BY DEF Typed!Points
<1>2. \A n, d : Typed!RoundHalfUp(n, d) = Contract!RoundHalfUp(n, d)
  BY DEF Typed!RoundHalfUp, Contract!RoundHalfUp
<1> DEFINE p == Typed!RoleScore(i, a, "primary")
           s == Typed!RoleScore(i, a, "supporting")
           x == IF i.attempted THEN Typed!Points.attempt ELSE 0
           y == IF i.completed THEN Typed!Points.completion ELSE 0
           e == Typed!Points.primary * p.n * s.d + Typed!Points.supporting * s.n * p.d
           r == Typed!RoundHalfUp(e, p.d * s.d)
<1>3. Typed!Performance(i, a) = x + y + r
  BY Zenon DEF Typed!Performance
<1>4. x = Points(i.attempted, 3500) /\ y = Points(i.completed, 3500)
  BY <1>1 DEF Points
<1>5. e = Earned(p.n, p.d, s.n, s.d)
  BY <1>1 DEF Earned
<1>6. Skill(i, a) = Contract!RoundHalfUp(Earned(p.n, p.d, s.n, s.d), p.d * s.d)
  BY Zenon DEF Skill
<1> HIDE DEF p, s, x, y, e
<1>7. r = Skill(i, a)
  BY <1>2, <1>5, <1>6, Zenon
<1> HIDE DEF r
<1>8. Effort(i) = x + y
  BY <1>4 DEF Effort
<1> QED BY <1>3, <1>7, <1>8

LEMMA SkillBounds ==
    ASSUME NEW a, Imported(a), NEW i, Accepted(i, a)
    PROVE  /\ Skill(i, a) \in Nat /\ Skill(i, a) =< 3000
           /\ \A j : Accepted(j, a) /\ Better(i, j, a) => Skill(j, a) =< Skill(i, a)
<1> DEFINE p == Typed!RoleScore(i, a, "primary")
           s == Typed!RoleScore(i, a, "supporting")
           pn == p.n
           pd == p.d
           sn == s.n
           sd == s.d
           all == Earned(pn, pd, sn, sd)
           d == pd * sd
<1>1. pn \in Nat /\ pd \in Nat \ {0} /\ pn =< pd /\ sn \in Nat /\ sd \in Nat \ {0} /\ sn =< sd
  BY RoleScores DEF Typed!Scored
<1>2. Skill(i, a) = Contract!RoundHalfUp(all, d)
  BY DEF Skill
<1> HIDE DEF p, s, pn, pd, sn, sd
<1>3. pn \in 0 .. pd /\ sn \in 0 .. sd
  BY <1>1
<1>4. d \in Nat \ {0} /\ all \in Nat /\ all =< 3000 * d
      /\ \A x \in 0 .. pn, y \in 0 .. sn : Earned(x, pd, y, sd) =< all
  BY <1>1, <1>3, EarnedIsAPart
<1> HIDE DEF all, d
<1>5. Skill(i, a) \in Nat /\ Skill(i, a) =< 3000
  <2>0. d \in Nat \ {0} /\ all \in Nat /\ all =< 3000 * d
    BY <1>4
  <2>1. Contract!RoundHalfUp(all, d) \in Nat
    BY <2>0, RoundingIsMonotone
  <2>2. Contract!RoundHalfUp(all, d) =< 3000
    BY <2>0, RoundingIsMonotone
  <2> QED BY <1>2, <2>1, <2>2
<1>6. ASSUME NEW j, Accepted(j, a), Better(i, j, a) PROVE Skill(j, a) =< Skill(i, a)
  <2> DEFINE q == Typed!RoleScore(j, a, "primary")
             t == Typed!RoleScore(j, a, "supporting")
             qn == q.n
             tn == t.n
             part == Earned(qn, pd, tn, sd)
  <2>1. qn \in Nat /\ q.d \in Nat \ {0} /\ qn =< q.d /\ tn \in Nat /\ t.d \in Nat \ {0} /\ tn =< t.d
    BY <1>6, RoleScores DEF Typed!Scored
  <2>2. qn =< pn /\ q.d = pd /\ tn =< sn /\ t.d = sd
    BY <1>6, RoleScoresGrow DEF Typed!Scored, p, s, pn, pd, sn, sd
  <2>3. Skill(j, a) = Contract!RoundHalfUp(Earned(q.n, q.d, t.n, t.d), q.d * t.d)
    BY DEF Skill
  <2>4. Skill(j, a) = Contract!RoundHalfUp(part, d)
    BY <2>2, <2>3 DEF d
  <2> HIDE DEF q, t, qn, tn
  <2>5. qn \in 0 .. pn /\ tn \in 0 .. sn
    BY <1>1, <2>1, <2>2
  <2>6. part =< all
    BY <1>4, <2>5
  <2>7. part \in Nat
    <3>1. qn \in 0 .. pd /\ tn \in 0 .. sd
      BY <1>1, <2>5
    <3> QED BY <1>1, <3>1, EarnedIsAPart
  <2> HIDE DEF part
  <2> QED BY <1>2, <1>4, <2>4, <2>6, <2>7, RoundingIsMonotone
<1> QED BY <1>5, <1>6

LEMMA EffortBounds == ASSUME NEW i PROVE Effort(i) \in Nat /\ Effort(i) =< 7000
<1> DEFINE x == Points(i.attempted, 3500)
           y == Points(i.completed, 3500)
<1>1. x \in Nat /\ x =< 3500 /\ y \in Nat /\ y =< 3500
  BY PointsType
<1>2. Effort(i) = x + y
  BY Zenon DEF Effort
<1> HIDE DEF x, y
<1> QED BY <1>1, <1>2

-----------------------------------------------------------------------------
(* TypedEvidence: quality and mass                                          *)

Seen(i) == Points(Typed!Observed(i) # {}, 10)
TypedGrade(i) ==
    Capped(45 + 5 + Points(i.attempted, 10) + Points(i.direction # "unknown", 10)
             + Points(i.support # "not_recorded", 5) + Seen(i) + 0)

LEMMA TypedQualityIs == ASSUME NEW i PROVE Typed!Quality(i) = TypedGrade(i) /\ TypedGrade(i) \in Nat /\ 50 =< TypedGrade(i) /\ TypedGrade(i) =< 85
<1> DEFINE b == Points(i.attempted, 10)
           c == Points(i.direction # "unknown", 10)
           d == Points(i.support # "not_recorded", 5)
           e == Seen(i)
           n == 45 + 5 + b + c + d + e
<1>1. b \in Nat /\ c \in Nat /\ d \in Nat /\ e \in Nat
  BY PointsType DEF Seen
<1>2. Typed!Percent.cap = 85 /\ Typed!Percent.base = 45 /\ Typed!Percent.context = 5
      /\ Typed!Percent.attempt = 10 /\ Typed!Percent.direction = 10 /\ Typed!Percent.support = 5
      /\ Typed!Percent.observed = 10
  BY DEF Typed!Percent
<1> DEFINE from(k) == CHOOSE x \in {85, k} : \A y \in {85, k} : x =< y
           o(condition, points) == IF condition THEN points ELSE 0
           total == Typed!Percent.base + Typed!Percent.context + o(i.attempted, Typed!Percent.attempt)
                    + o(i.direction # "unknown", Typed!Percent.direction)
                    + o(i.support # "not_recorded", Typed!Percent.support)
                    + o(Typed!Observed(i) # {}, Typed!Percent.observed)
<1>9. Typed!Quality(i) = Typed!Min({Typed!Percent.cap, total})
  BY Zenon DEF Typed!Quality
<1>10. total = n
  <2>1. o(i.attempted, Typed!Percent.attempt) = b /\ o(i.direction # "unknown", Typed!Percent.direction) = c
        /\ o(i.support # "not_recorded", Typed!Percent.support) = d
        /\ o(Typed!Observed(i) # {}, Typed!Percent.observed) = e
    BY <1>2 DEF Points, Seen
  <2> HIDE DEF o, b, c, d, e
  <2> QED BY <1>2, <2>1
<1> HIDE DEF total, n
<1>3. Typed!Quality(i) = CHOOSE x \in {85, n} : \A y \in {85, n} : x =< y
  BY <1>2, <1>9, <1>10 DEF Typed!Min
<1> USE DEF n
<1>4. TypedGrade(i) = Capped(n + 0)
  BY Zenon DEF TypedGrade
<1> HIDE DEF b, c, d, e
<1>5. n \in Nat /\ n >= 50
  BY <1>1
<1> HIDE DEF n
<1>6. \E x \in {85, n} : \A y \in {85, n} : x =< y
  BY <1>5
<1> DEFINE m == CHOOSE x \in {85, n} : \A y \in {85, n} : x =< y
<1>7. m \in {85, n} /\ \A y \in {85, n} : m =< y
  BY <1>6, Zenon
<1> HIDE DEF m
<1>8. m = Capped(n + 0) /\ m \in Nat /\ 50 =< m /\ m =< 85
  BY <1>5, <1>7 DEF Capped
<1> QED BY <1>3, <1>4, <1>8 DEF m

\* Two inputs that differ in their observations only.
SameFacts(i, j) ==
    /\ i.attempted = j.attempted /\ i.completed = j.completed /\ i.direction = j.direction
    /\ i.support = j.support /\ i.context = j.context /\ i.index = j.index

LEMMA TypedQualityGrows ==
    ASSUME NEW i, NEW j, SameFacts(i, j), Typed!Observed(j) \subseteq Typed!Observed(i)
    PROVE  Typed!Quality(j) =< Typed!Quality(i)
<1> DEFINE b == Points(i.attempted, 10)
           c == Points(i.direction # "unknown", 10)
           d == Points(i.support # "not_recorded", 5)
           e == Seen(j)
           g == Seen(i)
<1>1. b \in Nat /\ c \in Nat /\ d \in Nat /\ e \in Nat /\ g \in Nat
  BY PointsType DEF Seen
<1>2. e =< g
  <2>1. CASE Typed!Observed(i) = {}
    <3>1. e = g
      BY <2>1 DEF Seen, Points
    <3> HIDE DEF e, g
    <3> QED BY <1>1, <3>1
  <2>2. CASE Typed!Observed(i) # {}
    <3>1. g = 10 /\ e =< 10
      BY <2>2, PointsType DEF Seen, Points
    <3> QED BY <3>1
  <2> QED BY <2>1, <2>2
<1>3. TypedGrade(i) = Capped(45 + 5 + b + c + d + g + 0)
  BY Zenon DEF TypedGrade
<1>4. TypedGrade(j) = Capped(45 + 5 + b + c + d + e + 0)
  BY Zenon DEF TypedGrade, SameFacts
<1> HIDE DEF b, c, d, e, g
<1>5. Capped(45 + 5 + b + c + d + e + 0) =< Capped(45 + 5 + b + c + d + g + 0)
  BY <1>1, <1>2, CappedSums
<1>6. Typed!Quality(i) = TypedGrade(i) /\ Typed!Quality(j) = TypedGrade(j)
  BY TypedQualityIs
<1> DEFINE u == Capped(45 + 5 + b + c + d + e + 0)
           v == Capped(45 + 5 + b + c + d + g + 0)
<1> HIDE DEF u, v
<1>7. u =< v /\ Typed!Quality(i) = v /\ Typed!Quality(j) = u
  BY <1>3, <1>4, <1>5, <1>6 DEF u, v
<1> QED BY <1>7

\* The facts of an input are known ones.
Answered(i) ==
    /\ i.direction \in DOMAIN Typed!ContradictionLevel /\ i.support \in DOMAIN Typed!SupportFactor
    /\ i.context \in DOMAIN Typed!ContextFactor /\ i.index \in Nat \ {0}

Repeated(i) == Typed!RepetitionMultiplier[IF i.index < 4 THEN i.index ELSE 4]
TypedMass(i) == Mass(Typed!Quality(i), Typed!SupportFactor[i.support], Typed!ContextFactor[i.context], Repeated(i))

LEMMA GradeIs == ASSUME NEW q \in Nat, 50 =< q, q =< 85 PROVE q \in Grade
BY DEF Grade

\* A mass is something, and no more than the quality.
Heavy(m, q) == m \in 1 .. 100 * q

LEMMA TypedMassBounds ==
    ASSUME NEW i, Answered(i)
    PROVE  /\ Heavy(TypedMass(i), Typed!Quality(i))
           /\ \A j : SameFacts(i, j) /\ Typed!Observed(j) \subseteq Typed!Observed(i)
                  => TypedMass(j) =< TypedMass(i)
<1> DEFINE q == Typed!Quality(i)
           s == Typed!SupportFactor[i.support]
           c == Typed!ContextFactor[i.context]
           m == Repeated(i)
<1>1. s \in Independence
  BY DEF Answered, Typed!SupportFactor, Independence
<1>2. c \in Context
  BY DEF Answered, Typed!ContextFactor, Context
<1>3. m \in Multiplier
  <2> DEFINE k == IF i.index < 4 THEN i.index ELSE 4
  <2>1. k \in 1 .. 4
    BY DEF Answered
  <2> HIDE DEF k
  <2>2. Typed!RepetitionMultiplier[k] \in Multiplier
    BY <2>1 DEF Typed!RepetitionMultiplier, Multiplier
  <2> QED BY <2>2 DEF Repeated, k
<1>4. q \in Grade
  BY TypedQualityIs, GradeIs
<1>5. TypedMass(i) = Mass(q, s, c, m)
  BY DEF TypedMass
<1>6. ASSUME NEW j, SameFacts(i, j), Typed!Observed(j) \subseteq Typed!Observed(i)
      PROVE  TypedMass(j) =< TypedMass(i)
  <2> DEFINE r == Typed!Quality(j)
  <2>1. TypedMass(j) = Mass(r, s, c, m)
    BY <1>6, Zenon DEF TypedMass, SameFacts, Repeated
  <2>2. r \in Grade
    BY TypedQualityIs, GradeIs
  <2>3. r =< q
    BY <1>6, TypedQualityGrows
  <2> HIDE DEF q, s, c, m, r
  <2> QED BY <1>1, <1>2, <1>3, <1>4, <1>5, <2>1, <2>2, <2>3, MassBounds
<1>7. Heavy(TypedMass(i), q)
  <2> HIDE DEF q, s, c, m
  <2> QED BY <1>1, <1>2, <1>3, <1>4, <1>5, MassBounds DEF Heavy
<1> HIDE DEF s, c, m
<1> QED BY <1>6, <1>7

-----------------------------------------------------------------------------
(* TypedEvidence: the competency                                            *)

\* The measurements of the competency that were observed.
Shows(i, a) == a.competency \cap Typed!Observed(i)
Perfect(i, a) == \A m \in Shows(i, a) : ScoreOf(i, a, m) = 12
Share(c) == c \in Nat /\ c =< Typed!Unit
Full(c) == c = Typed!Unit
CompetencyBounds(i, a) ==
    /\ Shows(i, a) = {} => Typed!CompetencyPerformance(i, a) = None
    /\ Shows(i, a) # {} => Share(Typed!CompetencyPerformance(i, a))
    /\ Shows(i, a) # {} /\ Perfect(i, a) => Full(Typed!CompetencyPerformance(i, a))

LEMMA TypedCompetencyBounds ==
    ASSUME NEW a, Imported(a), NEW i, Accepted(i, a) PROVE CompetencyBounds(i, a)
<1>0. Typed!Unit \in Nat
  BY DEF Typed!Unit
<1> DEFINE c == Typed!CompetencyPerformance(i, a)
           S == Shows(i, a)
           g == GainOf(i, a, S)
           w == WorthOf(a, S)
           d == 12 * w
<1>1. c = IF S = {} THEN None ELSE Typed!RoundHalfUp(Typed!Unit * g, Typed!Whole * w)
  BY Zenon DEF Typed!CompetencyPerformance, GainOf, WorthOf, Shows
<1>2. \A n, k : Typed!RoundHalfUp(n, k) = Contract!RoundHalfUp(n, k)
  BY DEF Typed!RoundHalfUp, Contract!RoundHalfUp
<1>3. S \in SUBSET ScoredOf(a)
  BY Zenon DEF Imported, Typed!RulesAreValid, ScoredOf, Shows
<1>4. w \in Nat /\ (S # {} => w >= 1) /\ g \in Nat /\ g =< d /\ (Perfect(i, a) => g = d)
  <2>1. w \in Nat /\ (S # {} => w >= 1)
    BY <1>3, WeightsAre
  <2>2. g \in Nat /\ g =< d
    BY <1>3, GainsAreParts
  <2>3. ASSUME Perfect(i, a) PROVE g = d
    <3>1. \A m \in S : ScoreOf(i, a, m) = 12
      BY <2>3, Zenon DEF Perfect
    <3> QED BY <1>3, <3>1, GainsAreParts
  <2> QED BY <2>1, <2>2, <2>3
<1> HIDE DEF c, g, w, S
<1>5. CASE S = {}
  <2>1. c = None
    BY <1>1, <1>5
  <2> QED BY <1>5, <2>1, Zenon DEF c, S, CompetencyBounds
<1>6. CASE S # {}
  <2> DEFINE all == Typed!Unit * g
  <2>1. c = Contract!RoundHalfUp(all, d)
    <3>1. Typed!Whole * w = d
      BY <1>4 DEF Typed!Whole
    <3> QED BY <1>1, <1>2, <1>6, <3>1
  <2>2. d \in Nat \ {0} /\ g \in Nat /\ g =< d
    BY <1>4, <1>6
  <2> HIDE DEF d
  <2>3. Share(c)
    <3>1. all \in Nat /\ all =< Typed!Unit * d
      BY <1>0, <2>2
    <3> HIDE DEF all
    <3>2. c \in Nat
      BY <2>1, <2>2, <3>1, RoundingIsMonotone
    <3>3. c =< Typed!Unit
      BY <1>0, <2>1, <2>2, <3>1, RoundingIsMonotone
    <3> QED BY <3>2, <3>3 DEF Share
  <2>4. ASSUME Perfect(i, a) PROVE Full(c)
    <3> DEFINE k == Typed!Unit
    <3>1. all = k * d /\ k \in Nat
      BY <1>0, <1>4, <2>4 DEF d
    <3> HIDE DEF all, k
    <3>2. Contract!RoundHalfUp(k * d, d) = k
      BY <2>2, <3>1, RoundingIsExact
    <3> QED BY <2>1, <3>1, <3>2 DEF Full, k
  <2> QED BY <1>6, <2>3, <2>4, Zenon DEF c, S, CompetencyBounds
<1> QED BY <1>5, <1>6

-----------------------------------------------------------------------------
(* TypedEvidence: what is stored, and what silence is worth                 *)

LEMMA TypedEvaluateIs ==
    ASSUME NEW i, NEW a
    PROVE  LET e == Typed!Evaluate(i, a) IN
           /\ e.performance = Typed!Performance(i, a) /\ e.quality = 100 * Typed!Quality(i)
           /\ e.mass = TypedMass(i) /\ e.competency = Typed!CompetencyPerformance(i, a)
           /\ e.snapshot.input = i /\ e.snapshot.rules = a
<1> DEFINE e == Typed!Evaluate(i, a)
           n == Typed!Quality(i) * Typed!SupportFactor[i.support] * Typed!ContextFactor[i.context]
                  * Typed!RepetitionMultiplier[IF i.index < 4 THEN i.index ELSE 4]
<1>1. /\ e.performance = Typed!Performance(i, a) /\ e.quality = 100 * Typed!Quality(i)
      /\ e.mass = Typed!RoundHalfUp(n, 10000) /\ e.competency = Typed!CompetencyPerformance(i, a)
      /\ e.snapshot = [input |-> i, rules |-> a]
  BY DEF Typed!Evaluate
<1>2. n = Product(Typed!Quality(i), Typed!SupportFactor[i.support], Typed!ContextFactor[i.context], Repeated(i))
  BY Zenon DEF Product, Times, Repeated
<1> HIDE DEF e, n
<1>3. Typed!RoundHalfUp(n, 10000) = Contract!RoundHalfUp(n, 10000)
  BY DEF Typed!RoundHalfUp, Contract!RoundHalfUp
<1>4. Contract!Whole = 10000
  BY DEF Contract!Whole
<1>5. TypedMass(i) = Contract!RoundHalfUp(n, Contract!Whole)
  BY <1>2, Zenon DEF TypedMass, Mass
<1>6. e.mass = TypedMass(i)
  BY <1>1, <1>3, <1>4, <1>5
<1> QED BY <1>1, <1>6 DEF e

\* The same input with one measurement not observed.
Silent(i, m) == [i EXCEPT !.observations[m] = [@ EXCEPT !.state = "unknown", !.value = None]]

\* An input as the check-in form hands it over.
Complete(i) ==
    /\ DOMAIN i = {"attempted", "completed", "text", "index", "direction", "support", "context", "observations"}
    /\ Answered(i)
    /\ \A m \in DOMAIN i.observations : DOMAIN i.observations[m] = {"state", "provenance", "value"}

LEMMA SilentIs ==
    ASSUME NEW i, Complete(i), NEW m \in DOMAIN i.observations
    PROVE  LET j == Silent(i, m) IN
           /\ SameFacts(i, j) /\ DOMAIN j.observations = DOMAIN i.observations
           /\ \A k \in DOMAIN i.observations : k # m => j.observations[k] = i.observations[k]
           /\ j.observations[m].state = "unknown"
<1> DEFINE j == Silent(i, m)
           o == i.observations[m]
           quiet == [o EXCEPT !.state = "unknown", !.value = None]
           observations == [i.observations EXCEPT ![m] = quiet]
<1>1. j = [i EXCEPT !.observations = observations]
  BY DEF Silent
<1>2. j.observations = observations /\ SameFacts(i, j)
  <2> HIDE DEF observations
  <2> QED BY <1>1 DEF Complete, SameFacts
<1>3. DOMAIN observations = DOMAIN i.observations /\ observations[m] = quiet
      /\ \A k \in DOMAIN i.observations : k # m => observations[k] = i.observations[k]
  <2> HIDE DEF quiet
  <2> QED OBVIOUS
<1>4. quiet.state = "unknown"
  BY DEF Complete
<1> HIDE DEF j, observations, quiet
<1> QED BY <1>2, <1>3, <1>4 DEF j

LEMMA SilenceLosesPoints ==
    ASSUME NEW a, Imported(a), NEW i, Complete(i), Accepted(i, a), NEW m \in DOMAIN i.observations
    PROVE  LET j == Silent(i, m) IN
           /\ Accepted(j, a) /\ Better(i, j, a) /\ SameFacts(i, j)
           /\ Typed!Observed(j) \subseteq Typed!Observed(i)
<1> DEFINE j == Silent(i, m)
<1>1. /\ SameFacts(i, j) /\ DOMAIN j.observations = DOMAIN i.observations
      /\ \A k \in DOMAIN i.observations : k # m => j.observations[k] = i.observations[k]
      /\ j.observations[m].state = "unknown"
  BY SilentIs
<1> HIDE DEF j
<1>2. DOMAIN i.observations = DOMAIN a.rules
  BY DEF Accepted
<1>3. Accepted(j, a)
  <2>1. ASSUME NEW k \in DOMAIN a.rules PROVE Fine(a.rules[k], j.observations[k])
    <3>1. CASE k = m
      BY <1>1, <3>1 DEF Fine
    <3>2. CASE k # m
      <4>1. j.observations[k] = i.observations[k] /\ Fine(a.rules[k], i.observations[k])
        BY <1>1, <1>2, <3>2 DEF Accepted
      <4> QED BY <4>1, Zenon
    <3> QED BY <3>1, <3>2
  <2> QED BY <1>1, <1>2, <2>1 DEF Accepted
<1>4. ASSUME NEW k \in DOMAIN a.rules PROVE ScoreOf(j, a, k) =< ScoreOf(i, a, k)
  <2>1. ScoreOf(i, a, k) \in 0 .. 12
    BY InputScores
  <2>2. CASE k = m
    <3>1. ScoreOf(j, a, k) = 0
      BY <1>1, <1>3, <2>2, InputScores
    <3> QED BY <2>1, <3>1
  <2>3. CASE k # m
    <3>1. ScoreOf(j, a, k) = ScoreOf(i, a, k)
      BY <1>1, <1>2, <2>3, Zenon DEF ScoreOf
    <3> QED BY <2>1, <3>1
  <2> QED BY <2>2, <2>3
<1>5. Typed!Observed(j) \subseteq Typed!Observed(i)
  BY <1>1 DEF Typed!Observed
<1> QED BY <1>1, <1>3, <1>4, <1>5 DEF j, Better

LEMMA SameEffort == ASSUME NEW i, NEW j, SameFacts(i, j) PROVE Effort(j) = Effort(i)
BY DEF SameFacts, Effort

NoMore(s, e) == s.performance =< e.performance /\ s.quality =< e.quality /\ s.mass =< e.mass

\* What was stored of an accepted input lies in its bounds, and one observation less is no credit.
LEMMA TypedEventsAreSound ==
    ASSUME NEW a, Imported(a), NEW i, Complete(i), Accepted(i, a)
    PROVE  /\ Share(Typed!Performance(i, a)) /\ Heavy(TypedMass(i), Typed!Quality(i))
           /\ \A m \in DOMAIN i.observations : NoMore(Typed!Evaluate(Silent(i, m), a), Typed!Evaluate(i, a))
<1> DEFINE e == Typed!Evaluate(i, a)
           q == Typed!Quality(i)
           x == Effort(i)
           y == Skill(i, a)
           k == TypedMass(i)
<1>1. e.performance = x + y /\ e.quality = 100 * q /\ e.mass = k
  BY TypedEvaluateIs, TypedPerformanceIs
<1>2. x \in Nat /\ x =< 7000 /\ y \in Nat /\ y =< 3000
  BY EffortBounds, SkillBounds
<1>3. q \in Nat
  BY TypedQualityIs
<1>4. Answered(i)
  BY DEF Complete
<1>5. Heavy(k, q)
  BY <1>4, TypedMassBounds, Zenon
<1>6. Typed!Performance(i, a) = x + y
  BY TypedPerformanceIs, Zenon
<1> HIDE DEF e, q, x, y, k
<1>7. Share(x + y)
  BY <1>2 DEF Share, Typed!Unit
<1>8. ASSUME NEW m \in DOMAIN i.observations PROVE NoMore(Typed!Evaluate(Silent(i, m), a), e)
  <2> DEFINE j == Silent(i, m)
             s == Typed!Evaluate(j, a)
             r == Typed!Quality(j)
             v == Skill(j, a)
             l == TypedMass(j)
  <2>1. Accepted(j, a) /\ Better(i, j, a) /\ SameFacts(i, j) /\ Typed!Observed(j) \subseteq Typed!Observed(i)
    BY SilenceLosesPoints
  <2>2. s.performance = Effort(j) + v /\ s.quality = 100 * r /\ s.mass = l
    BY TypedEvaluateIs, TypedPerformanceIs
  <2> HIDE DEF j, s
  <2>3. Effort(j) = x
    BY <2>1, SameEffort, Zenon DEF x
  <2>4. v =< y
    BY <2>1, SkillBounds DEF y
  <2>5. r =< q
    BY <2>1, TypedQualityGrows DEF q
  <2>6. r \in Nat /\ v \in Nat
    BY <2>1, TypedQualityIs, SkillBounds
  <2>7. l =< k
    BY <1>4, <2>1, TypedMassBounds, Zenon DEF k
  <2> HIDE DEF r, v, l
  <2>8. x + v =< x + y /\ 100 * r =< 100 * q
    BY <1>2, <1>3, <2>4, <2>5, <2>6
  <2>9. NoMore(s, e)
    BY <1>1, <2>2, <2>3, <2>7, <2>8 DEF NoMore
  <2> QED BY <2>9 DEF s, j
<1> QED BY <1>5, <1>6, <1>7, <1>8 DEF e, q, k

-----------------------------------------------------------------------------
(* TypedEvidence: what the form lets through                                *)

\* A field as the owner may have left it; the empty choice of a truth value comes from a reopened
\* draft.
WellWritten(r, e) ==
    /\ e.provenance \in r.allowed
    /\ e.state = "observed" => Entered(r, e.value) \/ (r.kind = "boolean" /\ e.value.truth = None)

\* An observation as the contract wants it, but for the bounds of numbers.
Fits(r, o) ==
    /\ o.provenance \in r.allowed /\ r.kind # "ordinal"
    /\ (o.state # "observed") = (o.value = None)
    /\ o.state = "observed" /\ r.kind \in Typed!Number => Typed!Amount(r, o.value) \in Int
    /\ o.state = "observed" /\ r.kind \in Typed!Rubric => o.value.criteria_met \subseteq r.criteria

\* A number that was entered is one.
LEMMA AmountsAreNumbers ==
    ASSUME NEW r, NEW v, r.kind \in Typed!Number, Entered(r, v), ~Typed!FieldError(r, v)
    PROVE  Typed!Amount(r, v) \in Int
<1>1. CASE r.kind = "bounded_frequency"
  <2>1. v.numerator # None /\ v.denominator # None
    BY <1>1 DEF Typed!FieldError, Typed!Rubric
  <2> DEFINE n == v.numerator
             d == v.denominator
  <2>2. n \in Nat /\ d \in Nat \ {0}
    BY <1>1, <2>1 DEF Entered
  <2>3. Typed!Amount(r, v) = (12 * n) \div d
    BY <1>1 DEF Typed!Amount, Typed!Whole
  <2> HIDE DEF n, d
  <2>4. 12 * n \in Nat
    BY <2>2
  <2> DEFINE x == 12 * n
  <2> HIDE DEF x
  <2>5. x \div d \in Nat
    BY <2>2, <2>4, DivisionBounds DEF x
  <2> QED BY <2>3, <2>5 DEF x
<1>2. CASE r.kind # "bounded_frequency"
  <2>1. r.kind \in {"count", "duration", "objective"}
    BY <1>2 DEF Typed!Number
  <2>2. v.amount \in Nat \cup {None}
    BY <2>1, Zenon DEF Entered
  <2>3. v.amount # None
    <3>1. r.kind \notin {"boolean", "bounded_frequency", "attestation"} /\ r.kind \notin Typed!Rubric
      BY <2>1 DEF Typed!Rubric
    <3> QED BY <3>1 DEF Typed!FieldError
  <2>4. Typed!Amount(r, v) = v.amount
    BY <1>2, Zenon DEF Typed!Amount
  <2> QED BY <2>2, <2>3, <2>4
<1> QED BY <1>1, <1>2

LEMMA WrittenFits ==
    ASSUME NEW r, Sane(r), r.kind # "ordinal", NEW e, WellWritten(r, e),
           e.state = "observed" => ~Typed!FieldError(r, e.value)
    PROVE  Fits(r, Typed!Observation(e))
<1> DEFINE o == Typed!Observation(e)
<1>1. o.state = e.state /\ o.provenance = e.provenance
      /\ o.value = IF e.state = "observed" THEN e.value ELSE None
  BY DEF Typed!Observation
<1> HIDE DEF o
<1>2. CASE e.state # "observed"
  BY <1>1, <1>2 DEF Fits, WellWritten, o
<1>3. CASE e.state = "observed"
  <2>1. o.value = e.value
    BY <1>1, <1>3
  <2>2. Entered(r, e.value)
    <3>1. CASE r.kind = "boolean"
      <4>1. e.value.truth # None
        BY <1>3, <3>1 DEF Typed!FieldError, Typed!Rubric
      <4> QED BY <1>3, <4>1 DEF WellWritten
    <3>2. CASE r.kind # "boolean"
      BY <1>3, <3>2 DEF WellWritten
    <3> QED BY <3>1, <3>2
  <2>3. e.value # None /\ (r.kind \in Typed!Rubric => e.value.criteria_met \subseteq r.criteria)
    BY <2>2, Zenon DEF Entered
  <2>4. r.kind \in Typed!Number => Typed!Amount(r, e.value) \in Int
    BY <1>3, <2>2, AmountsAreNumbers
  <2> QED BY <1>1, <1>3, <2>1, <2>3, <2>4 DEF Fits, WellWritten, o
<1> QED BY <1>2, <1>3

\* A draft as it was saved.
Kept(r, o) ==
    /\ o = [state |-> o.state, provenance |-> o.provenance, value |-> o.value]
    /\ WellWritten(r, o) /\ (o.state # "observed" => o.value = None)

DraftIsKept ==
    /\ draft = [m \in DOMAIN action.rules |-> draft[m]]
    /\ \A m \in DOMAIN action.rules : Kept(action.rules[m], draft[m])

TypedInv ==
    /\ action \in Actions /\ facts \in Facts
    /\ \A m \in DOMAIN action.rules : WellWritten(action.rules[m], entries[m])
    /\ stage \notin {"new", "rejected"} => Typed!RulesAreValid(action)
    /\ stage \in {"draft saved", "reopened"} => DraftIsKept
    /\ stage = "reopened" => entries = [m \in DOMAIN action.rules |-> Typed!Shown(action.rules[m], draft[m])]
    /\ stage \in {"refused", "submitted"} => Typed!HasPage /\ Typed!SubmissionIsValid
    /\ stage = "refused" => Typed!Refuses(Typed!Input, action)
    /\ stage = "submitted" => ~Typed!Refuses(Typed!Input, action) /\ typed = Typed!Evaluate(Typed!Input, action)

LEMMA RulesAreSane ==
    ASSUME action \in Actions
    PROVE  IsFiniteSet(DOMAIN action.rules) /\ \A m \in DOMAIN action.rules : Sane(action.rules[m])
BY TypedAssumption DEF Sane, Bounded

LEMMA ActionIsImported ==
    ASSUME TypedInv, Typed!RulesAreValid(action) PROVE Imported(action)
BY RulesAreSane, Zenon DEF TypedInv, Imported

LEMMA TypedInputIs ==
    ASSUME facts \in Facts
    PROVE  /\ Complete(Typed!Input) /\ Typed!Input.observations = Typed!Observations
           /\ Typed!Input.attempted = facts.attempted /\ Typed!Input.completed = facts.completed
<1> DEFINE i == Typed!Input
           N == {"attempted", "completed", "text", "index", "direction", "support", "context"}
<1>1. facts \in [attempted : BOOLEAN, completed : BOOLEAN, text : BOOLEAN, index : Nat \ {0},
                 direction : DOMAIN Typed!ContradictionLevel, support : DOMAIN Typed!SupportFactor,
                 context : DOMAIN Typed!ContextFactor]
  BY TypedAssumption
<1>2. /\ DOMAIN facts = N
      /\ facts.index \in Nat \ {0} /\ facts.direction \in DOMAIN Typed!ContradictionLevel
      /\ facts.support \in DOMAIN Typed!SupportFactor /\ facts.context \in DOMAIN Typed!ContextFactor
  BY <1>1
<1>3. DOMAIN i = N \cup {"observations"}
      /\ \A f \in N \cup {"observations"} :
            i[f] = IF f = "observations" THEN Typed!Observations ELSE facts[f]
  BY <1>2 DEF Typed!Input
<1> HIDE DEF i
<1>4. /\ i.observations = Typed!Observations
      /\ i.attempted = facts.attempted /\ i.completed = facts.completed /\ i.index = facts.index
      /\ i.direction = facts.direction /\ i.support = facts.support /\ i.context = facts.context
  BY <1>3
<1>5. Answered(i)
  BY <1>2, <1>4, Zenon DEF Answered
<1>6. \A m \in DOMAIN Typed!Observations : DOMAIN Typed!Observations[m] = {"state", "provenance", "value"}
  BY DEF Typed!Observations, Typed!Observation
<1>7. Complete(i)
  BY <1>3, <1>4, <1>5, <1>6 DEF Complete
<1> QED BY <1>4, <1>7 DEF i

\* What a submission hands to the contract is refused for a number out of bounds only.
LEMMA SubmissionsFit ==
    ASSUME TypedInv, Typed!HasPage, Typed!SubmissionIsValid
    PROVE  /\ DOMAIN Typed!Observations = DOMAIN action.rules
           /\ \A m \in DOMAIN action.rules : Fits(action.rules[m], Typed!Observations[m])
           /\ Typed!Refuses(Typed!Input, action)
                => \E m \in DOMAIN action.rules : Typed!OutOfBounds(action.rules[m], Typed!Observations[m])
<1>1. DOMAIN Typed!Observations = DOMAIN action.rules
      /\ \A m \in DOMAIN action.rules : Typed!Observations[m] = Typed!Observation(entries[m])
  BY DEF Typed!Observations
<1>2. ASSUME NEW m \in DOMAIN action.rules PROVE Fits(action.rules[m], Typed!Observations[m])
  <2>1. Sane(action.rules[m]) /\ WellWritten(action.rules[m], entries[m])
    BY RulesAreSane, Zenon DEF TypedInv
  <2>2. action.rules[m].kind # "ordinal"
        /\ (entries[m].state = "observed" => ~Typed!FieldError(action.rules[m], entries[m].value))
    BY Zenon DEF Typed!HasPage, Typed!SubmissionIsValid, Typed!DraftIsValid
  <2>3. Fits(action.rules[m], Typed!Observation(entries[m]))
    BY <2>1, <2>2, WrittenFits, Zenon
  <2> QED BY <1>1, <2>3, Zenon
<1>3. /\ Typed!Input.observations = Typed!Observations /\ Typed!Input.attempted = facts.attempted
      /\ Typed!Input.completed = facts.completed
  BY TypedInputIs DEF TypedInv
<1>4. ~(Typed!Input.completed /\ ~Typed!Input.attempted)
  BY <1>3, Zenon DEF Typed!SubmissionIsValid, Typed!DraftIsValid
<1>5. ASSUME Typed!Refuses(Typed!Input, action)
      PROVE  \E m \in DOMAIN action.rules : Typed!OutOfBounds(action.rules[m], Typed!Observations[m])
  <2> DEFINE O == Typed!Observations
             Bad(r, o) ==
                 \/ o.provenance \notin r.allowed
                 \/ (o.state # "observed") # (o.value = None)
                 \/ Typed!OutOfBounds(r, o)
                 \/ r.kind = "ordinal" /\ o.value # None /\ o.value.level \notin DOMAIN r.levels
                 \/ r.kind \in Typed!Rubric /\ o.value # None /\ ~(o.value.criteria_met \subseteq r.criteria)
  <2>1. \E m \in DOMAIN O : Bad(action.rules[m], O[m])
    BY <1>1, <1>3, <1>4, <1>5, Zenon DEF Typed!Refuses
  <2>2. PICK m \in DOMAIN action.rules : Bad(action.rules[m], O[m])
    BY <1>1, <2>1, Zenon
  <2>3. Fits(action.rules[m], O[m])
    BY <1>2
  <2> HIDE DEF O
  <2>4. Typed!OutOfBounds(action.rules[m], O[m])
    BY <2>2, <2>3 DEF Fits
  <2> QED BY <2>4 DEF O
<1> QED BY <1>1, <1>2, <1>5

LEMMA SubmissionsAreAccepted ==
    ASSUME TypedInv, Typed!HasPage, Typed!SubmissionIsValid, ~Typed!Refuses(Typed!Input, action)
    PROVE  Accepted(Typed!Input, action)
<1> DEFINE O == Typed!Observations
<1>1. Typed!Input.observations = O
  BY TypedInputIs DEF TypedInv
<1>2. DOMAIN O = DOMAIN action.rules
  BY SubmissionsFit
<1>3. ASSUME NEW m \in DOMAIN action.rules PROVE Fine(action.rules[m], O[m])
  <2> DEFINE r == action.rules[m]
             o == O[m]
  <2>1. Fits(r, o)
    BY SubmissionsFit
  <2>2. ~Typed!OutOfBounds(r, o)
    BY <1>1, <1>2, Zenon DEF Typed!Refuses
  <2>3. Sane(r)
    BY RulesAreSane, Zenon DEF TypedInv
  <2> HIDE DEF r, o
  <2>4. ASSUME o.state = "observed", r.kind \in Typed!Number
        PROVE  Typed!Amount(r, o.value) \in r.minimum .. r.maximum
    <3> DEFINE x == Typed!Amount(r, o.value)
               lo == r.minimum
               hi == r.maximum
    <3>1. x \in Int /\ lo \in Int /\ hi \in Int
      BY <2>1, <2>3, <2>4 DEF Fits, Sane, Bounded
    <3>2. ~(x < lo \/ x > hi)
      BY <2>2, <2>4, Zenon DEF Typed!OutOfBounds
    <3> HIDE DEF x, lo, hi
    <3>3. x \in lo .. hi
      BY <3>1, <3>2
    <3> QED BY <3>3 DEF x, lo, hi
  <2>5. Fine(r, o)
    BY <2>1, <2>4, Zenon DEF Fine, Fits
  <2> QED BY <2>5 DEF r, o
<1> QED BY <1>1, <1>2, <1>3, Zenon DEF Accepted

-----------------------------------------------------------------------------
(* TypedEvidence: the steps                                                 *)

LEMMA TypedInitHolds == ASSUME Typed!Init PROVE TypedInv
<1>1. action \in Actions /\ facts \in Facts /\ stage = "new"
  BY DEF Typed!Init
<1>2. DOMAIN entries = DOMAIN action.rules /\ \A m \in DOMAIN entries : entries[m] \in Typed!Entry(action.rules[m])
  BY DEF Typed!Init
<1>3. ASSUME NEW m \in DOMAIN action.rules PROVE WellWritten(action.rules[m], entries[m])
  <2> DEFINE r == action.rules[m]
             e == entries[m]
  <2>1. e \in Typed!Entry(r)
    BY <1>2
  <2>2. e.provenance \in r.allowed /\ e.value \in Values[r]
    BY <2>1 DEF Typed!Entry
  <2>3. \A value \in Values[r] : Entered(r, value)
    BY <1>1, TypedAssumption, Zenon
  <2> HIDE DEF r, e
  <2>4. WellWritten(r, e)
    BY <2>2, <2>3, Zenon DEF WellWritten
  <2> QED BY <2>4 DEF r, e
<1> QED BY <1>1, <1>3 DEF TypedInv

\* What is not observed, and a truth value, comes back empty; the rest as it was saved.
LEMMA ShownIsWellWritten ==
    ASSUME NEW r, NEW o, Kept(r, o) PROVE WellWritten(r, Typed!Shown(r, o))
<1> DEFINE e == Typed!Shown(r, o)
<1>1. e.state = o.state /\ e.provenance = o.provenance
      /\ e.value = IF o.state # "observed" \/ r.kind = "boolean" THEN Typed!Blank(r) ELSE o.value
  BY DEF Typed!Shown
<1> HIDE DEF e
<1>2. CASE o.state # "observed"
  BY <1>1, <1>2 DEF WellWritten, Kept, e
<1>3. CASE o.state = "observed" /\ r.kind = "boolean"
  <2>1. Typed!Blank(r) = [truth |-> None]
    BY <1>3 DEF Typed!Blank, Typed!Rubric
  <2>2. e.value = [truth |-> None]
    BY <1>1, <1>3, <2>1
  <2>3. e.value.truth = None
    BY <2>2
  <2> QED BY <1>1, <1>3, <2>3 DEF WellWritten, Kept, e
<1>4. CASE o.state = "observed" /\ r.kind # "boolean"
  <2>1. e.value = o.value
    BY <1>1, <1>4
  <2> QED BY <1>1, <1>4, <2>1 DEF WellWritten, Kept, e
<1> QED BY <1>2, <1>3, <1>4

LEMMA DraftsAreKept ==
    ASSUME TypedInv, Typed!HasPage, Typed!DraftIsValid, NEW m \in DOMAIN action.rules
    PROVE  Kept(action.rules[m], Typed!Observation(entries[m]))
<1> DEFINE r == action.rules[m]
           e == entries[m]
           o == Typed!Observation(e)
<1>1. o = [state |-> e.state, provenance |-> e.provenance,
           value |-> IF e.state = "observed" THEN e.value ELSE None]
  BY DEF Typed!Observation
<1>2. WellWritten(r, e)
  BY DEF TypedInv
<1> HIDE DEF r, e, o
<1>3. o.state = e.state /\ o.provenance = e.provenance
      /\ o.value = IF e.state = "observed" THEN e.value ELSE None
  BY <1>1
<1>4. o = [state |-> o.state, provenance |-> o.provenance, value |-> o.value]
  BY <1>1, <1>3
<1>5. WellWritten(r, o) /\ (o.state # "observed" => o.value = None)
  BY <1>2, <1>3 DEF WellWritten
<1> QED BY <1>4, <1>5 DEF Kept, r, o, e

LEMMA SaveDraftKeepsTheInvariant == ASSUME TypedInv, Typed!SaveDraft PROVE TypedInv'
<1>1. /\ Typed!RulesAreValid(action) /\ Typed!HasPage
      /\ action' = action /\ facts' = facts /\ entries' = entries /\ typed' = typed
  BY DEF Typed!SaveDraft
<1>2. CASE Typed!DraftIsValid
  <2>1. stage' = "draft saved" /\ draft' = Typed!Observations
    BY <1>2 DEF Typed!SaveDraft
  <2>2. draft' = [m \in DOMAIN action.rules |-> Typed!Observation(entries[m])]
    BY <2>1 DEF Typed!Observations
  <2>3. \A m \in DOMAIN action.rules : Kept(action.rules[m], Typed!Observation(entries[m]))
    BY <1>1, <1>2, DraftsAreKept
  <2>4. \A m \in DOMAIN action.rules : Kept(action.rules[m], draft'[m])
    BY <2>2, <2>3
  <2>5. draft' = [m \in DOMAIN action.rules |-> draft'[m]]
    BY <2>2
  <2>6. DraftIsKept'
    BY <1>1, <2>4, <2>5 DEF DraftIsKept
  <2> QED BY <1>1, <2>1, <2>6 DEF TypedInv, Typed!RulesAreValid
<1>3. CASE ~Typed!DraftIsValid
  <2>1. stage' = "invalid"
    BY <1>3 DEF Typed!SaveDraft
  <2> QED BY <1>1, <2>1 DEF TypedInv, Typed!RulesAreValid
<1> QED BY <1>2, <1>3

LEMMA ReopenKeepsTheInvariant == ASSUME TypedInv, Typed!Reopen PROVE TypedInv'
<1>1. /\ stage = "draft saved" /\ stage' = "reopened"
      /\ entries' = [m \in DOMAIN draft |-> Typed!Shown(action.rules[m], draft[m])]
      /\ action' = action /\ facts' = facts /\ draft' = draft /\ typed' = typed
  BY DEF Typed!Reopen
<1>2. DraftIsKept /\ Typed!RulesAreValid(action)
  BY <1>1 DEF TypedInv
<1>3. DOMAIN draft = DOMAIN action.rules
  BY <1>2 DEF DraftIsKept
<1>4. entries' = [m \in DOMAIN action.rules |-> Typed!Shown(action.rules[m], draft[m])]
  BY <1>1, <1>3
<1>5. ASSUME NEW m \in DOMAIN action.rules PROVE WellWritten(action.rules[m], entries'[m])
  <2>1. Kept(action.rules[m], draft[m])
    BY <1>2, Zenon DEF DraftIsKept
  <2>2. entries'[m] = Typed!Shown(action.rules[m], draft[m])
    BY <1>4
  <2> QED BY <2>1, <2>2, ShownIsWellWritten, Zenon
<1>6. DraftIsKept'
  BY <1>1, <1>2 DEF DraftIsKept
<1> QED BY <1>1, <1>2, <1>4, <1>5, <1>6 DEF TypedInv, Typed!RulesAreValid

\* Whether a submission is valid, and what it hands over, does not change with its stage.
LEMMA SubmitKeepsTheInvariant == ASSUME TypedInv, Typed!Submit PROVE TypedInv'
<1>1. /\ Typed!RulesAreValid(action) /\ Typed!HasPage
      /\ action' = action /\ facts' = facts /\ entries' = entries /\ draft' = draft
  BY DEF Typed!Submit
<1>2. Typed!RulesAreValid(action)' /\ Typed!HasPage' = Typed!HasPage
      /\ Typed!SubmissionIsValid' = Typed!SubmissionIsValid /\ Typed!Input' = Typed!Input
  BY <1>1 DEF Typed!RulesAreValid, Typed!HasPage, Typed!SubmissionIsValid, Typed!DraftIsValid,
              Typed!Input, Typed!Observations
<1>3. \A m \in DOMAIN action.rules : WellWritten(action.rules[m], entries[m])
  BY DEF TypedInv
<1>4. CASE ~Typed!SubmissionIsValid
  <2>1. stage' = "invalid"
    BY <1>4 DEF Typed!Submit
  <2> QED BY <1>1, <1>2, <1>3, <2>1 DEF TypedInv
<1>5. CASE Typed!SubmissionIsValid /\ Typed!Refuses(Typed!Input, action)
  <2>1. stage' = "refused"
    BY <1>5 DEF Typed!Submit
  <2>2. Typed!Refuses(Typed!Input, action)'
    BY <1>1, <1>2, <1>5, Zenon DEF Typed!Refuses
  <2> QED BY <1>1, <1>2, <1>3, <1>5, <2>1, <2>2 DEF TypedInv
<1>6. CASE Typed!SubmissionIsValid /\ ~Typed!Refuses(Typed!Input, action)
  <2>1. stage' = "submitted" /\ typed' = Typed!Evaluate(Typed!Input, action)
    BY <1>6 DEF Typed!Submit
  <2>2. ~Typed!Refuses(Typed!Input, action)' /\ typed' = Typed!Evaluate(Typed!Input, action)'
    BY <1>1, <1>2, <1>6, <2>1, Zenon
  <2> QED BY <1>1, <1>2, <1>3, <1>6, <2>1, <2>2 DEF TypedInv
<1> QED BY <1>4, <1>5, <1>6

LEMMA TypedNextKeepsTheInvariant == ASSUME TypedInv, Typed!Next PROVE TypedInv'
<1>1. CASE Typed!Reject
  <2>1. stage' = "rejected" /\ action' = action /\ facts' = facts /\ entries' = entries
    BY <1>1 DEF Typed!Reject
  <2> QED BY <2>1 DEF TypedInv
<1>2. CASE Typed!FailToOpen
  <2>1. stage' = "no page" /\ action' = action /\ facts' = facts /\ entries' = entries
        /\ Typed!RulesAreValid(action)
    BY <1>2 DEF Typed!FailToOpen
  <2> QED BY <2>1 DEF TypedInv, Typed!RulesAreValid
<1> QED BY <1>1, <1>2, SaveDraftKeepsTheInvariant, ReopenKeepsTheInvariant, SubmitKeepsTheInvariant DEF Typed!Next

-----------------------------------------------------------------------------
(* TypedEvidence: the properties                                            *)

LEMMA FormsMatchTheContract == ASSUME TypedInv PROVE Typed!FormMatchesContract
<1> SUFFICES ASSUME stage = "refused"
             PROVE  \E m \in DOMAIN action.rules : Typed!OutOfBounds(action.rules[m], Typed!Observations[m])
  BY DEF Typed!FormMatchesContract
<1> QED BY SubmissionsFit DEF TypedInv

LEMMA TypedEventsReplay == ASSUME TypedInv PROVE Typed!TypedReplays
<1> SUFFICES ASSUME stage = "submitted" PROVE Typed!Replays(typed)
  BY DEF Typed!TypedReplays
<1>1. typed = Typed!Evaluate(Typed!Input, action) /\ ~Typed!Refuses(Typed!Input, action)
      /\ Typed!RulesAreValid(action)
  BY DEF TypedInv
<1>2. typed.snapshot.input = Typed!Input /\ typed.snapshot.rules = action
  BY <1>1, TypedEvaluateIs, Zenon
<1> QED BY <1>1, <1>2, Zenon DEF Typed!Replays

\* A stored event is the evaluation of an input the contract accepted.
LEMMA SubmittedIs ==
    ASSUME TypedInv, stage = "submitted"
    PROVE  LET i == Typed!Input IN
           /\ Imported(action) /\ Complete(i) /\ Accepted(i, action)
           /\ typed = Typed!Evaluate(i, action) /\ typed.snapshot.input = i
           /\ DOMAIN i.observations = DOMAIN action.rules
<1> DEFINE i == Typed!Input
<1>1. /\ Typed!RulesAreValid(action) /\ Typed!HasPage /\ Typed!SubmissionIsValid
      /\ ~Typed!Refuses(i, action) /\ typed = Typed!Evaluate(i, action) /\ facts \in Facts
  BY DEF TypedInv
<1>2. Imported(action) /\ Complete(i) /\ Accepted(i, action)
  BY <1>1, ActionIsImported, TypedInputIs, SubmissionsAreAccepted
<1>3. typed.snapshot.input = i
  BY <1>1, TypedEvaluateIs, Zenon
<1>4. DOMAIN i.observations = DOMAIN action.rules
  BY <1>2, Zenon DEF Accepted
<1> QED BY <1>1, <1>2, <1>3, <1>4

LEMMA SilenceEarnsNothing == ASSUME TypedInv PROVE Typed!SilenceIsNoCredit
<1> DEFINE i == typed.snapshot.input
<1> SUFFICES ASSUME stage = "submitted", NEW m \in Typed!Observed(i)
             PROVE  NoMore(Typed!Evaluate(Silent(i, m), action), typed)
  BY DEF Typed!SilenceIsNoCredit, Silent, NoMore
<1>1. /\ Imported(action) /\ Complete(i) /\ Accepted(i, action) /\ typed = Typed!Evaluate(i, action)
  BY SubmittedIs
<1>2. m \in DOMAIN i.observations
  BY Zenon DEF Typed!Observed
<1> HIDE DEF i
<1>3. NoMore(Typed!Evaluate(Silent(i, m), action), Typed!Evaluate(i, action))
  BY <1>1, <1>2, TypedEventsAreSound
<1> QED BY <1>1, <1>3, Zenon

LEMMA TypedColumnsAreInRange == ASSUME TypedInv PROVE Typed!StoredInRange
<1> DEFINE i == typed.snapshot.input
           S == action.competency \cap Typed!Observed(i)
           p == typed.performance
           q == typed.quality
           k == typed.mass
           c == typed.competency
           lo == 100 * (Typed!Percent.base + Typed!Percent.context)
           hi == 100 * Typed!Percent.cap
<1> SUFFICES ASSUME stage = "submitted"
             PROVE  /\ p \in 0 .. Typed!Unit /\ q \in lo .. hi /\ k \in 1 .. q
                    /\ c # None => c \in 0 .. Typed!Unit
                    /\ (c = None) = (S = {})
                    /\ S # {} /\ (\A m \in S : Typed!Score(action.rules[m], i.observations[m]) = Typed!Whole)
                          => c = Typed!Unit
  BY Zenon DEF Typed!StoredInRange
<1>1. /\ Imported(action) /\ Complete(i) /\ Accepted(i, action) /\ typed = Typed!Evaluate(i, action)
  BY SubmittedIs
<1> DEFINE g == Typed!Quality(i)
<1>2. /\ p = Typed!Performance(i, action) /\ q = 100 * g /\ k = TypedMass(i)
      /\ c = Typed!CompetencyPerformance(i, action)
  BY <1>1, TypedEvaluateIs
<1>3. Share(p) /\ Heavy(k, g)
  BY <1>1, <1>2, TypedEventsAreSound
<1>4. g \in Nat /\ 50 =< g /\ g =< 85
  BY TypedQualityIs
<1>5. CompetencyBounds(i, action)
  BY <1>1, TypedCompetencyBounds
<1>6. S = Shows(i, action)
  BY Zenon DEF Shows
<1>7. (\A m \in S : Typed!Score(action.rules[m], i.observations[m]) = Typed!Whole) => Perfect(i, action)
  <2>1. Typed!Whole = 12
    BY DEF Typed!Whole
  <2> QED BY <1>6, <2>1, Zenon DEF Perfect, ScoreOf
<1>8. (S = {} => c = None) /\ (S # {} => Share(c)) /\ (S # {} /\ Perfect(i, action) => Full(c))
  BY <1>2, <1>5, <1>6, Zenon DEF CompetencyBounds
<1> HIDE DEF i, S, p, q, k, c, g, lo, hi
<1>9. \A x : Share(x) => x \in 0 .. Typed!Unit
  <2>1. Typed!Unit \in Nat
    BY DEF Typed!Unit
  <2> QED BY <2>1 DEF Share
<1>10. p \in 0 .. Typed!Unit
  BY <1>3, <1>9, Zenon
<1>11. c # None => c \in 0 .. Typed!Unit
  BY <1>8, <1>9, Zenon
<1>12. q \in lo .. hi
  <2>1. lo = 5000 /\ hi = 8500
    BY DEF Typed!Percent, lo, hi
  <2>2. q \in Nat /\ lo =< q /\ q =< hi /\ lo \in Nat /\ hi \in Nat
    BY <1>2, <1>4, <2>1
  <2> QED BY <2>2
<1>13. k \in 1 .. q
  BY <1>2, <1>3 DEF Heavy
<1>14. (c = None) = (S = {})
  <2>1. Share(c) => c # None
    <3>1. Share(c) => c \in Int
      BY DEF Share
    <3> QED BY <3>1, TypedAssumption, Zenon
  <2> QED BY <1>8, <2>1, Zenon
<1>15. S # {} /\ Perfect(i, action) => c = Typed!Unit
  BY <1>8 DEF Full
<1> DEFINE full == c = Typed!Unit
           perfect == \A m \in S : Typed!Score(action.rules[m], i.observations[m]) = Typed!Whole
<1>16. S # {} /\ perfect => full
  <2> HIDE DEF full, perfect
  <2> SUFFICES ASSUME S # {}, perfect PROVE full
    OBVIOUS
  <2>1. Perfect(i, action)
    BY <1>7, Zenon DEF perfect
  <2> QED BY <1>15, <2>1 DEF full
<1> QED BY <1>10, <1>11, <1>12, <1>13, <1>14, <1>16

LEMMA RatiosFollowTheRules == ASSUME TypedInv PROVE Typed!ScoresFollowRules
<1> SUFFICES ASSUME Typed!RulesAreValid(action), NEW m \in DOMAIN action.rules,
                    action.rules[m].kind \in Typed!Number
             PROVE  RatioFollows(action.rules[m])
  BY Zenon DEF Typed!ScoresFollowRules, RatioFollows
<1>1. Sane(action.rules[m])
  BY RulesAreSane, Zenon DEF TypedInv
<1>2. Typed!NumberRuleIsValid(action.rules[m])
  BY Zenon DEF Typed!RulesAreValid, Typed!RuleIsValid
<1> QED BY <1>1, <1>2, RatioScoresFollow, Zenon DEF Sane

LEMMA DraftsComeBack == ASSUME TypedInv PROVE Typed!DraftsAreNotAltered
<1> SUFFICES ASSUME stage = "reopened", Typed!DraftIsValid PROVE Typed!Observations = draft
  BY DEF Typed!DraftsAreNotAltered
<1>1. DraftIsKept /\ entries = [m \in DOMAIN action.rules |-> Typed!Shown(action.rules[m], draft[m])]
  BY DEF TypedInv
<1>2. ASSUME NEW m \in DOMAIN action.rules PROVE Typed!Observation(entries[m]) = draft[m]
  <2> DEFINE r == action.rules[m]
             o == draft[m]
             e == entries[m]
  <2>1. e = [state |-> o.state, provenance |-> o.provenance,
             value |-> IF o.state # "observed" \/ r.kind = "boolean" THEN Typed!Blank(r) ELSE o.value]
    BY <1>1 DEF Typed!Shown
  <2>2. e.state = "observed" => ~Typed!FieldError(r, e.value)
    BY Zenon DEF Typed!DraftIsValid
  <2>3. Kept(r, o)
    BY <1>1, Zenon DEF DraftIsKept
  <2> HIDE DEF r, o, e
  <2>4. e.state = o.state /\ e.provenance = o.provenance
        /\ e.value = IF o.state # "observed" \/ r.kind = "boolean" THEN Typed!Blank(r) ELSE o.value
    BY <2>1
  <2>5. ~(o.state = "observed" /\ r.kind = "boolean")
    <3> SUFFICES ASSUME o.state = "observed", r.kind = "boolean" PROVE FALSE
      OBVIOUS
    <3>1. Typed!Blank(r) = [truth |-> None]
      BY DEF Typed!Blank, Typed!Rubric
    <3>2. e.value = [truth |-> None]
      BY <2>4, <3>1
    <3>3. e.value.truth = None
      BY <3>2
    <3>4. Typed!FieldError(r, e.value)
      BY <3>3 DEF Typed!FieldError, Typed!Rubric
    <3> QED BY <2>2, <2>4, <3>4
  <2>6. Typed!Observation(e) = [state |-> o.state, provenance |-> o.provenance, value |-> o.value]
    BY <2>3, <2>4, <2>5 DEF Typed!Observation, Kept
  <2> QED BY <2>3, <2>6 DEF Kept, e, o
<1>3. Typed!Observations = [m \in DOMAIN action.rules |-> draft[m]]
  BY <1>2 DEF Typed!Observations
<1> QED BY <1>1, <1>3 DEF DraftIsKept

LEMMA TypedIsSound == ASSUME TypedInv PROVE Typed!TypedEvidenceIsSound
BY FormsMatchTheContract, TypedEventsReplay, SilenceEarnsNothing, TypedColumnsAreInRange,
   RatiosFollowTheRules, DraftsComeBack, Zenon DEF Typed!TypedEvidenceIsSound

TypedHolds == component = "typed" => TypedInv

LEMMA TypedInit == Init => TypedHolds
<1>1. Typed!Init => TypedInv
  BY TypedInitHolds
<1> QED BY <1>1, Zenon DEF Init, TypedHolds

LEMMA TypedStep == TypedHolds /\ [Next]_vars => TypedHolds'
<1> SUFFICES ASSUME TypedHolds, [Next]_vars PROVE TypedHolds'
  OBVIOUS
<1>1. CASE Next /\ component = "typed"
  <2>1. Typed!Next /\ TypedInv
    BY <1>1, Zenon DEF Next, TypedHolds
  <2> QED BY <2>1, TypedNextKeepsTheInvariant DEF TypedHolds
<1>2. CASE Next /\ component # "typed"
  BY <1>2, Zenon DEF Next, TypedHolds
<1>3. CASE UNCHANGED vars
  <2>1. component' = component /\ UNCHANGED typedVars
    BY <1>3, Zenon DEF vars
  <2>2. component' = component /\ action' = action /\ facts' = facts /\ entries' = entries
        /\ stage' = stage /\ draft' = draft /\ typed' = typed
    BY <2>1 DEF typedVars
  <2>3. /\ Typed!HasPage' = Typed!HasPage /\ Typed!SubmissionIsValid' = Typed!SubmissionIsValid
        /\ Typed!Input' = Typed!Input /\ DraftIsKept' = DraftIsKept
    BY <2>2 DEF Typed!HasPage, Typed!SubmissionIsValid, Typed!DraftIsValid, Typed!Input,
                Typed!Observations, DraftIsKept
  <2>4. ASSUME TypedInv PROVE TypedInv'
    <3>1. \A m \in DOMAIN action.rules : WellWritten(action.rules[m], entries[m])
      BY <2>4, Zenon DEF TypedInv
    <3>2. Typed!RulesAreValid(action)' = Typed!RulesAreValid(action)
      BY <2>2, Zenon DEF Typed!RulesAreValid
    <3>3. Typed!Refuses(Typed!Input, action)' = Typed!Refuses(Typed!Input, action)
      BY <2>2, <2>3, Zenon DEF Typed!Refuses
    <3>4. Typed!Evaluate(Typed!Input, action)' = Typed!Evaluate(Typed!Input, action)
      BY <2>2, <2>3, Zenon
    <3> QED BY <2>2, <2>3, <2>4, <3>1, <3>2, <3>3, <3>4 DEF TypedInv
  <2> QED BY <2>2, <2>4, Zenon DEF TypedHolds
<1> QED BY <1>1, <1>2, <1>3

\* Whatever the rules of the actions and whatever the form is filled with: what the form accepts the
\* contract accepts but for a number out of bounds, an event replays from its snapshot, what is not
\* observed is no credit, every column is in its range, and a reopened draft is never altered
\* (growth/domain/typed_evidence.py, growth/forms.py).
THEOREM TypedEvidenceStaysSound == Spec => []TypedEvidenceIsSound
<1>1. Init => TypedHolds
  BY TypedInit
<1>2. TypedHolds /\ [Next]_vars => TypedHolds'
  BY TypedStep
<1>3. TypedHolds => TypedEvidenceIsSound
  BY TypedIsSound, Zenon DEF TypedHolds, TypedEvidenceIsSound
<1> QED BY <1>1, <1>2, <1>3, PTL DEF Spec

-----------------------------------------------------------------------------
(* CompositeProjection: numbers                                             *)

LEMMA ProductsGrow ==
    /\ \A a, b \in Nat : a * b \in Nat /\ a * b = b * a
    /\ \A a, b, c \in Nat : a =< b => a * c =< b * c /\ c * a =< c * b
<1>1. \A a, b \in Nat : a * b \in Nat /\ a * b = b * a
  OBVIOUS
<1>2. ASSUME NEW a \in Nat, NEW b \in Nat, NEW c \in Nat, a =< b PROVE a * c =< b * c
  <2>1. PICK z \in Nat : b = a + z
    <3>1. b - a \in Nat /\ b = a + (b - a)
      BY <1>2
    <3> QED BY <3>1
  <2>2. b * c = a * c + z * c /\ z * c \in Nat /\ a * c \in Nat
    BY <2>1
  <2> QED BY <2>2
<1> QED BY <1>1, <1>2

LEMMA UnitIs == Composite!Unit \in Nat \ {0} /\ Composite!Unit = 10000
BY DEF Composite!Unit

\* A share of at most the whole, of a number.
Portion(a, b) == (a * b) \div Composite!Unit
IsPart(x) == x \in Nat /\ x =< Composite!Unit

LEMMA PartsAre == \A x : IsPart(x) <=> x \in 0 .. Composite!Unit
<1>1. \A u \in Nat : \A x : (x \in Nat /\ x =< u) <=> x \in 0 .. u
  OBVIOUS
<1>2. Composite!Unit \in Nat
  BY UnitIs
<1> QED BY <1>1, <1>2, Zenon DEF IsPart

LEMMA PortionBounds ==
    ASSUME NEW a \in Nat, NEW b, IsPart(b)
    PROVE  /\ Portion(a, b) \in Nat /\ Portion(a, b) =< a
           /\ b = 0 => Portion(a, b) = 0
           /\ b = Composite!Unit => Portion(a, b) = a
           /\ \A c \in Nat : a =< c => Portion(a, b) =< Portion(c, b)
           /\ Portion(a, b) * Composite!Unit =< a * b
<1> DEFINE u == Composite!Unit
<1>1. u \in Nat \ {0} /\ b \in Nat /\ b =< u
  BY UnitIs DEF IsPart
<1> HIDE DEF u
<1>2. Portion(a, b) = (a * b) \div u
  BY DEF Portion, u
<1>3. a * b \in Nat /\ a * b =< a * u /\ a * u \in Nat
  BY <1>1, ProductsGrow
<1>4. a * b < (a + 1) * u
  <2>1. (a + 1) * u = a * u + u
    BY <1>1
  <2> QED BY <1>1, <1>3, <2>1
<1>5. Portion(a, b) \in Nat /\ Portion(a, b) =< a
  BY <1>1, <1>2, <1>3, <1>4, DivisionBounds
<1>6. ASSUME b = 0 PROVE Portion(a, b) = 0
  <2>1. a * b < (0 + 1) * u
    BY <1>1, <1>6
  <2> QED BY <1>1, <1>2, <1>3, <1>5, <2>1, DivisionBounds
<1>7. ASSUME b = u PROVE Portion(a, b) = a
  <2>1. a =< Portion(a, b)
    BY <1>1, <1>2, <1>3, <1>7, DivisionBounds
  <2> QED BY <1>5, <2>1
<1>8. ASSUME NEW c \in Nat, a =< c PROVE Portion(a, b) =< Portion(c, b)
  <2>1. a * b =< c * b /\ c * b \in Nat
    BY <1>1, <1>8, ProductsGrow
  <2>2. Portion(c, b) = (c * b) \div u
    BY DEF Portion, u
  <2> QED BY <1>1, <1>2, <1>3, <2>1, <2>2, QuotientsGrow
<1>9. Portion(a, b) * u =< a * b
  <2> DEFINE n == a * b
  <2>1. n \in Nat
    BY <1>3
  <2> HIDE DEF n
  <2>2. n = u * (n \div u) + (n % u) /\ n % u \in 0 .. u - 1 /\ n \div u \in Nat
    BY <1>1, <2>1, SMT
  <2>3. (n \div u) * u = u * (n \div u)
    BY <1>1, <2>2, ProductsGrow
  <2>4. (n \div u) * u =< n
    BY <1>1, <2>2, <2>3
  <2> QED BY <1>2, <2>4 DEF n
<1> QED BY <1>5, <1>6, <1>7, <1>8, <1>9 DEF u

-----------------------------------------------------------------------------
(* Roots and powers                                                         *)

\* A bit at a time, the square stays below what the root is taken of.
LEMMA RootBounds ==
    ASSUME NEW x, IsPart(x)
    PROVE  IsPart(Composite!Root(x)) /\ (x = 0 => Composite!Root(x) = 0)
<1> DEFINE u == Composite!Unit
           Below(r) == r \in Nat /\ r * r =< x * u
<1>0. u \in Nat \ {0} /\ x \in Nat /\ x =< u /\ x * u \in Nat
  BY UnitIs DEF IsPart
<1>1. ASSUME NEW r, Below(r), NEW bit \in Nat PROVE Below(Composite!WithBit(x, r, bit))
  <2>1. r + bit \in Nat
    BY <1>1
  <2>2. CASE (r + bit) * (r + bit) =< x * u
    <3>1. Composite!WithBit(x, r, bit) = r + bit
      BY <2>2, Zenon DEF Composite!WithBit
    <3> QED BY <2>1, <2>2, <3>1
  <2>3. CASE ~ ((r + bit) * (r + bit) =< x * u)
    <3>1. Composite!WithBit(x, r, bit) = r
      BY <2>3, Zenon DEF Composite!WithBit
    <3> QED BY <1>1, <3>1
  <2> QED BY <2>2, <2>3
<1>2. Below(0)
  BY <1>0
<1> HIDE DEF Below
<1>3. ASSUME NEW r, Below(r), NEW bit \in Nat PROVE Below(Composite!FourBits(x, r, bit))
  <2>1. 8 * bit \in Nat /\ 4 * bit \in Nat /\ 2 * bit \in Nat
    OBVIOUS
  <2>2. Below(Composite!WithBit(x, r, 8 * bit))
    BY <1>1, <1>3, <2>1
  <2>3. Below(Composite!WithBit(x, Composite!WithBit(x, r, 8 * bit), 4 * bit))
    BY <1>1, <2>1, <2>2
  <2>4. Below(Composite!WithBit(x, Composite!WithBit(x, Composite!WithBit(x, r, 8 * bit), 4 * bit), 2 * bit))
    BY <1>1, <2>1, <2>3
  <2> QED BY <1>1, <2>4 DEF Composite!FourBits
<1> DEFINE a == Composite!FourBits(x, 0, 4096)
           b == Composite!FourBits(x, a, 256)
           c == Composite!FourBits(x, b, 16)
           d == Composite!FourBits(x, c, 1)
<1>4. Below(a)
  BY <1>2, <1>3
<1> HIDE DEF a
<1>5. Below(b)
  BY <1>3, <1>4
<1> HIDE DEF b
<1>6. Below(c)
  BY <1>3, <1>5
<1> HIDE DEF c
<1>7. Below(d)
  BY <1>3, <1>6
<1>8. Composite!Root(x) = d
  BY Zenon DEF Composite!Root, a, b, c
<1> HIDE DEF d
<1>9. d \in Nat /\ d * d =< u * u
  <2>1. d \in Nat /\ d * d =< x * u
    BY <1>7 DEF Below
  <2>2. x * u =< u * u /\ u * u \in Nat /\ d * d \in Nat
    BY <1>0, <2>1, ProductsGrow
  <2> QED BY <1>0, <2>1, <2>2
<1>10. d =< u
  <2>1. SUFFICES ASSUME ~ (d =< u) PROVE FALSE
    OBVIOUS
  <2>2. u + 1 =< d /\ u + 1 \in Nat
    BY <1>0, <1>9, <2>1
  <2>3. (u + 1) * (u + 1) =< d * (u + 1) /\ d * (u + 1) =< d * d
    BY <1>9, <2>2, ProductsGrow
  <2>4. (u + 1) * (u + 1) = u * u + 2 * u + 1 /\ u * u \in Nat /\ d * (u + 1) \in Nat /\ d * d \in Nat
    BY <1>0, <1>9
  <2> QED BY <1>0, <1>9, <2>3, <2>4
<1>11. ASSUME x = 0 PROVE d = 0
  <2>1. d * d =< 0
    <3>1. x * u = 0
      BY <1>0, <1>11
    <3> QED BY <1>7, <3>1 DEF Below
  <2>2. SUFFICES ASSUME d # 0 PROVE FALSE
    OBVIOUS
  <2>3. 1 =< d
    BY <1>9, <2>2
  <2>4. 1 * d =< d * d
    BY <1>9, <2>3, ProductsGrow
  <2> QED BY <1>9, <2>1, <2>3, <2>4
<1> QED BY <1>8, <1>9, <1>10, <1>11 DEF IsPart

\* The bits of 10000.
LEMMA RootOfUnit == Composite!Root(Composite!Unit) = Composite!Unit
<1> DEFINE x == Composite!Unit
<1>1. ASSUME NEW r \in Nat, NEW bit \in Nat
      PROVE  /\ r + bit =< 10000 => Composite!WithBit(x, r, bit) = r + bit
             /\ r + bit > 10000 => Composite!WithBit(x, r, bit) = r
  <2> DEFINE s == r + bit
  <2>1. s \in Nat
    OBVIOUS
  <2>2. Composite!WithBit(x, r, bit) = IF s * s =< 10000 * 10000 THEN s ELSE r
    BY UnitIs DEF Composite!WithBit
  <2> HIDE DEF s
  <2>3. s =< 10000 => s * s =< 10000 * 10000
    <3>1. ASSUME s =< 10000 PROVE s * s =< 10000 * 10000
      <4>1. s * s =< 10000 * s /\ 10000 * s =< 10000 * 10000
        BY <2>1, <3>1, ProductsGrow
      <4> QED BY <2>1, <4>1
    <3> QED BY <3>1
  <2>4. s > 10000 => ~ (s * s =< 10000 * 10000)
    <3>1. ASSUME s > 10000 PROVE ~ (s * s =< 10000 * 10000)
      <4>1. 10001 =< s
        BY <2>1, <3>1
      <4>2. 10001 * s =< s * s /\ s * s \in Nat
        BY <2>1, <4>1, ProductsGrow
      <4>3. 10001 * 10001 =< 10001 * s
        BY <2>1, <4>1
      <4> QED BY <2>1, <4>2, <4>3
    <3> QED BY <3>1
  <2> QED BY <2>2, <2>3, <2>4 DEF s
<1> HIDE DEF x
<1>2. Composite!FourBits(x, 0, 4096) = 8192
  <2>1. Composite!WithBit(x, 0, 8 * 4096) = 0
    BY <1>1
  <2>2. Composite!WithBit(x, 0, 4 * 4096) = 0
    BY <1>1
  <2>3. Composite!WithBit(x, 0, 2 * 4096) = 8192
    BY <1>1
  <2>4. Composite!WithBit(x, 8192, 4096) = 8192
    BY <1>1
  <2> QED BY <2>1, <2>2, <2>3, <2>4 DEF Composite!FourBits
<1>3. Composite!FourBits(x, 8192, 256) = 9984
  <2>1. Composite!WithBit(x, 8192, 8 * 256) = 8192
    BY <1>1
  <2>2. Composite!WithBit(x, 8192, 4 * 256) = 9216
    BY <1>1
  <2>3. Composite!WithBit(x, 9216, 2 * 256) = 9728
    BY <1>1
  <2>4. Composite!WithBit(x, 9728, 256) = 9984
    BY <1>1
  <2> QED BY <2>1, <2>2, <2>3, <2>4 DEF Composite!FourBits
<1>4. Composite!FourBits(x, 9984, 16) = 10000
  <2>1. Composite!WithBit(x, 9984, 8 * 16) = 9984
    BY <1>1
  <2>2. Composite!WithBit(x, 9984, 4 * 16) = 9984
    BY <1>1
  <2>3. Composite!WithBit(x, 9984, 2 * 16) = 9984
    BY <1>1
  <2>4. Composite!WithBit(x, 9984, 16) = 10000
    BY <1>1
  <2> QED BY <2>1, <2>2, <2>3, <2>4 DEF Composite!FourBits
<1>5. Composite!FourBits(x, 10000, 1) = 10000
  <2>1. Composite!WithBit(x, 10000, 8 * 1) = 10000 /\ Composite!WithBit(x, 10000, 4 * 1) = 10000 /\ Composite!WithBit(x, 10000, 2 * 1) = 10000
    BY <1>1
  <2>2. Composite!WithBit(x, 10000, 1) = 10000
    BY <1>1
  <2> QED BY <2>1, <2>2 DEF Composite!FourBits
<1>6. Composite!Root(x) = Composite!FourBits(x, Composite!FourBits(x, Composite!FourBits(x, Composite!FourBits(x, 0, 4096), 256), 16), 1)
  BY Zenon DEF Composite!Root
<1>7. Composite!Root(x) = 10000
  BY <1>2, <1>3, <1>4, <1>5, <1>6
<1> QED BY <1>7, UnitIs DEF x

LEMMA PowerBounds ==
    ASSUME NEW x, IsPart(x), NEW h
    PROVE  /\ IsPart(Composite!Power(x, h))
           /\ x = 0 => Composite!Power(x, h) = 0
           /\ x = Composite!Unit => Composite!Power(x, h) = Composite!Unit
<1> DEFINE r == Composite!Root(x)
<1>1. IsPart(r) /\ (x = 0 => r = 0) /\ (x = Composite!Unit => r = Composite!Unit)
  BY RootBounds, RootOfUnit
<1>2. \/ Composite!Power(x, h) = r
      \/ Composite!Power(x, h) = x
      \/ Composite!Power(x, h) = Portion(x, r)
  <2> HIDE DEF r
  <2>1. Composite!Power(x, h) = CASE h = 1 -> r [] h = 2 -> x [] OTHER -> Portion(x, r)
    BY Zenon DEF Composite!Power, Portion, r
  <2>2. CASE h = 1
    BY <2>1, <2>2, SMT
  <2>3. CASE h = 2
    BY <2>1, <2>3, SMT
  <2>4. CASE h # 1 /\ h # 2
    BY <2>1, <2>4, SMT
  <2> QED BY <2>2, <2>3, <2>4
<1> HIDE DEF r
<1>3. x \in Nat /\ x =< Composite!Unit /\ Composite!Unit \in Nat
  BY UnitIs DEF IsPart
<1>4. Portion(x, r) \in Nat /\ Portion(x, r) =< x /\ (r = Composite!Unit => Portion(x, r) = x)
  BY <1>1, <1>3, PortionBounds
<1>5. IsPart(Portion(x, r))
  BY <1>3, <1>4 DEF IsPart
<1>6. x = 0 => Portion(x, r) = 0
  BY <1>4
<1>7. x = Composite!Unit => Portion(x, r) = Composite!Unit
  BY <1>1, <1>4
<1> QED BY <1>1, <1>2, <1>5, <1>6, <1>7

-----------------------------------------------------------------------------
(* CompositeProjection: sums and means                                      *)

LEMMA CompositeCardinality == ASSUME NEW S PROVE Composite!Cardinality(S) = Cardinality(S)
BY Zenon DEF Composite!Cardinality, Cardinality

LEMMA CompositeTotalIsTheSum ==
    ASSUME NEW f, IsFiniteSet(DOMAIN f)
    PROVE  Composite!Total(f) = Sum(f, DOMAIN f)
<1> DEFINE S == DOMAIN f
           Adds(g) == g = [s \in SUBSET S |-> IF s = {} THEN 0
                              ELSE f[CHOOSE x \in s : TRUE] + g[s \ {CHOOSE x \in s : TRUE}]]
           iter == CHOOSE g : Adds(g)
<1>1. Composite!Total(f) = iter[S]
  BY Zenon DEF Composite!Total, Composite!MapThenSumSet, Composite!MapThenFoldSet
<1>2. \A g : Folding(g, f, S) <=> Adds(g)
  BY Zenon DEF Folding, Step
<1> HIDE DEF Adds
<1>3. \E g : Adds(g)
  BY <1>2, FoldingExists
<1>4. Folding(iter, f, S)
  BY <1>2, <1>3, Zenon
<1> HIDE DEF iter
<1>5. iter[S] = Sum(f, S)
  BY <1>4, FoldingIsTheSum
<1> QED BY <1>1, <1>5

LEMMA SumsOfEquals ==
    ASSUME NEW f, NEW k \in Nat, NEW S, IsFiniteSet(S), \A x \in S : f[x] = k
    PROVE  Sum(f, S) = k * Cardinality(S)
<1> DEFINE C == {n \in Nat : \A s \in SUBSET S : Cardinality(s) = n => Sum(f, s) = k * n}
<1>1. \A s \in SUBSET S : IsFiniteSet(s) /\ Cardinality(s) \in Nat /\ Numbers(f, s)
  BY FS_Subset, FS_CardinalityType DEF Numbers
<1>2. 0 \in C
  <2>1. \A s \in SUBSET S : Cardinality(s) = 0 => s = {}
    BY <1>1, FS_EmptySet
  <2>2. 0 = k * 0
    OBVIOUS
  <2> QED BY <2>1, <2>2, SumOfNothing
<1>3. ASSUME NEW n \in Nat, n \in C PROVE n + 1 \in C
  <2>1. ASSUME NEW s \in SUBSET S, Cardinality(s) = n + 1 PROVE Sum(f, s) = k * (n + 1)
    <3>1. PICK x \in s : TRUE
      BY <2>1, FS_EmptySet
    <3>2. Sum(f, s) = f[x] + Sum(f, s \ {x})
      BY <1>1, SumsAddAnywhere
    <3>3. Cardinality(s \ {x}) = Cardinality(s) - 1
      BY <1>1, FS_RemoveElement, Zenon
    <3>4. Sum(f, s \ {x}) = k * n
      BY <1>3, <2>1, <3>3
    <3>5. f[x] = k
      OBVIOUS
    <3>6. k * n \in Nat /\ k * (n + 1) = k * n + k
      OBVIOUS
    <3> QED BY <3>2, <3>4, <3>5, <3>6
  <2> QED BY <2>1
<1> HIDE DEF C
<1>4. Nat \subseteq C
  BY <1>2, <1>3, AllNumbers
<1>5. Cardinality(S) \in C
  BY <1>1, <1>4
<1> QED BY <1>5 DEF C

\* What lies between two bounds.
Between(x, lo, hi) == x \in Nat /\ lo =< x /\ x =< hi
AllBetween(f, S, lo, hi) == \A s \in S : Between(f[s], lo, hi)

LEMMA QuotientsStay ==
    ASSUME NEW n \in Nat, NEW d \in Nat \ {0}, NEW lo \in Nat, NEW hi \in Nat, lo * d =< n, n =< hi * d
    PROVE  Between(n \div d, lo, hi)
<1>1. hi * d \in Nat /\ (hi + 1) * d = hi * d + d
  OBVIOUS
<1>2. n < (hi + 1) * d
  BY <1>1
<1> QED BY <1>2, DivisionBounds DEF Between

LEMMA SumsStayBetween ==
    ASSUME NEW f, NEW S, IsFiniteSet(S), NEW lo \in Nat, NEW hi \in Nat, AllBetween(f, S, lo, hi)
    PROVE  /\ Numbers(f, S) /\ Cardinality(S) \in Nat
           /\ Between(Sum(f, S), lo * Cardinality(S), hi * Cardinality(S))
<1> DEFINE g == [s \in S |-> lo]
<1>1. Numbers(f, S) /\ Numbers(g, S) /\ \A s \in S : g[s] =< f[s] /\ f[s] =< hi
  BY DEF Numbers, AllBetween, Between
<1>2. \A s \in S : g[s] = lo
  OBVIOUS
<1> HIDE DEF g
<1>3. Sum(g, S) = lo * Cardinality(S)
  BY <1>2, SumsOfEquals
<1>4. Sum(g, S) =< Sum(f, S)
  BY <1>1, SumsCompare
<1>5. Sum(f, S) \in Nat /\ Sum(f, S) =< hi * Cardinality(S)
  BY <1>1, SumsAreNumbers, SumsAreBounded
<1> QED BY <1>1, <1>3, <1>4, <1>5, FS_CardinalityType DEF Between

LEMMA MeansStayBetween ==
    ASSUME NEW f, IsFiniteSet(DOMAIN f), DOMAIN f # {}, NEW lo \in Nat, NEW hi \in Nat,
           AllBetween(f, DOMAIN f, lo, hi)
    PROVE  Between(Composite!Mean(f), lo, hi)
<1> DEFINE S == DOMAIN f
           n == Cardinality(S)
           m == Sum(f, S)
<1>1. n \in Nat \ {0}
  BY FS_CardinalityType, FS_EmptySet
<1>2. Between(m, lo * n, hi * n)
  BY SumsStayBetween
<1>3. Composite!Mean(f) = m \div n
  BY CompositeTotalIsTheSum, CompositeCardinality DEF Composite!Mean
<1> HIDE DEF m, n
<1> QED BY <1>1, <1>2, <1>3, QuotientsStay DEF Between

Weighed(w, v, S) == [s \in S |-> w[s] * v[s]]

LEMMA WeightedSumsStay ==
    ASSUME NEW w, NEW v, NEW S, IsFiniteSet(S), Numbers(w, S), NEW lo \in Nat, NEW hi \in Nat,
           AllBetween(v, S, lo, hi)
    PROVE  /\ Sum(w, S) \in Nat /\ Numbers(Weighed(w, v, S), S)
           /\ Between(Sum(Weighed(w, v, S), S), lo * Sum(w, S), hi * Sum(w, S))
<1> DEFINE p == Weighed(w, v, S)
           a == [s \in S |-> lo * w[s]]
           b == [s \in S |-> hi * w[s]]
<1>1. \A s \in S : p[s] = w[s] * v[s] /\ a[s] = lo * w[s] /\ b[s] = hi * w[s]
  BY DEF Weighed
<1> HIDE DEF p, a, b
<1>2. ASSUME NEW s \in S
      PROVE  p[s] \in Nat /\ a[s] \in Nat /\ b[s] \in Nat /\ a[s] =< p[s] /\ p[s] =< b[s]
  <2> DEFINE x == w[s]
             y == v[s]
  <2>1. x \in Nat /\ y \in Nat /\ lo =< y /\ y =< hi
    BY DEF Numbers, AllBetween, Between
  <2>2. p[s] = x * y /\ a[s] = lo * x /\ b[s] = hi * x
    BY <1>1
  <2> HIDE DEF x, y
  <2>3. lo * x =< y * x /\ y * x =< hi * x /\ x * y = y * x
    BY <2>1, ProductsGrow
  <2>4. x * y \in Nat /\ lo * x \in Nat /\ hi * x \in Nat
    BY <2>1, ProductsGrow
  <2> QED BY <2>2, <2>3, <2>4
<1>3. Numbers(p, S) /\ Numbers(a, S) /\ Numbers(b, S)
  BY <1>2 DEF Numbers
<1>4. Sum(a, S) = lo * Sum(w, S) /\ Sum(b, S) = hi * Sum(w, S)
  BY <1>1, SumsScale
<1>5. Sum(a, S) =< Sum(p, S) /\ Sum(p, S) =< Sum(b, S)
  BY <1>2, <1>3, SumsCompare
<1>6. Sum(w, S) \in Nat /\ Sum(p, S) \in Nat
  BY <1>3, SumsAreNumbers
<1> QED BY <1>3, <1>4, <1>5, <1>6 DEF Between, p

LEMMA WeightedMeansStay ==
    ASSUME NEW v, NEW w, NEW S, IsFiniteSet(S), S # {}, DOMAIN v = S, DOMAIN w = S, Numbers(w, S),
           NEW lo \in Nat, NEW hi \in Nat, AllBetween(v, S, lo, hi)
    PROVE  Between(Composite!WeightedMean(v, w), lo, hi)
<1> DEFINE mass == Sum(w, S)
           p == Weighed(v, w, S)
           q == Weighed(w, v, S)
<1>1. Composite!Total(w) = mass /\ mass \in Nat
  BY CompositeTotalIsTheSum, SumsAreNumbers
<1>2. p = q
  <2>1. \A s \in S : v[s] * w[s] = w[s] * v[s]
    <3>1. \A s \in S : v[s] \in Nat /\ w[s] \in Nat
      BY DEF Numbers, AllBetween, Between
    <3> QED BY <3>1, ProductsGrow
  <2> QED BY <2>1 DEF Weighed
<1>3. DOMAIN p = S /\ Composite!Total(p) = Sum(q, S)
  <2>1. DOMAIN p = S
    BY DEF Weighed
  <2> HIDE DEF p, q
  <2>2. Composite!Total(p) = Sum(p, DOMAIN p)
    BY <2>1, CompositeTotalIsTheSum
  <2> QED BY <1>2, <2>1, <2>2
<1>4. Between(Sum(q, S), lo * mass, hi * mass)
  BY WeightedSumsStay
<1>5. Composite!WeightedMean(v, w) = IF Composite!Total(w) = 0 THEN Composite!Mean(v)
                                     ELSE Composite!Total(p) \div Composite!Total(w)
  BY Zenon DEF Composite!WeightedMean, Weighed
<1> HIDE DEF mass, p, q
<1>6. CASE mass = 0
  <2>1. Between(Composite!Mean(v), lo, hi)
    BY MeansStayBetween
  <2> QED BY <1>1, <1>5, <1>6, <2>1
<1>7. CASE mass # 0
  <2>1. Composite!WeightedMean(v, w) = Sum(q, S) \div mass
    BY <1>1, <1>3, <1>5, <1>7
  <2> QED BY <1>1, <1>4, <1>7, <2>1, QuotientsStay DEF Between
<1> QED BY <1>6, <1>7

\* The shares of a competency, and what they add up to.
AreShares(shares) ==
    /\ IsFiniteSet(DOMAIN shares) /\ DOMAIN shares # {} /\ Numbers(shares, DOMAIN shares)
    /\ \A l \in DOMAIN shares : shares[l] > 0
    /\ Composite!Total(shares) = Composite!Unit

LEMMA MappedStays ==
    ASSUME NEW shares, AreShares(shares), NEW v, NEW lo \in Nat, NEW hi \in Nat,
           AllBetween(v, DOMAIN shares, lo, hi)
    PROVE  Between(Composite!Mapped(shares, v), lo, hi)
<1> DEFINE S == DOMAIN shares
           p == Weighed(shares, v, S)
           u == Composite!Unit
<1>1. IsFiniteSet(S) /\ Numbers(shares, S) /\ Sum(shares, S) = u /\ u \in Nat \ {0}
  BY CompositeTotalIsTheSum, UnitIs DEF AreShares
<1>2. Between(Sum(p, S), lo * u, hi * u)
  BY <1>1, WeightedSumsStay
<1>3. Composite!Mapped(shares, v) = Sum(p, S) \div u
  <2>1. Composite!Mapped(shares, v) = Composite!Total(p) \div u
    BY Zenon DEF Composite!Mapped, Weighed
  <2>2. DOMAIN p = S
    BY DEF Weighed
  <2> HIDE DEF p
  <2>3. Composite!Total(p) = Sum(p, S)
    BY <1>1, <2>2, CompositeTotalIsTheSum
  <2> QED BY <2>1, <2>3
<1> HIDE DEF p, u
<1> QED BY <1>1, <1>2, <1>3, QuotientsStay DEF Between

\* Three parts of one whole.
LEMMA BlendsStay ==
    ASSUME NEW x \in Nat, NEW y \in Nat, NEW z \in Nat, x + y + z = Composite!Unit,
           NEW lo \in Nat, NEW hi \in Nat, NEW a, Between(a, lo, hi), NEW b, Between(b, lo, hi),
           NEW c, Between(c, lo, hi)
    PROVE  Between((x * a + y * b + z * c) \div Composite!Unit, lo, hi)
<1> DEFINE u == Composite!Unit
           n == x * a + y * b + z * c
<1>1. u \in Nat \ {0} /\ a \in Nat /\ b \in Nat /\ c \in Nat
  BY UnitIs DEF Between
<1>2. ASSUME NEW i \in Nat, NEW k, Between(k, lo, hi)
      PROVE  i * k \in Nat /\ lo * i =< i * k /\ i * k =< hi * i /\ lo * i \in Nat /\ hi * i \in Nat
  <2>1. k \in Nat /\ lo =< k /\ k =< hi
    BY <1>2 DEF Between
  <2>2. lo * i =< k * i /\ k * i =< hi * i /\ k * i = i * k
    BY <2>1, ProductsGrow
  <2> QED BY <2>1, <2>2, ProductsGrow
<1>3. lo * (x + y + z) = lo * x + lo * y + lo * z /\ hi * (x + y + z) = hi * x + hi * y + hi * z
  OBVIOUS
<1>4. /\ x * a \in Nat /\ lo * x =< x * a /\ x * a =< hi * x /\ lo * x \in Nat /\ hi * x \in Nat
      /\ y * b \in Nat /\ lo * y =< y * b /\ y * b =< hi * y /\ lo * y \in Nat /\ hi * y \in Nat
      /\ z * c \in Nat /\ lo * z =< z * c /\ z * c =< hi * z /\ lo * z \in Nat /\ hi * z \in Nat
  BY <1>2
<1>5. n \in Nat /\ lo * x + lo * y + lo * z =< n /\ n =< hi * x + hi * y + hi * z
  BY <1>4
<1>6. lo * u =< n /\ n =< hi * u
  BY <1>3, <1>5
<1> HIDE DEF n, u
<1>7. Between(n \div u, lo, hi)
  BY <1>1, <1>5, <1>6, QuotientsStay
<1> QED BY <1>7 DEF n, u

-----------------------------------------------------------------------------
(* CompositeProjection: needs                                               *)

ValidContract ==
    /\ IsPart(contract.canonical) /\ IsPart(contract.equal) /\ contract.canonical + contract.equal = Composite!Unit
    /\ IsPart(contract.lever) /\ IsPart(contract.family) /\ IsPart(contract.domain)
    /\ contract.lever + contract.family + contract.domain = Composite!Unit
    /\ IsPart(contract.ownLever) /\ IsPart(contract.ownFamily) /\ IsPart(contract.ownDomain)
    /\ contract.ownLever + contract.ownFamily + contract.ownDomain = Composite!Unit
    /\ IsPart(contract.floor) /\ IsPart(contract.confidence) /\ contract.floor + contract.confidence = Composite!Unit
    /\ IsPart(contract.inherited)

LEMMA ContractIsValid == Composite!PolicyIsValid(contract) => ValidContract
<1>1. \A x : x \in 0 .. Composite!Unit => IsPart(x)
  BY PartsAre
<1> QED BY <1>1, Zenon DEF Composite!PolicyIsValid, ValidContract

LEMMA PortionsCommute ==
    ASSUME NEW a, IsPart(a), NEW b, IsPart(b)
    PROVE  /\ Portion(a, b) = Portion(b, a) /\ IsPart(Portion(a, b)) /\ Portion(a, b) =< b
           /\ \A c : IsPart(c) /\ b =< c => Portion(a, b) =< Portion(a, c)
<1>1. a \in Nat /\ b \in Nat /\ a =< Composite!Unit /\ b =< Composite!Unit /\ Composite!Unit \in Nat
  BY UnitIs DEF IsPart
<1>2. \A c \in Nat : Portion(a, c) = Portion(c, a)
  BY <1>1, ProductsGrow DEF Portion
<1>3. Portion(a, b) \in Nat /\ Portion(a, b) =< a
  BY <1>1, PortionBounds
<1>4. Portion(b, a) =< b /\ \A c \in Nat : b =< c => Portion(b, a) =< Portion(c, a)
  BY <1>1, PortionBounds
<1>5. IsPart(Portion(a, b))
  BY <1>1, <1>3 DEF IsPart
<1>6. ASSUME NEW c, IsPart(c), b =< c PROVE Portion(a, b) =< Portion(a, c)
  <2>1. c \in Nat
    BY <1>6 DEF IsPart
  <2> QED BY <1>1, <1>2, <1>4, <1>6, <2>1
<1> QED BY <1>1, <1>2, <1>4, <1>5, <1>6

LEMMA Complements ==
    ASSUME NEW x, IsPart(x)
    PROVE  /\ IsPart(Composite!Unit - x)
           /\ x = 0 => Composite!Unit - x = Composite!Unit
           /\ x = Composite!Unit => Composite!Unit - x = 0
<1>1. Composite!Unit \in Nat
  BY UnitIs
<1> QED BY <1>1 DEF IsPart

\* A need is a share of the gap, and grows with the confidence in it.
LEMMA StartingNeeds ==
    ASSUME ValidContract, NEW e, IsPart(e), NEW k, IsPart(k)
    PROVE  /\ IsPart(Composite!StartingNeed(e, k))
           /\ \A j : IsPart(j) /\ j =< k => Composite!StartingNeed(e, j) =< Composite!StartingNeed(e, k)
<1> DEFINE P == Composite!Power(Composite!Unit - e, contract.needExponent)
           Factor(j) == contract.floor + Portion(contract.confidence, j)
<1>1. \A j : Composite!StartingNeed(e, j) = Portion(P, Factor(j))
  BY Zenon DEF Composite!StartingNeed, Portion
<1>2. IsPart(P)
  BY Complements, PowerBounds
<1>3. /\ contract.floor \in Nat /\ contract.confidence \in Nat /\ Composite!Unit \in Nat
      /\ contract.floor + contract.confidence = Composite!Unit /\ IsPart(contract.confidence)
  BY UnitIs DEF ValidContract, IsPart
<1>4. ASSUME NEW j, IsPart(j) PROVE IsPart(Factor(j))
  <2> DEFINE x == Portion(contract.confidence, j)
  <2>1. x \in Nat /\ x =< contract.confidence
    BY <1>3, <1>4, PortionBounds
  <2> HIDE DEF x
  <2>2. IsPart(contract.floor + x)
    BY <1>3, <2>1 DEF IsPart
  <2> QED BY <2>2 DEF x
<1>5. ASSUME NEW j, IsPart(j), j =< k PROVE Factor(j) =< Factor(k)
  <2> DEFINE x == Portion(contract.confidence, j)
             y == Portion(contract.confidence, k)
  <2>1. x \in Nat /\ y \in Nat
    BY <1>3, <1>5, PortionBounds
  <2>2. x =< y
    BY <1>3, <1>5, PortionsCommute
  <2> HIDE DEF x, y
  <2>3. contract.floor + x =< contract.floor + y
    BY <1>3, <2>1, <2>2
  <2> QED BY <2>3 DEF x, y
<1> HIDE DEF P, Factor
<1>6. IsPart(Portion(P, Factor(k)))
  BY <1>2, <1>4, PortionsCommute
<1>7. ASSUME NEW j, IsPart(j), j =< k PROVE Portion(P, Factor(j)) =< Portion(P, Factor(k))
  BY <1>2, <1>4, <1>5, <1>7, PortionsCommute
<1> QED BY <1>1, <1>6, <1>7

\* What completion leaves of a need, or of a priority.
LEMMA WhatIsLeft ==
    ASSUME NEW need \in Nat, NEW done, IsPart(done), NEW h
    PROVE  LET left == Portion(need, Composite!Power(Composite!Unit - done, h)) IN
           /\ left \in Nat /\ left =< need
           /\ done = 0 => left = need
           /\ done = Composite!Unit => left = 0
<1> DEFINE p == Composite!Power(Composite!Unit - done, h)
<1>1. IsPart(p) /\ (done = 0 => p = Composite!Unit) /\ (done = Composite!Unit => p = 0)
  BY Complements, PowerBounds
<1> HIDE DEF p
<1>2. /\ Portion(need, p) \in Nat /\ Portion(need, p) =< need
      /\ p = 0 => Portion(need, p) = 0
      /\ p = Composite!Unit => Portion(need, p) = need
  BY <1>1, PortionBounds
<1> QED BY <1>1, <1>2 DEF p

-----------------------------------------------------------------------------
(* CompositeProjection: relationships                                       *)

\* The weights of a competency that are not refused.
AreWeights(given) ==
    /\ IsFiniteSet(DOMAIN given) /\ DOMAIN given # {} /\ DOMAIN given \subseteq Int
    /\ \A l \in DOMAIN given : given[l] \in Nat /\ given[l] > 0
    /\ Composite!Total(given) = Composite!Unit

\* Each rounded share is left with something, and together they are no more than the whole.
LEMMA BlendedShares ==
    ASSUME ValidContract, NEW given, AreWeights(given)
    PROVE  LET b == Composite!Blended(given) IN
           /\ DOMAIN b = DOMAIN given
           /\ \A l \in DOMAIN given : b[l] \in Nat /\ b[l] > 0
           /\ Sum(b, DOMAIN given) \in Nat /\ Sum(b, DOMAIN given) =< Composite!Unit
<1> DEFINE S == DOMAIN given
           n == Cardinality(S)
           u == Composite!Unit
           e == u \div n
           x == contract.canonical
           y == contract.equal
           b == Composite!Blended(given)
<1>1. /\ u \in Nat \ {0} /\ x \in Nat /\ y \in Nat /\ x + y = u
      /\ IsFiniteSet(S) /\ S # {} /\ Numbers(given, S) /\ \A l \in S : given[l] \in Nat /\ given[l] >= 1
  BY UnitIs DEF ValidContract, IsPart, AreWeights, Numbers
<1>2. n \in Nat \ {0}
  BY <1>1, FS_CardinalityType, FS_EmptySet
<1>3. DOMAIN b = S /\ \A l \in S : b[l] = (x * given[l] + y * e) \div u
  BY CompositeCardinality DEF Composite!Blended
<1>4. Sum(given, S) = u
  BY CompositeTotalIsTheSum DEF AreWeights
<1> DEFINE ones == [l \in S |-> 1]
<1>5. n =< u
  <2>1. Numbers(ones, S) /\ \A l \in S : ones[l] =< given[l] /\ ones[l] = 1
    BY <1>1 DEF Numbers
  <2> HIDE DEF ones, S
  <2>2. Sum(ones, S) =< Sum(given, S)
    BY <1>1, <2>1, SumsCompare
  <2>3. Sum(ones, S) = 1 * n
    BY <1>1, <2>1, SumsOfEquals DEF n
  <2> QED BY <1>2, <1>4, <2>2, <2>3
<1> HIDE DEF b, S, u, x, y, ones
<1>6. e \in Nat /\ e >= 1 /\ e * n =< u
  <2> HIDE DEF n
  <2>1. e \in Nat /\ (1 * n =< u => 1 =< e)
    BY <1>1, <1>2, DivisionBounds
  <2>2. u = n * e + (u % n) /\ u % n \in 0 .. n - 1
    BY <1>1, <1>2, SMT
  <2>3. n * e = e * n /\ n * e \in Nat
    BY <1>2, <2>1, ProductsGrow
  <2> QED BY <1>1, <1>2, <1>5, <2>1, <2>2, <2>3
<1> HIDE DEF e, n
<1> DEFINE Exact(l) == x * given[l] + y * e
<1>7. ASSUME NEW l \in S PROVE Exact(l) \in Nat /\ u =< Exact(l)
  <2> DEFINE g == given[l]
  <2>1. g \in Nat /\ g >= 1
    BY <1>1
  <2> HIDE DEF g
  <2>2. x * 1 =< x * g /\ y * 1 =< y * e /\ x * g \in Nat /\ y * e \in Nat
    BY <1>1, <1>6, <2>1, ProductsGrow
  <2>3. x * g + y * e \in Nat /\ u =< x * g + y * e
    BY <1>1, <2>2
  <2> QED BY <2>3 DEF g
<1>8. ASSUME NEW l \in S PROVE b[l] \in Nat /\ b[l] > 0 /\ u * b[l] =< Exact(l)
  <2> DEFINE m == Exact(l)
  <2>1. m \in Nat /\ 1 * u =< m
    BY <1>1, <1>7
  <2>2. b[l] = m \div u
    BY <1>3
  <2> HIDE DEF m
  <2>3. m \div u \in Nat /\ 1 =< m \div u
    BY <1>1, <2>1, DivisionBounds
  <2>4. u * (m \div u) =< m
    BY <1>1, <2>1, SMT
  <2>5. b[l] \in Nat /\ b[l] > 0 /\ u * b[l] =< m
    BY <2>2, <2>3, <2>4
  <2> QED BY <2>5 DEF m
<1> DEFINE exact == [l \in S |-> Exact(l)]
           canonical == [l \in S |-> x * given[l]]
           equal == [l \in S |-> y * e]
           scaled == [l \in S |-> u * b[l]]
<1>9. /\ \A l \in S : exact[l] = Exact(l) /\ canonical[l] = x * given[l] /\ equal[l] = y * e
      /\ \A l \in S : scaled[l] = u * b[l] /\ exact[l] = canonical[l] + equal[l]
  OBVIOUS
<1> HIDE DEF Exact, exact, canonical, equal, scaled
<1>10. Numbers(exact, S) /\ Numbers(canonical, S) /\ Numbers(equal, S) /\ Numbers(b, S) /\ Numbers(scaled, S)
  <2>1. \A l \in S : given[l] \in Nat /\ b[l] \in Nat /\ Exact(l) \in Nat
    BY <1>1, <1>7, <1>8
  <2>2. \A i, j \in Nat : i * j \in Nat
    BY ProductsGrow
  <2>3. \A l \in S : /\ exact[l] \in Nat /\ canonical[l] \in Nat /\ equal[l] \in Nat
                     /\ scaled[l] \in Nat
    <3>1. \A l \in S : x * given[l] \in Nat /\ u * b[l] \in Nat
      BY <1>1, <2>1, <2>2
    <3>2. y * e \in Nat
      BY <1>1, <1>6, <2>2
    <3> QED BY <1>9, <2>1, <3>1, <3>2
  <2> QED BY <2>1, <2>3 DEF Numbers
<1>11. /\ Sum(canonical, S) = x * u /\ Sum(equal, S) = (y * e) * n /\ Sum(scaled, S) = u * Sum(b, S)
       /\ Sum(exact, S) = Sum(canonical, S) + Sum(equal, S)
  <2>1. y * e \in Nat
    BY <1>1, <1>6, ProductsGrow
  <2>2. Sum(canonical, S) = x * Sum(given, S)
    BY <1>1, <1>9, SumsScale
  <2>3. Sum(equal, S) = (y * e) * n
    BY <1>1, <1>9, <2>1, SumsOfEquals DEF n
  <2>4. Sum(scaled, S) = u * Sum(b, S)
    BY <1>1, <1>9, <1>10, SumsScale
  <2>5. Sum(exact, S) = Sum(canonical, S) + Sum(equal, S)
    BY <1>1, <1>9, <1>10, SumsAdd
  <2> QED BY <1>4, <2>2, <2>3, <2>4, <2>5
<1>12. Sum(scaled, S) =< Sum(exact, S)
  <2>1. \A l \in S : scaled[l] =< exact[l]
    BY <1>8, <1>9
  <2> QED BY <1>1, <1>10, <2>1, SumsCompare
<1>13. Sum(b, S) \in Nat
  BY <1>1, <1>10, SumsAreNumbers
<1>14. Sum(b, S) =< u
  <2> DEFINE s == Sum(b, S)
  <2>1. s \in Nat /\ u * s =< x * u + (y * e) * n
    BY <1>11, <1>12, <1>13
  <2> HIDE DEF s
  <2>2. (y * e) * n = y * (e * n) /\ e * n \in Nat
    BY <1>1, <1>2, <1>6
  <2>3. y * (e * n) =< y * u /\ y * u \in Nat /\ x * u \in Nat /\ y * (e * n) \in Nat
    BY <1>1, <1>6, <2>2, ProductsGrow
  <2>4. x * u + y * u = (x + y) * u
    BY <1>1
  <2>5. u * s =< u * u
    <3>1. u * s \in Nat
      BY <1>1, <2>1, ProductsGrow
    <3>2. x * u + y * u = u * u
      BY <1>1, <2>4
    <3> QED BY <2>1, <2>2, <2>3, <3>1, <3>2
  <2>6. s =< u
    <3>1. SUFFICES ASSUME u + 1 =< s PROVE FALSE
      BY <1>1, <2>1
    <3>2. u * (u + 1) =< u * s
      BY <1>1, <2>1, <3>1, ProductsGrow
    <3>3. u * (u + 1) = u * u + u /\ u * u \in Nat /\ u * s \in Nat
      BY <1>1, <2>1, ProductsGrow
    <3> QED BY <1>1, <2>5, <3>2, <3>3
  <2> QED BY <2>6 DEF s
<1> QED BY <1>3, <1>8, <1>13, <1>14 DEF b, S, u

\* There is a largest share to give what is left to, and nothing of the whole is lost.
LEMMA RelationshipsAreShares ==
    ASSUME ValidContract, NEW c, AreWeights(catalog.weights[c])
    PROVE  /\ AreShares(Composite!Relationships(c))
           /\ DOMAIN Composite!Relationships(c) = DOMAIN catalog.weights[c]
<1> DEFINE given == catalog.weights[c]
           S == DOMAIN given
           b == Composite!Blended(given)
           rest == Composite!Unit - Composite!Total(b)
           Largest(l) == l \in S /\ \A k \in S : b[k] < b[l] \/ (b[k] = b[l] /\ k =< l)
           m == CHOOSE l \in DOMAIN b : \A k \in DOMAIN b : b[k] < b[l] \/ (b[k] = b[l] /\ k =< l)
           r == Composite!Relationships(c)
<1>1. DOMAIN b = S /\ (\A l \in S : b[l] \in Nat /\ b[l] > 0) /\ Sum(b, S) \in Nat /\ Sum(b, S) =< Composite!Unit
  BY BlendedShares
<1>2. IsFiniteSet(S) /\ S # {} /\ S \subseteq Int /\ Composite!Unit \in Nat
  BY UnitIs DEF AreWeights
<1>3. r = [b EXCEPT ![m] = b[m] + rest]
  BY Zenon DEF Composite!Relationships
<1> HIDE DEF b, S, given, r
<1>4. \E l : Largest(l)
  <2> DEFINE R == {pq \in S \X S : b[pq[1]] < b[pq[2]] \/ (b[pq[1]] = b[pq[2]] /\ pq[1] < pq[2])}
  <2>1. \A p, q \in S : <<p, q>> \in R <=> b[p] < b[q] \/ (b[p] = b[q] /\ p < q)
    OBVIOUS
  <2> HIDE DEF R
  <2>2. Orders(R, S)
    <3>1. \A p, q \in S : p # q => <<p, q>> \in R \/ <<q, p>> \in R
      BY <1>1, <1>2, <2>1
    <3>2. \A p, q, s \in S : <<p, q>> \in R /\ <<q, s>> \in R => <<p, s>> \in R
      BY <1>1, <1>2, <2>1
    <3> QED BY <3>1, <3>2 DEF Orders
  <2>3. PICK l : IsLast(l, S, R)
    BY <1>2, <2>2, LastExists
  <2>4. l \in S /\ \A k \in S : k # l => b[k] < b[l] \/ (b[k] = b[l] /\ k < l)
    BY <2>1, <2>3 DEF IsLast
  <2>5. \A k \in S : b[k] < b[l] \/ (b[k] = b[l] /\ k =< l)
    BY <1>1, <1>2, <2>4
  <2> QED BY <2>4, <2>5
<1>5. m \in S
  <2>1. \E l \in DOMAIN b : \A k \in DOMAIN b : b[k] < b[l] \/ (b[k] = b[l] /\ k =< l)
    BY <1>1, <1>4
  <2>2. m \in DOMAIN b
    BY <2>1, Zenon
  <2> QED BY <1>1, <2>2
<1>6. rest \in Nat /\ rest = Composite!Unit - Sum(b, S)
  <2>1. Composite!Total(b) = Sum(b, S)
    BY <1>1, <1>2, CompositeTotalIsTheSum
  <2> QED BY <1>1, <1>2, <2>1
<1> HIDE DEF m, rest, Largest
<1>7. DOMAIN r = S /\ r[m] = b[m] + rest /\ \A l \in S \ {m} : r[l] = b[l]
  BY <1>1, <1>3, <1>5
<1>8. \A l \in S : r[l] \in Nat /\ r[l] > 0
  <2>1. r[m] \in Nat /\ r[m] > 0
    BY <1>1, <1>5, <1>6, <1>7
  <2> QED BY <1>1, <1>7, <2>1
<1>9. Numbers(r, S) /\ Numbers(b, S) /\ Numbers(r, S \ {m}) /\ Numbers(b, S \ {m}) /\ IsFiniteSet(S \ {m})
  <2>1. IsFiniteSet(S \ {m})
    BY <1>2, FS_Subset
  <2> QED BY <1>1, <1>8, <2>1 DEF Numbers
<1>10. Sum(r, S) = r[m] + Sum(r, S \ {m}) /\ Sum(b, S) = b[m] + Sum(b, S \ {m})
  BY <1>2, <1>5, <1>9, SumsAddAnywhere
<1>11. Sum(r, S \ {m}) = Sum(b, S \ {m})
  <2>1. \A l \in S \ {m} : r[l] =< b[l] /\ b[l] =< r[l]
    BY <1>1, <1>7
  <2>2. Sum(r, S \ {m}) =< Sum(b, S \ {m}) /\ Sum(b, S \ {m}) =< Sum(r, S \ {m})
    BY <1>9, <2>1, SumsCompare
  <2>3. Sum(r, S \ {m}) \in Nat /\ Sum(b, S \ {m}) \in Nat
    BY <1>9, SumsAreNumbers
  <2> QED BY <2>2, <2>3
<1>12. Sum(r, S) = Composite!Unit
  <2>1. Sum(b, S \ {m}) \in Nat /\ b[m] \in Nat
    BY <1>1, <1>5, <1>9, SumsAreNumbers
  <2> QED BY <1>1, <1>2, <1>6, <1>7, <1>10, <1>11, <2>1
<1>13. Composite!Total(r) = Composite!Unit
  BY <1>2, <1>7, <1>12, CompositeTotalIsTheSum
<1>14. AreShares(r)
  BY <1>2, <1>7, <1>8, <1>9, <1>13 DEF AreShares
<1> QED BY <1>7, <1>14 DEF r, S, given

-----------------------------------------------------------------------------
(* CompositeProjection: the projection                                      *)

RunIsSane ==
    /\ IsFiniteSet(DOMAIN catalog.family) /\ DOMAIN catalog.family \subseteq Int
    /\ IsFiniteSet(DOMAIN catalog.domain) /\ DOMAIN catalog.domain \subseteq Int
    /\ \A c \in DOMAIN catalog.domain : \A l \in DOMAIN catalog.weights[c] : catalog.weights[c][l] \in Int
    /\ \A l \in DOMAIN catalog.family :
          (assessed[l].estimate # None => IsPart(assessed[l].estimate)) /\ IsPart(assessed[l].confidence)

IsAccepted == RunIsSane /\ ~ Composite!ProjectionIsRefused

LEMMA WhatIsAccepted ==
    ASSUME IsAccepted
    PROVE  /\ ValidContract
           /\ \A f \in Composite!Family : Composite!Assessed(f) # {}
           /\ \A c \in Composite!Competency :
                 AreWeights(catalog.weights[c]) /\ DOMAIN catalog.weights[c] \subseteq Composite!Lever
<1>1. Composite!PolicyIsValid(contract) /\ \A f \in Composite!Family : Composite!Assessed(f) # {}
  BY Zenon DEF IsAccepted, Composite!ProjectionIsRefused
<1>2. ASSUME NEW c \in Composite!Competency
      PROVE  AreWeights(catalog.weights[c]) /\ DOMAIN catalog.weights[c] \subseteq Composite!Lever
  <2> DEFINE given == catalog.weights[c]
  <2>1. /\ DOMAIN given # {} /\ DOMAIN given \subseteq Composite!Lever
        /\ Composite!Total(given) = Composite!Unit /\ \A l \in DOMAIN given : ~ (given[l] =< 0)
    BY Zenon DEF IsAccepted, Composite!ProjectionIsRefused
  <2>2. \A l \in DOMAIN given : given[l] \in Int
    BY DEF IsAccepted, RunIsSane, Composite!Competency
  <2>3. IsFiniteSet(Composite!Lever) /\ Composite!Lever \subseteq Int
    BY DEF IsAccepted, RunIsSane, Composite!Lever
  <2> HIDE DEF given
  <2>4. \A l \in DOMAIN given : given[l] \in Nat /\ given[l] > 0
    BY <2>1, <2>2
  <2>5. IsFiniteSet(DOMAIN given) /\ DOMAIN given \subseteq Int
    BY <2>1, <2>3, FS_Subset
  <2>6. AreWeights(given)
    BY <2>1, <2>4, <2>5 DEF AreWeights
  <2> QED BY <2>1, <2>6 DEF given
<1> QED BY <1>1, <1>2, ContractIsValid

Weights == [c \in Composite!Competency |-> Composite!Relationships(c)]

LEMMA WeightsAreKept ==
    ASSUME IsAccepted, NEW c \in Composite!Competency
    PROVE  AreShares(Weights[c]) /\ DOMAIN Weights[c] \subseteq Composite!Lever
<1>1. Weights[c] = Composite!Relationships(c)
  BY DEF Weights
<1> QED BY <1>1, WhatIsAccepted, RelationshipsAreShares

LEMMA DomainsHaveMembers ==
    ASSUME RunIsSane, NEW d \in Composite!Domain
    PROVE  /\ IsFiniteSet(Composite!Mapping(d)) /\ Composite!Mapping(d) # {}
           /\ Composite!Mapping(d) \subseteq Composite!Competency
<1>1. Composite!Mapping(d) = {c \in DOMAIN catalog.domain : catalog.domain[c] = d}
  BY DEF Composite!Mapping, Composite!Competency
<1>2. \E c \in DOMAIN catalog.domain : d = catalog.domain[c]
  BY DEF Composite!Domain, Composite!Range
<1>3. IsFiniteSet(DOMAIN catalog.domain)
  BY DEF RunIsSane
<1> QED BY <1>1, <1>2, <1>3, FS_Subset DEF Composite!Competency

LEMMA DomainsExist ==
    /\ \A c \in Composite!Competency : catalog.domain[c] \in Composite!Domain
    /\ \A l \in Composite!Lever : catalog.family[l] \in Composite!Family
BY DEF Composite!Competency, Composite!Domain, Composite!Lever, Composite!Family, Composite!Range

\* A domain and a competency stay between what all levers and all families say.
LEMMA BlendedNumbers ==
    ASSUME IsAccepted, NEW lo \in Nat, NEW hi \in Nat,
           NEW v, AllBetween(v, Composite!Lever, lo, hi), NEW w, AllBetween(w, Composite!Lever, lo, hi)
    PROVE  /\ \A d \in Composite!Domain : Between(Composite!OfDomain(d, Weights, v), lo, hi)
           /\ \A c \in Composite!Competency : Between(Composite!OfCompetency(c, Weights, v, w), lo, hi)
<1>1. ASSUME NEW c \in Composite!Competency
      PROVE  /\ Between(Composite!Mapped(Weights[c], v), lo, hi)
             /\ Between(Composite!Mapped(Weights[c], w), lo, hi)
  <2>1. AreShares(Weights[c]) /\ DOMAIN Weights[c] \subseteq Composite!Lever
    BY WeightsAreKept
  <2>2. AllBetween(v, DOMAIN Weights[c], lo, hi) /\ AllBetween(w, DOMAIN Weights[c], lo, hi)
    BY <2>1 DEF AllBetween
  <2> QED BY <2>1, <2>2, MappedStays
<1>2. ASSUME NEW d \in Composite!Domain PROVE Between(Composite!OfDomain(d, Weights, v), lo, hi)
  <2> DEFINE S == Composite!Mapping(d)
             f == [c \in S |-> Composite!Mapped(Weights[c], v)]
  <2>1. IsFiniteSet(S) /\ S # {} /\ S \subseteq Composite!Competency
    BY DomainsHaveMembers DEF IsAccepted
  <2>2. Composite!OfDomain(d, Weights, v) = Composite!Mean(f)
    BY Zenon DEF Composite!OfDomain
  <2> HIDE DEF S
  <2>3. DOMAIN f = S /\ \A c \in S : f[c] = Composite!Mapped(Weights[c], v)
    OBVIOUS
  <2> HIDE DEF f
  <2>4. AllBetween(f, S, lo, hi)
    BY <1>1, <2>1, <2>3 DEF AllBetween
  <2>5. Between(Composite!Mean(f), lo, hi)
    BY <2>1, <2>3, <2>4, MeansStayBetween
  <2> QED BY <2>2, <2>5
<1>3. ASSUME NEW c \in Composite!Competency
      PROVE  Between(Composite!OfCompetency(c, Weights, v, w), lo, hi)
  <2> DEFINE a == Composite!Mapped(Weights[c], v)
             b == Composite!Mapped(Weights[c], w)
             e == Composite!OfDomain(catalog.domain[c], Weights, v)
  <2>1. Between(a, lo, hi) /\ Between(b, lo, hi) /\ Between(e, lo, hi)
    BY <1>1, <1>2, DomainsExist
  <2>2. Composite!OfCompetency(c, Weights, v, w) =
            (contract.lever * a + contract.family * b + contract.domain * e) \div Composite!Unit
    BY Zenon DEF Composite!OfCompetency
  <2> HIDE DEF a, b, e
  <2>3. /\ contract.lever \in Nat /\ contract.family \in Nat /\ contract.domain \in Nat
        /\ contract.lever + contract.family + contract.domain = Composite!Unit
    BY WhatIsAccepted DEF ValidContract, IsPart
  <2> QED BY <2>1, <2>2, <2>3, BlendsStay
<1> QED BY <1>2, <1>3

\* The rows of levers and of their families.
FamilyOf(l) == Composite!FamilyRow(catalog.family[l])
LeverOf(l) == Composite!LeverRow(l, FamilyOf(l))
LeverEstimates == [l \in Composite!Lever |-> LeverOf(l).estimate]
LeverConfidences == [l \in Composite!Lever |-> LeverOf(l).confidence]
FamilyEstimates == [l \in Composite!Lever |-> FamilyOf(l).estimate]
FamilyConfidences == [l \in Composite!Lever |-> FamilyOf(l).confidence]

LEMMA FamilyNumbers ==
    ASSUME IsAccepted, NEW f \in Composite!Family
    PROVE  /\ \A lo, hi \in Nat : (\A l \in Composite!Assessed(f) : Between(assessed[l].estimate, lo, hi))
                                    => Between(Composite!FamilyRow(f).estimate, lo, hi)
           /\ IsPart(Composite!FamilyRow(f).confidence)
<1> DEFINE S == Composite!Assessed(f)
           e == [l \in S |-> assessed[l].estimate]
           k == [l \in S |-> assessed[l].confidence]
<1>1. S \subseteq Composite!Lever /\ IsFiniteSet(S) /\ S # {}
  <2>1. S \subseteq DOMAIN catalog.family /\ S \subseteq Composite!Lever
    BY DEF Composite!Assessed, Composite!Members, Composite!Lever
  <2>2. IsFiniteSet(DOMAIN catalog.family)
    BY DEF IsAccepted, RunIsSane
  <2>3. S # {}
    BY WhatIsAccepted
  <2> HIDE DEF S
  <2> QED BY <2>1, <2>2, <2>3, FS_Subset
<1>2. Composite!FamilyRow(f) = [estimate |-> Composite!WeightedMean(e, k), confidence |-> Composite!Mean(k)]
  BY Zenon DEF Composite!FamilyRow
<1> HIDE DEF S
<1>3. DOMAIN e = S /\ DOMAIN k = S /\ \A l \in S : e[l] = assessed[l].estimate /\ k[l] = assessed[l].confidence
  OBVIOUS
<1> HIDE DEF e, k
<1>4. \A l \in S : IsPart(assessed[l].confidence)
  BY <1>1 DEF IsAccepted, RunIsSane, Composite!Lever
<1>5. Numbers(k, S) /\ AllBetween(k, S, 0, Composite!Unit)
  BY <1>3, <1>4 DEF Numbers, AllBetween, Between, IsPart
<1>6. Between(Composite!Mean(k), 0, Composite!Unit)
  BY <1>1, <1>3, <1>5, UnitIs, MeansStayBetween
<1>7. ASSUME NEW lo \in Nat, NEW hi \in Nat, \A l \in S : Between(assessed[l].estimate, lo, hi)
      PROVE  Between(Composite!WeightedMean(e, k), lo, hi)
  <2>1. AllBetween(e, S, lo, hi)
    BY <1>3, <1>7 DEF AllBetween
  <2> QED BY <1>1, <1>3, <1>5, <2>1, WeightedMeansStay
<1>8. Composite!FamilyRow(f).estimate = Composite!WeightedMean(e, k) /\ Composite!FamilyRow(f).confidence = Composite!Mean(k)
  BY <1>2
<1> QED BY <1>6, <1>7, <1>8 DEF Between, IsPart, S

\* An assessed lever is what was said of it; another is as its family, with less certainty.
LEMMA LeverNumbers ==
    ASSUME IsAccepted, NEW l \in Composite!Lever
    PROVE  /\ IsPart(FamilyOf(l).estimate) /\ IsPart(FamilyOf(l).confidence)
           /\ IsPart(LeverOf(l).estimate) /\ IsPart(LeverOf(l).confidence)
           /\ assessed[l].estimate # None => LeverOf(l).estimate = assessed[l].estimate
           /\ assessed[l].estimate = None =>
                 /\ LeverOf(l).estimate = FamilyOf(l).estimate
                 /\ LeverOf(l).confidence = Portion(FamilyOf(l).confidence, contract.inherited)
<1> DEFINE f == catalog.family[l]
           F == FamilyOf(l)
           L == LeverOf(l)
<1>1. f \in Composite!Family
  BY DomainsExist
<1>2. \A k \in Composite!Assessed(f) : Between(assessed[k].estimate, 0, Composite!Unit)
  <2>1. \A k \in Composite!Assessed(f) : k \in DOMAIN catalog.family /\ assessed[k].estimate # None
    BY DEF Composite!Assessed, Composite!Members, Composite!Lever
  <2>2. \A k \in Composite!Assessed(f) : IsPart(assessed[k].estimate)
    BY <2>1 DEF IsAccepted, RunIsSane
  <2> QED BY <2>2 DEF IsPart, Between
<1>3. IsPart(F.estimate) /\ IsPart(F.confidence)
  <2>1. Between(Composite!FamilyRow(f).estimate, 0, Composite!Unit)
    BY <1>1, <1>2, UnitIs, FamilyNumbers
  <2>2. IsPart(Composite!FamilyRow(f).confidence)
    BY <1>1, FamilyNumbers
  <2> QED BY <2>1, <2>2 DEF Between, IsPart, FamilyOf
<1>4. L = IF assessed[l].estimate = None
            THEN [estimate |-> F.estimate, confidence |-> Portion(F.confidence, contract.inherited)]
            ELSE assessed[l]
  BY Zenon DEF Composite!LeverRow, LeverOf, Portion
<1>5. (assessed[l].estimate # None => IsPart(assessed[l].estimate)) /\ IsPart(assessed[l].confidence)
  BY DEF IsAccepted, RunIsSane, Composite!Lever
<1>6. IsPart(contract.inherited)
  BY WhatIsAccepted DEF ValidContract
<1>7. IsPart(Portion(F.confidence, contract.inherited))
  BY <1>3, <1>6, PortionsCommute
<1> HIDE DEF F, L
<1>8. CASE assessed[l].estimate = None
  <2>1. L.estimate = F.estimate /\ L.confidence = Portion(F.confidence, contract.inherited)
    BY <1>4, <1>8
  <2> QED BY <1>3, <1>7, <1>8, <2>1 DEF F, L
<1>9. CASE assessed[l].estimate # None
  <2>1. L = assessed[l]
    BY <1>4, <1>9
  <2> QED BY <1>3, <1>5, <1>9, <2>1 DEF F, L
<1> QED BY <1>8, <1>9

Family(f) == Composite!FamilyRow(f)
FamilyRows == [f \in Composite!Family |-> Composite!Row(Family(f).estimate, Family(f).confidence)]
LeverRows == [l \in Composite!Lever |-> Composite!Row(LeverEstimates[l], LeverConfidences[l])]
DomainRows ==
    [d \in Composite!Domain |-> Composite!Row(Composite!OfDomain(d, Weights, LeverEstimates),
                                             Composite!OfDomain(d, Weights, LeverConfidences))]
CompetencyRows ==
    [c \in Composite!Competency |->
        Composite!Row(Composite!OfCompetency(c, Weights, LeverEstimates, FamilyEstimates),
                      Composite!OfCompetency(c, Weights, LeverConfidences, FamilyConfidences))]
ProjectedRows ==
    [status |-> "projected", relationships |-> Weights,
     inherited |-> {l \in Composite!Lever : assessed[l].estimate = None},
     families |-> FamilyRows, levers |-> LeverRows, domains |-> DomainRows, competencies |-> CompetencyRows]

LEMMA ProjectionIs == Composite!Projection = ProjectedRows
<1> DEFINE families == [f \in Composite!Family |-> Composite!FamilyRow(f)]
           levers == [l \in Composite!Lever |-> Composite!LeverRow(l, families[catalog.family[l]])]
           le == [l \in Composite!Lever |-> levers[l].estimate]
           lc == [l \in Composite!Lever |-> levers[l].confidence]
           fe == [l \in Composite!Lever |-> families[catalog.family[l]].estimate]
           fc == [l \in Composite!Lever |-> families[catalog.family[l]].confidence]
           fr == [f \in Composite!Family |-> Composite!Row(families[f].estimate, families[f].confidence)]
           lr == [l \in Composite!Lever |-> Composite!Row(levers[l].estimate, levers[l].confidence)]
<1>1. Composite!Projection =
          [status |-> "projected",
           relationships |-> Weights,
           inherited |-> {l \in Composite!Lever : assessed[l].estimate = None},
           families |-> fr, levers |-> lr,
           domains |-> [d \in Composite!Domain |-> Composite!Row(Composite!OfDomain(d, Weights, le),
                                                               Composite!OfDomain(d, Weights, lc))],
           competencies |->
              [c \in Composite!Competency |->
                  Composite!Row(Composite!OfCompetency(c, Weights, le, fe),
                                Composite!OfCompetency(c, Weights, lc, fc))]]
  BY Zenon DEF Composite!Projection, Weights
<1>2. \A f \in Composite!Family : families[f] = Family(f)
  BY DEF Family
<1> HIDE DEF families
<1>3. \A l \in Composite!Lever : families[catalog.family[l]] = FamilyOf(l)
  BY <1>2, DomainsExist DEF Family, FamilyOf
<1>4. \A l \in Composite!Lever : levers[l] = LeverOf(l)
  BY <1>3 DEF LeverOf
<1> HIDE DEF levers
<1>5. le = LeverEstimates /\ lc = LeverConfidences
  BY <1>4 DEF LeverEstimates, LeverConfidences
<1>6. fe = FamilyEstimates /\ fc = FamilyConfidences
  BY <1>3 DEF FamilyEstimates, FamilyConfidences
<1>7. fr = FamilyRows
  BY <1>2 DEF FamilyRows
<1>8. lr = LeverRows
  BY <1>4 DEF LeverRows, LeverEstimates, LeverConfidences
<1> HIDE DEF le, lc, fe, fc, fr, lr
<1> QED BY <1>1, <1>5, <1>6, <1>7, <1>8, Zenon DEF ProjectedRows, DomainRows, CompetencyRows

LEMMA RowsOf ==
    ASSUME NEW p, p = Composite!Projection
    PROVE  /\ p.status = "projected" /\ p.relationships = Weights
           /\ p.inherited = {l \in Composite!Lever : assessed[l].estimate = None}
           /\ p.families = FamilyRows /\ p.levers = LeverRows
           /\ p.domains = DomainRows /\ p.competencies = CompetencyRows
BY ProjectionIs DEF ProjectedRows

\* A row of numbers that are parts of one.
GoodRow(row) == IsPart(row.estimate) /\ IsPart(row.confidence) /\ IsPart(row.need)

LEMMA RowsAreGood ==
    ASSUME ValidContract, NEW e, IsPart(e), NEW k, IsPart(k)
    PROVE  /\ GoodRow(Composite!Row(e, k))
           /\ Composite!Row(e, k).estimate = e /\ Composite!Row(e, k).confidence = k
           /\ Composite!Row(e, k).need = Composite!StartingNeed(e, k)
<1>1. /\ Composite!Row(e, k).estimate = e /\ Composite!Row(e, k).confidence = k
      /\ Composite!Row(e, k).need = Composite!StartingNeed(e, k)
  BY DEF Composite!Row
<1>2. IsPart(Composite!StartingNeed(e, k))
  BY StartingNeeds
<1> QED BY <1>1, <1>2 DEF GoodRow

LEMMA LeverColumns ==
    ASSUME IsAccepted
    PROVE  /\ AllBetween(LeverEstimates, Composite!Lever, 0, Composite!Unit)
           /\ AllBetween(LeverConfidences, Composite!Lever, 0, Composite!Unit)
           /\ AllBetween(FamilyEstimates, Composite!Lever, 0, Composite!Unit)
           /\ AllBetween(FamilyConfidences, Composite!Lever, 0, Composite!Unit)
<1>1. ASSUME NEW l \in Composite!Lever
      PROVE  /\ LeverEstimates[l] = LeverOf(l).estimate /\ LeverConfidences[l] = LeverOf(l).confidence
             /\ FamilyEstimates[l] = FamilyOf(l).estimate /\ FamilyConfidences[l] = FamilyOf(l).confidence
  BY DEF LeverEstimates, LeverConfidences, FamilyEstimates, FamilyConfidences
<1>2. \A x : IsPart(x) => Between(x, 0, Composite!Unit)
  BY DEF IsPart, Between
<1> QED BY <1>1, <1>2, LeverNumbers DEF AllBetween

LEMMA RowsOfLevers ==
    ASSUME IsAccepted, NEW p, p = Composite!Projection, NEW l \in Composite!Lever
    PROVE  /\ GoodRow(p.levers[l]) /\ p.levers[l].estimate = LeverOf(l).estimate
           /\ p.levers[l].confidence = LeverOf(l).confidence
           /\ p.levers[l].need = Composite!StartingNeed(LeverOf(l).estimate, LeverOf(l).confidence)
<1>1. p.levers[l] = Composite!Row(LeverOf(l).estimate, LeverOf(l).confidence)
  BY RowsOf DEF LeverRows, LeverEstimates, LeverConfidences
<1> QED BY <1>1, WhatIsAccepted, LeverNumbers, RowsAreGood

LEMMA RowsOfFamilies ==
    ASSUME IsAccepted, NEW p, p = Composite!Projection, NEW f \in Composite!Family
    PROVE  /\ GoodRow(p.families[f]) /\ p.families[f].estimate = Family(f).estimate
           /\ p.families[f].confidence = Family(f).confidence
           /\ p.families[f].need = Composite!StartingNeed(Family(f).estimate, Family(f).confidence)
<1>1. p.families[f] = Composite!Row(Family(f).estimate, Family(f).confidence)
  BY RowsOf DEF FamilyRows
<1>2. PICK l \in Composite!Lever : f = catalog.family[l]
  BY DEF Composite!Family, Composite!Range, Composite!Lever
<1>3. Family(f) = FamilyOf(l)
  BY <1>2 DEF Family, FamilyOf
<1>4. IsPart(Family(f).estimate) /\ IsPart(Family(f).confidence)
  BY <1>3, LeverNumbers
<1> QED BY <1>1, <1>4, WhatIsAccepted, RowsAreGood

LEMMA RowsOfDomains ==
    ASSUME IsAccepted, NEW p, p = Composite!Projection, NEW d \in Composite!Domain
    PROVE  GoodRow(p.domains[d])
<1> DEFINE e == Composite!OfDomain(d, Weights, LeverEstimates)
           k == Composite!OfDomain(d, Weights, LeverConfidences)
<1>1. p.domains[d] = Composite!Row(e, k)
  BY RowsOf DEF DomainRows
<1>2. Between(e, 0, Composite!Unit) /\ Between(k, 0, Composite!Unit)
  BY UnitIs, LeverColumns, BlendedNumbers
<1> HIDE DEF e, k
<1>3. IsPart(e) /\ IsPart(k)
  BY <1>2 DEF IsPart, Between
<1> QED BY <1>1, <1>3, WhatIsAccepted, RowsAreGood

LEMMA RowsOfCompetencies ==
    ASSUME IsAccepted, NEW p, p = Composite!Projection, NEW c \in Composite!Competency
    PROVE  /\ GoodRow(p.competencies[c])
           /\ p.competencies[c].estimate = Composite!OfCompetency(c, Weights, LeverEstimates, FamilyEstimates)
<1> DEFINE e == Composite!OfCompetency(c, Weights, LeverEstimates, FamilyEstimates)
           k == Composite!OfCompetency(c, Weights, LeverConfidences, FamilyConfidences)
<1>1. p.competencies[c] = Composite!Row(e, k)
  BY RowsOf DEF CompetencyRows
<1>2. Between(e, 0, Composite!Unit) /\ Between(k, 0, Composite!Unit)
  BY UnitIs, LeverColumns, BlendedNumbers
<1> HIDE DEF e, k
<1>3. IsPart(e) /\ IsPart(k)
  BY <1>2 DEF IsPart, Between
<1> QED BY <1>1, <1>3, WhatIsAccepted, RowsAreGood DEF e

LEMMA ProjectedInRange ==
    ASSUME IsAccepted, NEW p, p = Composite!Projection
    PROVE  /\ Composite!InUnit(p.families) /\ Composite!InUnit(p.levers)
           /\ Composite!InUnit(p.domains) /\ Composite!InUnit(p.competencies)
           /\ \A c \in Composite!Competency :
                 /\ Composite!Total(p.relationships[c]) = Composite!Unit
                 /\ \A l \in DOMAIN p.relationships[c] : p.relationships[c][l] > 0
<1>1. ASSUME NEW rows, \A i \in DOMAIN rows : GoodRow(rows[i]) PROVE Composite!InUnit(rows)
  <2>1. ASSUME NEW i \in DOMAIN rows
        PROVE  {rows[i].estimate, rows[i].confidence, rows[i].need} \subseteq 0 .. Composite!Unit
    <3>1. IsPart(rows[i].estimate) /\ IsPart(rows[i].confidence) /\ IsPart(rows[i].need)
      BY <1>1 DEF GoodRow
    <3> QED BY <3>1, PartsAre
  <2> QED BY <2>1, Zenon DEF Composite!InUnit
<1>2. /\ DOMAIN p.families = Composite!Family /\ DOMAIN p.levers = Composite!Lever
      /\ DOMAIN p.domains = Composite!Domain /\ DOMAIN p.competencies = Composite!Competency
  BY RowsOf DEF FamilyRows, LeverRows, DomainRows, CompetencyRows
<1>3. Composite!InUnit(p.families)
  BY <1>1, <1>2, RowsOfFamilies
<1>4. Composite!InUnit(p.levers)
  BY <1>1, <1>2, RowsOfLevers
<1>5. Composite!InUnit(p.domains)
  BY <1>1, <1>2, RowsOfDomains
<1>6. Composite!InUnit(p.competencies)
  BY <1>1, <1>2, RowsOfCompetencies
<1>7. ASSUME NEW c \in Composite!Competency
      PROVE  /\ Composite!Total(p.relationships[c]) = Composite!Unit
             /\ \A l \in DOMAIN p.relationships[c] : p.relationships[c][l] > 0
  <2>1. p.relationships[c] = Weights[c]
    BY RowsOf
  <2> QED BY <2>1, WeightsAreKept DEF AreShares
<1> QED BY <1>3, <1>4, <1>5, <1>6, <1>7

\* Some lever has the lowest and some the highest of the numbers.
LEMMA ExtremesExist ==
    ASSUME NEW S, IsFiniteSet(S), S # {}, S \subseteq Int, NEW v, \A l \in S : v[l] \in Nat
    PROVE  \E k, m \in S : AllBetween(v, S, v[k], v[m])
<1> DEFINE R == {pq \in S \X S : v[pq[1]] < v[pq[2]] \/ (v[pq[1]] = v[pq[2]] /\ pq[1] < pq[2])}
           Q == {pq \in S \X S : v[pq[1]] > v[pq[2]] \/ (v[pq[1]] = v[pq[2]] /\ pq[1] < pq[2])}
<1>1. \A p, q \in S : /\ <<p, q>> \in R <=> v[p] < v[q] \/ (v[p] = v[q] /\ p < q)
                      /\ <<p, q>> \in Q <=> v[p] > v[q] \/ (v[p] = v[q] /\ p < q)
  OBVIOUS
<1> HIDE DEF R, Q
<1>2. Orders(R, S) /\ Orders(Q, S)
  <2>1. \A p, q \in S : p # q => (<<p, q>> \in R \/ <<q, p>> \in R) /\ (<<p, q>> \in Q \/ <<q, p>> \in Q)
    BY <1>1
  <2>2. \A p, q, s \in S : <<p, q>> \in R /\ <<q, s>> \in R => <<p, s>> \in R
    BY <1>1
  <2>3. \A p, q, s \in S : <<p, q>> \in Q /\ <<q, s>> \in Q => <<p, s>> \in Q
    BY <1>1
  <2> QED BY <2>1, <2>2, <2>3 DEF Orders
<1>3. PICK m : IsLast(m, S, R)
  BY <1>2, LastExists
<1>4. PICK k : IsLast(k, S, Q)
  BY <1>2, LastExists
<1>5. m \in S /\ \A l \in S : v[l] =< v[m]
  <2>1. m \in S /\ \A l \in S : l # m => v[l] < v[m] \/ v[l] = v[m]
    BY <1>1, <1>3 DEF IsLast
  <2> QED BY <2>1
<1>6. k \in S /\ \A l \in S : v[k] =< v[l]
  <2>1. k \in S /\ \A l \in S : l # k => v[l] > v[k] \/ v[l] = v[k]
    BY <1>1, <1>4 DEF IsLast
  <2> QED BY <2>1
<1> QED BY <1>5, <1>6 DEF AllBetween, Between

LEMMA ProjectedModestly ==
    ASSUME IsAccepted, NEW p, p = Composite!Projection
    PROVE  /\ \A l \in p.inherited :
                 LET f == p.families[catalog.family[l]]
                 IN  /\ p.levers[l].confidence * Composite!Unit =< f.confidence * contract.inherited
                     /\ p.levers[l].need =< f.need
           /\ \A c \in Composite!Competency :
                 \E k, l \in Composite!Lever :
                    /\ p.levers[k].estimate =< p.competencies[c].estimate
                    /\ p.competencies[c].estimate =< p.levers[l].estimate
<1>1. ASSUME NEW l \in p.inherited
      PROVE  LET f == p.families[catalog.family[l]]
             IN  /\ p.levers[l].confidence * Composite!Unit =< f.confidence * contract.inherited
                 /\ p.levers[l].need =< f.need
  <2> DEFINE f == catalog.family[l]
             k == Family(f).confidence
             e == Family(f).estimate
             j == Portion(k, contract.inherited)
  <2>1. l \in Composite!Lever /\ assessed[l].estimate = None
    BY RowsOf
  <2>2. f \in Composite!Family
    BY <2>1, DomainsExist
  <2>3. FamilyOf(l) = Family(f)
    BY DEF FamilyOf, Family
  <2>4. IsPart(e) /\ IsPart(k) /\ LeverOf(l).estimate = e /\ LeverOf(l).confidence = j
    BY <2>1, <2>3, LeverNumbers
  <2>5. p.levers[l].confidence = j /\ p.levers[l].need = Composite!StartingNeed(e, j)
    BY <2>1, <2>4, RowsOfLevers
  <2>6. p.families[f].confidence = k /\ p.families[f].need = Composite!StartingNeed(e, k)
    BY <2>2, RowsOfFamilies
  <2>7. ValidContract /\ IsPart(contract.inherited)
    BY WhatIsAccepted DEF ValidContract
  <2> HIDE DEF f, k, e
  <2>8. j =< k /\ j * Composite!Unit =< k * contract.inherited
    <3>1. k \in Nat
      BY <2>4 DEF IsPart
    <3> QED BY <2>7, <3>1, PortionBounds
  <2>9. IsPart(j)
    BY <2>4, <2>7, PortionsCommute
  <2> HIDE DEF j
  <2>10. Composite!StartingNeed(e, j) =< Composite!StartingNeed(e, k)
    BY <2>4, <2>7, <2>8, <2>9, StartingNeeds
  <2> QED BY <2>5, <2>6, <2>8, <2>10 DEF f
<1>2. ASSUME NEW c \in Composite!Competency
      PROVE  \E k, l \in Composite!Lever :
                /\ p.levers[k].estimate =< p.competencies[c].estimate
                /\ p.competencies[c].estimate =< p.levers[l].estimate
  <2> DEFINE v == LeverEstimates
             S == Composite!Lever
  <2>1. IsFiniteSet(S) /\ S \subseteq Int /\ S # {}
    <3>1. IsFiniteSet(S) /\ S \subseteq Int
      BY DEF IsAccepted, RunIsSane, Composite!Lever
    <3>2. DOMAIN catalog.weights[c] # {} /\ DOMAIN catalog.weights[c] \subseteq S
      BY WhatIsAccepted DEF AreWeights
    <3> QED BY <3>1, <3>2
  <2>2. \A l \in S : v[l] = LeverOf(l).estimate
    BY DEF LeverEstimates
  <2> HIDE DEF v
  <2>3. \A l \in S : v[l] \in Nat
    BY <2>2, LeverNumbers DEF IsPart
  <2> HIDE DEF S
  <2>4. PICK k \in S, m \in S : AllBetween(v, S, v[k], v[m])
    BY <2>1, <2>3, ExtremesExist
  <2>5. v[k] \in Nat /\ v[m] \in Nat
    BY <2>3
  <2>6. AllBetween(FamilyEstimates, S, v[k], v[m])
    <3>1. ASSUME NEW l \in S PROVE Between(FamilyEstimates[l], v[k], v[m])
      <4> DEFINE f == catalog.family[l]
      <4>1. f \in Composite!Family
        BY DomainsExist DEF S
      <4>2. ASSUME NEW i \in Composite!Assessed(f) PROVE Between(assessed[i].estimate, v[k], v[m])
        <5>1. i \in S /\ assessed[i].estimate # None
          BY DEF Composite!Assessed, Composite!Members, S
        <5>2. v[i] = assessed[i].estimate
          BY <2>2, <5>1, LeverNumbers DEF S
        <5> QED BY <2>4, <5>1, <5>2 DEF AllBetween
      <4>3. Between(Composite!FamilyRow(f).estimate, v[k], v[m])
        BY <2>5, <4>1, <4>2, FamilyNumbers
      <4>4. FamilyEstimates[l] = Composite!FamilyRow(f).estimate
        BY DEF FamilyEstimates, FamilyOf, S
      <4> QED BY <4>3, <4>4
    <3> QED BY <3>1 DEF AllBetween
  <2>7. Between(p.competencies[c].estimate, v[k], v[m])
    BY <2>4, <2>5, <2>6, BlendedNumbers, RowsOfCompetencies DEF v, S
  <2>8. p.levers[k].estimate = v[k] /\ p.levers[m].estimate = v[m]
    BY <2>2, RowsOfLevers DEF S
  <2> QED BY <2>7, <2>8 DEF Between, S
<1> QED BY <1>1, <1>2

-----------------------------------------------------------------------------
(* CompositeProjection: the completion state                                *)

LEMMA RanksAreAnOrder ==
    ASSUME RunIsSane, NEW priority, \A c \in Composite!Competency : priority[c] \in Nat
    PROVE  LET rank == Composite!Ranks(priority) IN
           /\ Composite!Range(rank) = 1 .. Composite!Cardinality(Composite!Competency)
           /\ \A c, d \in Composite!Competency : priority[c] > priority[d] => rank[c] < rank[d]
<1> DEFINE C == Composite!Competency
           N == Cardinality(C)
           rank == Composite!Ranks(priority)
           Ahead(c) == {d \in C : Before(priority, d, c)}
<1>1. IsFiniteSet(C) /\ C \subseteq Int
  BY DEF RunIsSane, Composite!Competency
<1>2. rank = [c \in C |-> 1 + Cardinality(Ahead(c))]
  BY CompositeCardinality, Zenon DEF Composite!Ranks, Before
<1>13. \A c \in C : priority[c] \in Nat
  OBVIOUS
<1> HIDE DEF C, rank
<1>3. N \in Nat /\ \A c \in C : IsFiniteSet(Ahead(c)) /\ Cardinality(Ahead(c)) \in Nat
  BY <1>1, FS_Subset, FS_CardinalityType
<1>4. \A c \in C : ~ Before(priority, c, c)
  BY <1>1, <1>13 DEF Before
<1>5. \A c, d \in C : c # d => Before(priority, c, d) \/ Before(priority, d, c)
  BY <1>1, <1>13 DEF Before
<1>6. \A b, c, d \in C : Before(priority, b, c) /\ Before(priority, c, d) => Before(priority, b, d)
  BY <1>1, <1>13 DEF Before
<1>7. ASSUME NEW c \in C, NEW d \in C, Before(priority, c, d) PROVE rank[c] < rank[d]
  <2>1. Ahead(c) \subseteq Ahead(d) /\ c \in Ahead(d) /\ c \notin Ahead(c)
    BY <1>4, <1>6, <1>7
  <2> DEFINE X == Ahead(c)
             Y == Ahead(d)
  <2>2. IsFiniteSet(Y) /\ Cardinality(X) \in Nat /\ Cardinality(Y) \in Nat
    BY <1>3
  <2>3. rank[c] = 1 + Cardinality(X) /\ rank[d] = 1 + Cardinality(Y)
    BY <1>2
  <2>4. X \subseteq Y \ {c} /\ c \in Y
    BY <2>1
  <2> HIDE DEF X, Y
  <2>5. IsFiniteSet(Y \ {c}) /\ Cardinality(Y \ {c}) = Cardinality(Y) - 1
    BY <2>2, <2>4, FS_RemoveElement, Zenon
  <2>6. Cardinality(X) =< Cardinality(Y \ {c})
    BY <2>4, <2>5, FS_Subset
  <2> QED BY <2>2, <2>3, <2>5, <2>6
<1>8. ASSUME NEW c \in C PROVE rank[c] \in 1 .. N
  <2> DEFINE X == Ahead(c)
  <2>1. X \subseteq C \ {c} /\ Cardinality(X) \in Nat /\ rank[c] = 1 + Cardinality(X)
    BY <1>2, <1>3, <1>4
  <2> HIDE DEF X
  <2>2. IsFiniteSet(C \ {c}) /\ Cardinality(C \ {c}) = N - 1
    BY <1>1, FS_RemoveElement, Zenon
  <2>3. Cardinality(X) =< N - 1
    BY <2>1, <2>2, FS_Subset
  <2> QED BY <1>3, <2>1, <2>3
<1>9. rank \in Injection(C, 1 .. N)
  <2>1. rank \in [C -> 1 .. N]
    BY <1>2, <1>8
  <2>2. \A c, d \in C : c # d => rank[c] # rank[d]
    <3>1. SUFFICES ASSUME NEW c \in C, NEW d \in C, c # d PROVE rank[c] # rank[d]
      OBVIOUS
    <3>2. rank[c] < rank[d] \/ rank[d] < rank[c]
      BY <1>5, <1>7, <3>1
    <3>3. rank[c] \in Nat /\ rank[d] \in Nat
      BY <1>8
    <3> QED BY <3>2, <3>3
  <2> QED BY <2>1, <2>2 DEF Injection, IsInjective
<1>10. rank \in Surjection(C, 1 .. N)
  <2>1. IsFiniteSet(1 .. N) /\ Cardinality(1 .. N) = N
    BY <1>3, FS_Interval
  <2> QED BY <1>1, <1>9, <2>1, FS_Injection, Zenon
<1>11. Composite!Range(rank) = 1 .. N
  <2>1. \A i \in 1 .. N : \E c \in C : rank[c] = i
    BY <1>10 DEF Surjection
  <2>2. DOMAIN rank = C
    BY <1>2
  <2> QED BY <1>8, <2>1, <2>2 DEF Composite!Range
<1>12. \A c, d \in C : priority[c] > priority[d] => rank[c] < rank[d]
  BY <1>7 DEF Before
<1> QED BY <1>11, <1>12, CompositeCardinality DEF C, rank

\* What is completed, of every competency.
AreCredits(earned) ==
    /\ DOMAIN earned = Composite!Competency /\ \A c \in Composite!Competency : IsPart(earned[c])

\* What a completion state takes from the projection: shares and needs.
Supports(p) ==
    /\ \A c \in Composite!Competency :
          AreShares(p.relationships[c]) /\ DOMAIN p.relationships[c] \subseteq Composite!Lever
    /\ \A l \in Composite!Lever : p.levers[l].need \in Nat
    /\ \A f \in Composite!Family : p.families[f].need \in Nat
    /\ \A d \in Composite!Domain : p.domains[d].need \in Nat

LEMMA ProjectionsSupport ==
    ASSUME IsAccepted, NEW p, p = Composite!Projection
    PROVE  Supports(p)
<1>1. \A row : GoodRow(row) => row.need \in Nat
  BY DEF GoodRow, IsPart
<1>2. p.relationships = Weights
  BY RowsOf
<1> QED BY <1>1, <1>2, WeightsAreKept, RowsOfLevers, RowsOfFamilies, RowsOfDomains DEF Supports

\* The shares of what trains these levers, and the part of them that was completed.
Shares(S) == [pair \in S |-> Composite!Share(pair)]
Done(S, earned) == [pair \in S |-> Composite!Share(pair) * earned[pair[1]]]

LEMMA CoverageIs ==
    ASSUME RunIsSane, Supports(projection), NEW earned, NEW L \in SUBSET Composite!Lever,
           Composite!Related(L) # {}, NEW S, S = Composite!Related(L)
    PROVE  /\ IsFiniteSet(S) /\ \A pair \in S : pair[1] \in Composite!Competency
           /\ Numbers(Shares(S), S) /\ Sum(Shares(S), S) \in Nat \ {0}
           /\ Composite!Coverage(L, earned) = Sum(Done(S, earned), S) \div Sum(Shares(S), S)
<1> DEFINE w == Shares(S)
           p == Done(S, earned)
<1>2. S = {pair \in Composite!Competency \X L : pair[2] \in DOMAIN projection.relationships[pair[1]]}
  BY DEF Composite!Related
<1>3. IsFiniteSet(S)
  <2>1. IsFiniteSet(Composite!Competency) /\ IsFiniteSet(Composite!Lever)
    BY DEF RunIsSane, Composite!Competency, Composite!Lever
  <2>2. IsFiniteSet(L)
    BY <2>1, FS_Subset
  <2>3. IsFiniteSet(Composite!Competency \X L)
    BY <2>1, <2>2, FS_Product
  <2> QED BY <1>2, <2>3, FS_Subset
<1>4. Composite!Coverage(L, earned) = Composite!Total(p) \div Composite!Total(w)
  BY Zenon DEF Composite!Coverage, Shares, Done
<1>5. \A pair \in S : Composite!Share(pair) \in Nat /\ Composite!Share(pair) > 0
  <2>1. ASSUME NEW pair \in S PROVE Composite!Share(pair) \in Nat /\ Composite!Share(pair) > 0
    <3>1. pair[1] \in Composite!Competency /\ pair[2] \in DOMAIN projection.relationships[pair[1]]
      BY <1>2
    <3>2. AreShares(projection.relationships[pair[1]])
      BY <3>1 DEF Supports
    <3>3. Composite!Share(pair) = projection.relationships[pair[1]][pair[2]]
      BY DEF Composite!Share
    <3> QED BY <3>1, <3>2, <3>3 DEF AreShares, Numbers
  <2> QED BY <2>1
<1>8. DOMAIN w = S /\ DOMAIN p = S /\ \A pair \in S : w[pair] = Composite!Share(pair)
  BY DEF Shares, Done
<1> HIDE DEF w, p
<1>9. Numbers(w, S)
  BY <1>5, <1>8 DEF Numbers
<1>11. Sum(w, S) \in Nat \ {0}
  <2>1. PICK x \in S : TRUE
    OBVIOUS
  <2>2. Sum(w, S) = w[x] + Sum(w, S \ {x})
    BY <1>3, <1>9, SumsAddAnywhere
  <2>3. IsFiniteSet(S \ {x}) /\ Numbers(w, S \ {x})
    BY <1>3, <1>9, FS_Subset DEF Numbers
  <2>4. Sum(w, S \ {x}) \in Nat
    BY <2>3, SumsAreNumbers
  <2>5. w[x] \in Nat /\ w[x] > 0
    BY <1>5, <1>8
  <2> QED BY <2>2, <2>4, <2>5
<1>12. Composite!Total(p) = Sum(p, S) /\ Composite!Total(w) = Sum(w, S)
  BY <1>3, <1>8, CompositeTotalIsTheSum
<1>13. \A pair \in S : pair[1] \in Composite!Competency
  BY <1>2
<1> QED BY <1>3, <1>4, <1>9, <1>11, <1>12, <1>13 DEF w, p

LEMMA CoverageStays ==
    ASSUME RunIsSane, Supports(projection), NEW earned, NEW lo \in Nat, NEW hi \in Nat,
           AllBetween(earned, Composite!Competency, lo, hi), NEW L \in SUBSET Composite!Lever,
           Composite!Related(L) # {}
    PROVE  Between(Composite!Coverage(L, earned), lo, hi)
<1> DEFINE S == Composite!Related(L)
           w == Shares(S)
           v == [pair \in S |-> earned[pair[1]]]
           p == Done(S, earned)
<1>1. /\ IsFiniteSet(S) /\ \A pair \in S : pair[1] \in Composite!Competency
      /\ Numbers(w, S) /\ Sum(w, S) \in Nat \ {0}
      /\ Composite!Coverage(L, earned) = Sum(p, S) \div Sum(w, S)
  BY CoverageIs
<1> HIDE DEF S
<1>2. AllBetween(v, S, lo, hi)
  BY <1>1 DEF AllBetween
<1>3. p = Weighed(w, v, S)
  BY DEF Weighed, Shares, Done
<1> HIDE DEF w, v, p
<1>4. Between(Sum(p, S), lo * Sum(w, S), hi * Sum(w, S))
  BY <1>1, <1>2, <1>3, WeightedSumsStay
<1> QED BY <1>1, <1>4, QuotientsStay DEF Between

LEMMA DomainCoverageStays ==
    ASSUME RunIsSane, NEW earned, NEW lo \in Nat, NEW hi \in Nat,
           AllBetween(earned, Composite!Competency, lo, hi), NEW d \in Composite!Domain
    PROVE  Between(Composite!DomainCoverage(d, earned), lo, hi)
<1> DEFINE S == Composite!Mapping(d)
           f == [c \in S |-> earned[c]]
<1>1. IsFiniteSet(S) /\ S # {} /\ S \subseteq Composite!Competency
  BY DomainsHaveMembers
<1>2. Composite!DomainCoverage(d, earned) = Composite!Mean(f)
  BY Zenon DEF Composite!DomainCoverage
<1> HIDE DEF S
<1>3. DOMAIN f = S /\ \A c \in S : f[c] = earned[c]
  OBVIOUS
<1> HIDE DEF f
<1>4. AllBetween(f, S, lo, hi)
  BY <1>1, <1>3 DEF AllBetween
<1> QED BY <1>1, <1>2, <1>3, <1>4, MeansStayBetween

LeversLeft(earned) ==
    [l \in Composite!Lever |-> Composite!Left(projection.levers[l], Composite!Coverage({l}, earned))]
FamiliesLeft(earned) ==
    [f \in Composite!Family |->
        Composite!Left(projection.families[f], Composite!Coverage(Composite!Members(f), earned))]
DomainsLeft(earned) ==
    [d \in Composite!Domain |-> Composite!Left(projection.domains[d], Composite!DomainCoverage(d, earned))]
SharedNeed(earned) ==
    [c \in Composite!Competency |->
        (contract.ownLever * Composite!Mapped(projection.relationships[c],
                                              [l \in Composite!Lever |-> LeversLeft(earned)[l].remaining])
           + contract.ownFamily * Composite!Mapped(projection.relationships[c],
                  [l \in Composite!Lever |-> FamiliesLeft(earned)[catalog.family[l]].remaining])
           + contract.ownDomain * DomainsLeft(earned)[catalog.domain[c]].remaining) \div Composite!Unit]
Priorities(earned) ==
    [c \in Composite!Competency |-> Composite!Priority(SharedNeed(earned)[c], earned[c])]

LEMMA StateIs ==
    ASSUME NEW earned, NEW s, s = Composite!State(earned)
    PROVE  /\ s.status = "current" /\ s.levers = LeversLeft(earned) /\ s.families = FamiliesLeft(earned)
           /\ s.domains = DomainsLeft(earned) /\ s.priority = Priorities(earned)
           /\ s.rank = Composite!Ranks(Priorities(earned))
<1>1. s = [status |-> "current", levers |-> LeversLeft(earned), families |-> FamiliesLeft(earned),
           domains |-> DomainsLeft(earned), priority |-> Priorities(earned),
           rank |-> Composite!Ranks(Priorities(earned))]
  BY Zenon DEF Composite!State, LeversLeft, FamiliesLeft, DomainsLeft, Priorities, SharedNeed
<1> QED BY <1>1

\* What completion does to a row.
WornDown(row, done, need) ==
    /\ row.need = need /\ row.coverage = done
    /\ row.remaining \in Nat /\ row.remaining =< need
    /\ done = 0 => row.remaining = need
    /\ done = Composite!Unit => row.remaining = 0

LEMMA RowsWearDown ==
    ASSUME NEW row, row.need \in Nat, NEW done, IsPart(done)
    PROVE  WornDown(Composite!Left(row, done), done, row.need)
<1> DEFINE need == row.need
           left == Portion(need, Composite!Power(Composite!Unit - done, contract.remainingExponent))
           new == Composite!Left(row, done)
<1>1. /\ left \in Nat /\ left =< need /\ (done = 0 => left = need) /\ (done = Composite!Unit => left = 0)
  BY WhatIsLeft
<1>2. new = [coverage |-> done, need |-> need, remaining |-> left]
  BY Zenon DEF Composite!Left, Composite!RemainingNeed, Portion
<1> HIDE DEF need, left, new
<1>3. new.coverage = done /\ new.need = need /\ new.remaining = left
  BY <1>2
<1> QED BY <1>1, <1>3 DEF WornDown, need, new

\* A row of a completion state.
IsWorn(row, earned) ==
    /\ IsPart(row.coverage) /\ row.remaining \in Nat /\ row.remaining =< row.need
    /\ Composite!Range(earned) = {0} => row.remaining = row.need
    /\ Composite!Range(earned) = {Composite!Unit} => row.remaining = 0

\* Credits lie between nothing and all; what lies in the bounds of the credits is worn.
LEMMA CreditsAre ==
    ASSUME NEW earned, AreCredits(earned)
    PROVE  /\ AllBetween(earned, Composite!Competency, 0, Composite!Unit)
           /\ \A k \in Nat : Composite!Range(earned) = {k} => AllBetween(earned, Composite!Competency, k, k)
<1>1. AllBetween(earned, Composite!Competency, 0, Composite!Unit)
  BY DEF AreCredits, IsPart, AllBetween, Between
<1>2. ASSUME NEW k \in Nat, Composite!Range(earned) = {k}
      PROVE  AllBetween(earned, Composite!Competency, k, k)
  <2>1. \A c \in Composite!Competency : earned[c] = k
    BY <1>2 DEF AreCredits, Composite!Range
  <2> QED BY <2>1 DEF AllBetween, Between
<1> QED BY <1>1, <1>2

LEMMA RowsAreWorn ==
    ASSUME NEW earned, AreCredits(earned), NEW row, row.need \in Nat, NEW done,
           \A lo, hi \in Nat : AllBetween(earned, Composite!Competency, lo, hi) => Between(done, lo, hi)
    PROVE  IsWorn(Composite!Left(row, done), earned)
<1>1. Between(done, 0, Composite!Unit)
  BY CreditsAre, UnitIs
<1>2. IsPart(done)
  BY <1>1 DEF IsPart, Between
<1>3. ASSUME NEW k \in Nat, Composite!Range(earned) = {k} PROVE done = k
  <2>1. Between(done, k, k)
    BY <1>3, CreditsAre
  <2> QED BY <2>1 DEF Between
<1>4. WornDown(Composite!Left(row, done), done, row.need)
  BY <1>2, RowsWearDown
<1>5. Composite!Unit \in Nat
  BY UnitIs
<1> DEFINE new == Composite!Left(row, done)
<1> HIDE DEF new
<1>6. WornDown(new, done, row.need)
  BY <1>4 DEF new
<1>7. IsWorn(new, earned)
  BY <1>2, <1>3, <1>5, <1>6, Zenon DEF WornDown, IsWorn
<1> QED BY <1>7 DEF new

\* Every lever, every family and every domain.
AreWorn(rows, S, earned) == DOMAIN rows = S /\ \A i \in S : IsWorn(rows[i], earned)

LEMMA StatesWearDown ==
    ASSUME RunIsSane, Supports(projection), NEW earned, AreCredits(earned), ~ Composite!CompletionIsRefused
    PROVE  /\ AreWorn(LeversLeft(earned), Composite!Lever, earned)
           /\ AreWorn(FamiliesLeft(earned), Composite!Family, earned)
           /\ AreWorn(DomainsLeft(earned), Composite!Domain, earned)
<1>1. \A l \in Composite!Lever : Composite!Related({l}) # {}
  BY Zenon DEF Composite!CompletionIsRefused
<1>2. ASSUME NEW L \in SUBSET Composite!Lever, L # {} PROVE Composite!Related(L) # {}
  <2>1. PICK l \in L : TRUE
    BY <1>2
  <2>2. Composite!Related({l}) \subseteq Composite!Related(L)
    BY <2>1 DEF Composite!Related
  <2>3. Composite!Related({l}) # {}
    BY <1>1, <2>1
  <2> QED BY <2>2, <2>3
<1>3. ASSUME NEW L \in SUBSET Composite!Lever, L # {}, NEW row, row.need \in Nat
      PROVE  IsWorn(Composite!Left(row, Composite!Coverage(L, earned)), earned)
  BY <1>2, <1>3, CoverageStays, RowsAreWorn
<1>4. ASSUME NEW l \in Composite!Lever PROVE IsWorn(LeversLeft(earned)[l], earned)
  <2>1. LeversLeft(earned)[l] = Composite!Left(projection.levers[l], Composite!Coverage({l}, earned))
    BY DEF LeversLeft
  <2>2. {l} \in SUBSET Composite!Lever /\ {l} # {}
    OBVIOUS
  <2>3. projection.levers[l].need \in Nat
    BY DEF Supports
  <2> QED BY <1>3, <2>1, <2>2, <2>3
<1>5. ASSUME NEW f \in Composite!Family PROVE IsWorn(FamiliesLeft(earned)[f], earned)
  <2>1. FamiliesLeft(earned)[f]
          = Composite!Left(projection.families[f], Composite!Coverage(Composite!Members(f), earned))
    BY DEF FamiliesLeft
  <2>2. Composite!Members(f) \in SUBSET Composite!Lever /\ Composite!Members(f) # {}
    BY DEF Composite!Members, Composite!Family, Composite!Range, Composite!Lever
  <2>3. projection.families[f].need \in Nat
    BY DEF Supports
  <2> QED BY <1>3, <2>1, <2>2, <2>3
<1>6. ASSUME NEW d \in Composite!Domain PROVE IsWorn(DomainsLeft(earned)[d], earned)
  <2>1. DomainsLeft(earned)[d]
          = Composite!Left(projection.domains[d], Composite!DomainCoverage(d, earned))
    BY DEF DomainsLeft
  <2>2. projection.domains[d].need \in Nat
    BY DEF Supports
  <2> QED BY <2>1, <2>2, DomainCoverageStays, RowsAreWorn
<1>7. /\ DOMAIN LeversLeft(earned) = Composite!Lever /\ DOMAIN FamiliesLeft(earned) = Composite!Family
      /\ DOMAIN DomainsLeft(earned) = Composite!Domain
  BY DEF LeversLeft, FamiliesLeft, DomainsLeft
<1> QED BY <1>4, <1>5, <1>6, <1>7 DEF AreWorn

\* What is left can be bounded, as there are finitely many of it.
LEMMA RemaindersAreBounded ==
    ASSUME NEW rows, NEW S, IsFiniteSet(S), \A i \in S : rows[i] \in Nat
    PROVE  \E hi \in Nat : AllBetween(rows, S, 0, hi)
<1>1. Numbers(rows, S)
  BY DEF Numbers
<1>2. Sum(rows, S) \in Nat
  BY <1>1, SumsAreNumbers
<1>3. ASSUME NEW i \in S PROVE rows[i] =< Sum(rows, S)
  <2>1. Sum(rows, S) = rows[i] + Sum(rows, S \ {i})
    BY <1>1, SumsAddAnywhere
  <2>2. IsFiniteSet(S \ {i}) /\ Numbers(rows, S \ {i})
    BY <1>1, FS_Subset DEF Numbers
  <2>3. Sum(rows, S \ {i}) \in Nat
    BY <2>2, SumsAreNumbers
  <2> QED BY <2>1, <2>3
<1> QED BY <1>2, <1>3 DEF AllBetween, Between

\* The need shared by the levers, families and domain of a competency, and its priority.
LEMMA PrioritiesAreNumbers ==
    ASSUME RunIsSane, ValidContract, Supports(projection), NEW earned, AreCredits(earned),
           ~ Composite!CompletionIsRefused, NEW c \in Composite!Competency
    PROVE  /\ Priorities(earned)[c] \in Nat
           /\ earned[c] = Composite!Unit => Priorities(earned)[c] = 0
<1> DEFINE shares == projection.relationships[c]
           byLever == [l \in Composite!Lever |-> LeversLeft(earned)[l].remaining]
           byFamily == [l \in Composite!Lever |-> FamiliesLeft(earned)[catalog.family[l]].remaining]
           x == contract.ownLever
           y == contract.ownFamily
           z == contract.ownDomain
           a == Composite!Mapped(shares, byLever)
           b == Composite!Mapped(shares, byFamily)
           e == DomainsLeft(earned)[catalog.domain[c]].remaining
           n == x * a + y * b + z * e
<1>1. AreShares(shares) /\ DOMAIN shares \subseteq Composite!Lever
  BY DEF Supports
<1>2. \A row : IsWorn(row, earned) => row.remaining \in Nat
  BY DEF IsWorn
<1>3. \A l \in Composite!Lever : byLever[l] \in Nat /\ byFamily[l] \in Nat
  BY <1>2, StatesWearDown, DomainsExist DEF AreWorn
<1>4. e \in Nat
  BY <1>2, StatesWearDown, DomainsExist DEF AreWorn
<1>5. SharedNeed(earned)[c] = n \div Composite!Unit
  BY Zenon DEF SharedNeed
<1>6. x \in Nat /\ y \in Nat /\ z \in Nat /\ Composite!Unit \in Nat \ {0}
  BY UnitIs DEF ValidContract, IsPart
<1> HIDE DEF shares, byLever, byFamily, x, y, z
<1>7. a \in Nat /\ b \in Nat
  <2>1. \A v : (\A l \in DOMAIN shares : v[l] \in Nat) => Composite!Mapped(shares, v) \in Nat
    <3>1. SUFFICES ASSUME NEW v, \A l \in DOMAIN shares : v[l] \in Nat PROVE Composite!Mapped(shares, v) \in Nat
      OBVIOUS
    <3>2. PICK hi \in Nat : AllBetween(v, DOMAIN shares, 0, hi)
      BY <1>1, <3>1, RemaindersAreBounded DEF AreShares
    <3>3. Between(Composite!Mapped(shares, v), 0, hi)
      BY <1>1, <3>2, MappedStays
    <3> QED BY <3>3 DEF Between
  <2> QED BY <1>1, <1>3, <2>1
<1> HIDE DEF a, b, e
<1>8. n \in Nat
  <2>1. x * a \in Nat /\ y * b \in Nat /\ z * e \in Nat
    BY <1>4, <1>6, <1>7, ProductsGrow
  <2> QED BY <2>1
<1> HIDE DEF n
<1>9. n \div Composite!Unit \in Nat
  BY <1>6, <1>8, DivisionBounds
<1> DEFINE shared == SharedNeed(earned)[c]
<1>10. Priorities(earned)[c] = Portion(shared, Composite!Power(Composite!Unit - earned[c], contract.ownExponent))
  BY Zenon DEF Priorities, Composite!Priority, Portion
<1>11. shared \in Nat /\ IsPart(earned[c])
  BY <1>5, <1>9 DEF AreCredits
<1> HIDE DEF shared
<1> QED BY <1>10, <1>11, WhatIsLeft

-----------------------------------------------------------------------------
(* CompositeProjection: the queue                                           *)

\* A completion state is consistent with what was earned.
IsConsistent(built, earned) ==
    /\ Composite!Range(built.rank) = 1 .. Composite!Cardinality(Composite!Competency)
    /\ \A c, d \in Composite!Competency :
          built.priority[c] > built.priority[d] => built.rank[c] < built.rank[d]
    /\ \A c \in Composite!Competency : earned[c] = Composite!Unit => built.priority[c] = 0
    /\ AreWorn(built.levers, Composite!Lever, earned) /\ AreWorn(built.families, Composite!Family, earned)
    /\ AreWorn(built.domains, Composite!Domain, earned)

LEMMA StatesAreConsistent ==
    ASSUME RunIsSane, ValidContract, Supports(projection), NEW earned, AreCredits(earned),
           ~ Composite!CompletionIsRefused, NEW s, s = Composite!State(earned)
    PROVE  IsConsistent(s, earned) /\ s.status = "current"
<1> DEFINE priority == Priorities(earned)
<1>1. \A c \in Composite!Competency :
         priority[c] \in Nat /\ (earned[c] = Composite!Unit => priority[c] = 0)
  BY PrioritiesAreNumbers
<1>2. /\ s.levers = LeversLeft(earned) /\ s.families = FamiliesLeft(earned) /\ s.domains = DomainsLeft(earned)
      /\ s.priority = priority /\ s.rank = Composite!Ranks(priority) /\ s.status = "current"
  BY StateIs
<1> HIDE DEF priority
<1>3. /\ Composite!Range(s.rank) = 1 .. Composite!Cardinality(Composite!Competency)
      /\ \A c, d \in Composite!Competency :
            s.priority[c] > s.priority[d] => s.rank[c] < s.rank[d]
  BY <1>1, <1>2, RanksAreAnOrder
<1>4. /\ AreWorn(s.levers, Composite!Lever, earned) /\ AreWorn(s.families, Composite!Family, earned)
      /\ AreWorn(s.domains, Composite!Domain, earned)
  BY <1>2, StatesWearDown
<1> QED BY <1>1, <1>2, <1>3, <1>4, Zenon DEF IsConsistent

-----------------------------------------------------------------------------
(* CompositeProjection: the invariant                                       *)

\* A projection in range, and modest in what it infers.
IsSound(p) ==
    /\ Composite!InUnit(p.families) /\ Composite!InUnit(p.levers)
    /\ Composite!InUnit(p.domains) /\ Composite!InUnit(p.competencies)
    /\ \A c \in Composite!Competency :
          /\ Composite!Total(p.relationships[c]) = Composite!Unit
          /\ \A l \in DOMAIN p.relationships[c] : p.relationships[c][l] > 0
    /\ \A l \in p.inherited :
          LET f == p.families[catalog.family[l]]
          IN  /\ p.levers[l].confidence * Composite!Unit =< f.confidence * contract.inherited
              /\ p.levers[l].need =< f.need
    /\ \A c \in Composite!Competency :
          \E k, l \in Composite!Lever :
             /\ p.levers[k].estimate =< p.competencies[c].estimate
             /\ p.competencies[c].estimate =< p.levers[l].estimate

\* A completion state is what was built for what is earned.
IsBuiltFrom(built, earned) ==
    /\ built.levers = LeversLeft(earned) /\ built.families = FamiliesLeft(earned)
    /\ built.domains = DomainsLeft(earned) /\ built.priority = Priorities(earned)

ProjectionInv == Composite!Projected => ValidContract /\ Supports(projection) /\ IsSound(projection)
CompletionInv ==
    /\ Composite!Current => Composite!Projected /\ IsConsistent(completion, credits)
    /\ Composite!Current => IsBuiltFrom(completion, credits) /\ ~ Composite!CompletionIsRefused
CompositeInv == RunIsSane /\ AreCredits(credits) /\ ProjectionInv /\ CompletionInv

LEMMA CompositeInitHolds == Composite!Init => CompositeInv
<1> SUFFICES ASSUME Composite!Init PROVE CompositeInv
  OBVIOUS
<1>1. /\ catalog \in Catalogs /\ assessed \in Assessments /\ DOMAIN assessed = DOMAIN catalog.family
      /\ credits = [c \in Composite!Competency |-> 0] /\ projection = None /\ completion = None
  BY DEF Composite!Init, Composite!Lever
<1>2. RunIsSane
  <2>1. ASSUME NEW l \in DOMAIN catalog.family
        PROVE  /\ assessed[l].estimate # None => IsPart(assessed[l].estimate)
               /\ IsPart(assessed[l].confidence)
    <3>1. /\ assessed[l].estimate \in (0 .. Composite!Unit) \cup {None}
          /\ assessed[l].confidence \in 0 .. Composite!Unit
      BY <1>1, CompositeAssumption, Zenon
    <3> QED BY <3>1, PartsAre, Zenon
  <2>2. /\ IsFiniteSet(DOMAIN catalog.family) /\ DOMAIN catalog.family \subseteq Int
        /\ IsFiniteSet(DOMAIN catalog.domain) /\ DOMAIN catalog.domain \subseteq Int
        /\ \A c \in DOMAIN catalog.domain : \A l \in DOMAIN catalog.weights[c] : catalog.weights[c][l] \in Int
    BY <1>1, CompositeAssumption, Zenon
  <2> QED BY <2>1, <2>2, Zenon DEF RunIsSane
<1>3. AreCredits(credits)
  <2>1. 0 \in Nat /\ 0 =< Composite!Unit
    BY UnitIs
  <2> QED BY <1>1, <2>1 DEF AreCredits, IsPart
<1>4. ProjectionInv /\ CompletionInv
  BY <1>1, Zenon DEF ProjectionInv, CompletionInv, Composite!Projected, Composite!Current
<1> QED BY <1>2, <1>3, <1>4 DEF CompositeInv

\* What the invariant says of the run and of the projection depends on nothing else.
LEMMA ProjectionsAreKept ==
    ASSUME CompositeInv, UNCHANGED <<contract, catalog, assessed, projection>>
    PROVE  /\ RunIsSane' /\ ProjectionInv' /\ Composite!Competency' = Composite!Competency
           /\ Composite!CompletionIsRefused' = Composite!CompletionIsRefused
           /\ Composite!Projected' = Composite!Projected
<1>1. contract' = contract /\ catalog' = catalog /\ assessed' = assessed /\ projection' = projection
  OBVIOUS
<1>2. /\ Composite!Competency' = Composite!Competency /\ Composite!Lever' = Composite!Lever
      /\ Composite!Family' = Composite!Family /\ Composite!Domain' = Composite!Domain
      /\ Composite!Projected' = Composite!Projected
  BY <1>1 DEF Composite!Competency, Composite!Lever, Composite!Family, Composite!Domain, Composite!Projected
<1>3. RunIsSane'
  BY <1>1 DEF CompositeInv, RunIsSane
<1>4. ASSUME Composite!Projected PROVE ValidContract' /\ Supports(projection)' /\ IsSound(projection)'
  <2>1. ValidContract /\ Supports(projection) /\ IsSound(projection)
    BY <1>4 DEF CompositeInv, ProjectionInv
  <2>2. ValidContract'
    BY <1>1, <2>1 DEF ValidContract
  <2>3. Supports(projection)'
    BY <1>1, <1>2, <2>1 DEF Supports
  <2>4. IsSound(projection)'
    BY <1>1, <1>2, <2>1 DEF IsSound
  <2> QED BY <2>2, <2>3, <2>4
<1>5. ProjectionInv'
  BY <1>2, <1>4 DEF ProjectionInv
<1>6. Composite!CompletionIsRefused' = Composite!CompletionIsRefused
  BY <1>1, <1>2 DEF Composite!CompletionIsRefused, Composite!Related
<1> QED BY <1>2, <1>3, <1>5, <1>6

\* So does what is built for some credits: the run and the projection decide it.
LEMMA BuildingIsKept ==
    ASSUME UNCHANGED <<contract, catalog, projection>>
    PROVE  IsBuiltFrom(completion, credits)' <=> IsBuiltFrom(completion', credits')
<1>1. contract' = contract /\ catalog' = catalog /\ projection' = projection
  OBVIOUS
<1>2. /\ Composite!Competency' = Composite!Competency /\ Composite!Lever' = Composite!Lever
      /\ Composite!Family' = Composite!Family /\ Composite!Domain' = Composite!Domain
  BY <1>1 DEF Composite!Competency, Composite!Lever, Composite!Family, Composite!Domain
<1>3. /\ \A f : Composite!Members(f)' = Composite!Members(f)
      /\ \A d : Composite!Mapping(d)' = Composite!Mapping(d)
      /\ \A L : Composite!Related(L)' = Composite!Related(L)
      /\ \A pair : Composite!Share(pair)' = Composite!Share(pair)
      /\ \A row, done : Composite!Left(row, done)' = Composite!Left(row, done)
      /\ \A s, credit : Composite!Priority(s, credit)' = Composite!Priority(s, credit)
  <2>1. \A f : Composite!Members(f)' = Composite!Members(f)
    BY <1>1, <1>2 DEF Composite!Members
  <2>2. \A d : Composite!Mapping(d)' = Composite!Mapping(d)
    BY <1>1, <1>2 DEF Composite!Mapping
  <2>3. \A L : Composite!Related(L)' = Composite!Related(L)
    BY <1>1, <1>2 DEF Composite!Related
  <2>4. \A pair : Composite!Share(pair)' = Composite!Share(pair)
    BY <1>1 DEF Composite!Share
  <2>5. \A row, done : Composite!Left(row, done)' = Composite!Left(row, done)
    BY <1>1 DEF Composite!Left, Composite!RemainingNeed
  <2>6. \A s, credit : Composite!Priority(s, credit)' = Composite!Priority(s, credit)
    BY <1>1 DEF Composite!Priority
  <2> QED BY <2>1, <2>2, <2>3, <2>4, <2>5, <2>6
<1>4. \A L : Composite!Coverage(L, credits)' = Composite!Coverage(L, credits')
  BY <1>3 DEF Composite!Coverage
<1>5. \A d : Composite!DomainCoverage(d, credits)' = Composite!DomainCoverage(d, credits')
  BY <1>3 DEF Composite!DomainCoverage
<1>6. LeversLeft(credits)' = LeversLeft(credits')
  BY <1>1, <1>2, <1>3, <1>4 DEF LeversLeft
<1>7. FamiliesLeft(credits)' = FamiliesLeft(credits')
  BY <1>1, <1>2, <1>3, <1>4 DEF FamiliesLeft
<1>8. DomainsLeft(credits)' = DomainsLeft(credits')
  BY <1>1, <1>2, <1>3, <1>5 DEF DomainsLeft
<1>9. SharedNeed(credits)' = SharedNeed(credits')
  BY <1>1, <1>2, <1>6, <1>7, <1>8 DEF SharedNeed
<1>10. Priorities(credits)' = Priorities(credits')
  BY <1>2, <1>3, <1>9 DEF Priorities
<1> QED BY <1>6, <1>7, <1>8, <1>10 DEF IsBuiltFrom

LEMMA ProjectKeepsTheInvariant == ASSUME CompositeInv, Composite!Project PROVE CompositeInv'
<1>1. /\ projection = None
      /\ projection' = IF Composite!ProjectionIsRefused THEN [status |-> "refused"] ELSE Composite!Projection
      /\ contract' = contract /\ catalog' = catalog /\ assessed' = assessed
      /\ credits' = credits /\ completion' = completion
  BY Zenon DEF Composite!Project
<1>2. /\ Composite!Competency' = Composite!Competency /\ Composite!Lever' = Composite!Lever
      /\ Composite!Family' = Composite!Family /\ Composite!Domain' = Composite!Domain
  BY <1>1 DEF Composite!Competency, Composite!Lever, Composite!Family, Composite!Domain
<1>3. RunIsSane /\ AreCredits(credits) /\ ~ Composite!Current
  BY <1>1 DEF CompositeInv, CompletionInv, Composite!Projected
<1>4. RunIsSane' /\ AreCredits(credits)'
  BY <1>1, <1>2, <1>3 DEF RunIsSane, AreCredits
<1>5. ASSUME Composite!Projected' PROVE ValidContract' /\ Supports(projection)' /\ IsSound(projection)'
  <2>1. ~ Composite!ProjectionIsRefused
    <3> SUFFICES ASSUME Composite!ProjectionIsRefused PROVE FALSE
      OBVIOUS
    <3>1. projection' = [status |-> "refused"]
      BY <1>1
    <3>2. projection'.status = "refused"
      BY <3>1
    <3> QED BY <1>5, <3>2 DEF Composite!Projected
  <2>2. IsAccepted /\ projection' = Composite!Projection
    BY <1>1, <1>3, <2>1 DEF IsAccepted
  <2> DEFINE p == projection'
  <2>3. p = Composite!Projection
    BY <2>2
  <2> HIDE DEF p
  <2>4. ValidContract /\ Supports(p)
    BY <2>2, <2>3, WhatIsAccepted, ProjectionsSupport
  <2>5. IsSound(p)
    BY <2>2, <2>3, ProjectedInRange, ProjectedModestly, Zenon DEF IsSound
  <2>6. ValidContract'
    BY <1>1, <2>4 DEF ValidContract
  <2>7. Supports(projection)'
    BY <1>2, <2>4 DEF Supports, p
  <2>8. IsSound(projection)'
    BY <1>1, <1>2, <2>5 DEF IsSound, p
  <2> QED BY <2>6, <2>7, <2>8
<1>6. ~ Composite!Current'
  BY <1>1, <1>3 DEF Composite!Current
<1> QED BY <1>4, <1>5, <1>6 DEF CompositeInv, ProjectionInv, CompletionInv

\* The state built for what is earned after the step.
LEMMA StatesAreKept ==
    ASSUME CompositeInv, Composite!Projected, ~ Composite!CompletionIsRefused, AreCredits(credits'),
           UNCHANGED <<contract, catalog, assessed, projection>>,
           completion' = Composite!State(credits')
    PROVE  CompositeInv'
<1>1. RunIsSane /\ ValidContract /\ Supports(projection)
  BY DEF CompositeInv, ProjectionInv
<1> DEFINE s == completion'
           earned == credits'
<1>2. s = Composite!State(earned) /\ AreCredits(earned)
  OBVIOUS
<1> HIDE DEF s, earned
<1>3. IsConsistent(s, earned) /\ IsBuiltFrom(s, earned)
  BY <1>1, <1>2, StatesAreConsistent, StateIs DEF IsBuiltFrom
<1>4. /\ RunIsSane' /\ ProjectionInv' /\ Composite!Competency' = Composite!Competency
      /\ ~ Composite!CompletionIsRefused' /\ Composite!Projected'
  BY ProjectionsAreKept
<1>5. catalog' = catalog
  OBVIOUS
<1>6. Composite!Lever' = Composite!Lever /\ Composite!Family' = Composite!Family /\ Composite!Domain' = Composite!Domain
  BY <1>5 DEF Composite!Lever, Composite!Family, Composite!Domain
<1>7. IsConsistent(completion, credits)'
  BY <1>3, <1>4, <1>6 DEF IsConsistent, s, earned
<1>8. AreCredits(credits)'
  BY <1>2, <1>4 DEF AreCredits, earned
<1>9. IsBuiltFrom(completion, credits)'
  BY <1>3, BuildingIsKept DEF s, earned
<1> QED BY <1>4, <1>7, <1>8, <1>9 DEF CompositeInv, CompletionInv

LEMMA InitializeKeepsTheInvariant == ASSUME CompositeInv, Composite!Initialize PROVE CompositeInv'
<1>1. /\ Composite!Projected /\ UNCHANGED <<contract, catalog, assessed, projection>> /\ credits' = credits
      /\ completion' = IF Composite!CompletionIsRefused THEN [status |-> "refused"]
                       ELSE Composite!State(credits)
  BY Zenon DEF Composite!Initialize, Composite!Projected
<1>2. AreCredits(credits)
  BY DEF CompositeInv
<1>3. CASE Composite!CompletionIsRefused
  <2>1. completion' = [status |-> "refused"]
    BY <1>1, <1>3
  <2>2. completion'.status = "refused"
    BY <2>1
  <2>3. ~ Composite!Current'
    BY <2>2 DEF Composite!Current
  <2>4. RunIsSane' /\ ProjectionInv' /\ Composite!Competency' = Composite!Competency
    BY <1>1, ProjectionsAreKept
  <2>5. AreCredits(credits)'
    BY <1>1, <1>2, <2>4 DEF AreCredits
  <2> QED BY <2>3, <2>4, <2>5 DEF CompositeInv, CompletionInv
<1>4. CASE ~ Composite!CompletionIsRefused
  <2>1. completion' = Composite!State(credits') /\ AreCredits(credits')
    BY <1>1, <1>2, <1>4
  <2> QED BY <1>1, <1>4, <2>1, StatesAreKept
<1> QED BY <1>3, <1>4

LEMMA ChangeKeepsTheInvariant ==
    ASSUME CompositeInv, NEW c \in Composite!Competency, NEW credit \in Credits \cup {0},
           Composite!Change(c, credit)
    PROVE  CompositeInv'
<1>1. /\ Composite!Current /\ credits' = [credits EXCEPT ![c] = credit]
      /\ completion' = Composite!State(credits') /\ UNCHANGED <<contract, catalog, assessed, projection>>
  BY Zenon DEF Composite!Change, Composite!Current
<1>2. Composite!Projected /\ ~ Composite!CompletionIsRefused /\ AreCredits(credits)
  BY <1>1 DEF CompositeInv, CompletionInv
<1>3. IsPart(credit)
  <2>1. credit \in 0 .. Composite!Unit \/ credit = 0
    BY CompositeAssumption, Zenon
  <2>2. Composite!Unit \in Nat
    BY UnitIs
  <2> QED BY <2>1, <2>2, PartsAre DEF IsPart
<1>4. AreCredits(credits')
  BY <1>1, <1>2, <1>3 DEF AreCredits
<1> QED BY <1>1, <1>2, <1>4, StatesAreKept

LEMMA CompositeNextKeepsTheInvariant == ASSUME CompositeInv, Composite!Next PROVE CompositeInv'
BY ProjectKeepsTheInvariant, InitializeKeepsTheInvariant, ChangeKeepsTheInvariant, Zenon DEF Composite!Next

LEMMA CompositeIsSound == ASSUME CompositeInv PROVE Composite!ProjectionIsSound
<1>1. Composite!ProjectionStaysInRange
  BY Zenon DEF CompositeInv, ProjectionInv, IsSound, Composite!ProjectionStaysInRange
<1>2. Composite!InferenceIsModest
  BY Zenon DEF CompositeInv, ProjectionInv, IsSound, Composite!InferenceIsModest
<1>3. ASSUME Composite!Current, NEW rows, NEW S, AreWorn(rows, S, credits)
      PROVE  Composite!IsWornDown(rows)
  <2>1. ASSUME NEW i \in DOMAIN rows
        PROVE  /\ rows[i].coverage \in 0 .. Composite!Unit /\ rows[i].remaining =< rows[i].need
               /\ Composite!Range(credits) = {0} => rows[i].remaining = rows[i].need
               /\ Composite!Range(credits) = {Composite!Unit} => rows[i].remaining = 0
    <3>1. IsWorn(rows[i], credits)
      BY <1>3, <2>1 DEF AreWorn
    <3> QED BY <3>1, PartsAre, Zenon DEF IsWorn
  <2> QED BY <2>1, Zenon DEF Composite!IsWornDown
<1>4. Composite!QueueIsConsistent
  <2> SUFFICES ASSUME Composite!Current
               PROVE  /\ Composite!Range(completion.rank) = 1 .. Composite!Cardinality(Composite!Competency)
                      /\ \A c, d \in Composite!Competency :
                            completion.priority[c] > completion.priority[d]
                              => completion.rank[c] < completion.rank[d]
                      /\ \A c \in Composite!Competency :
                            credits[c] = Composite!Unit => completion.priority[c] = 0
                      /\ Composite!IsWornDown(completion.levers) /\ Composite!IsWornDown(completion.families)
                      /\ Composite!IsWornDown(completion.domains)
    BY Zenon DEF Composite!QueueIsConsistent
  <2>1. IsConsistent(completion, credits)
    BY DEF CompositeInv, CompletionInv
  <2> QED BY <1>3, <2>1, Zenon DEF IsConsistent
<1> QED BY <1>1, <1>2, <1>4 DEF Composite!ProjectionIsSound

CompositeHolds == component = "composite" => CompositeInv

LEMMA CompositeInit == Init => CompositeHolds
BY CompositeInitHolds, Zenon DEF Init, CompositeHolds

LEMMA CompositeStep == CompositeHolds /\ [Next]_vars => CompositeHolds'
<1> SUFFICES ASSUME CompositeHolds, [Next]_vars PROVE CompositeHolds'
  OBVIOUS
<1>1. CASE Next /\ component = "composite"
  <2>1. Composite!Next /\ CompositeInv
    BY <1>1, Zenon DEF Next, CompositeHolds
  <2> QED BY <2>1, CompositeNextKeepsTheInvariant DEF CompositeHolds
<1>2. CASE Next /\ component # "composite"
  BY <1>2, Zenon DEF Next, CompositeHolds
<1>3. CASE UNCHANGED vars
  <2>1. component' = component /\ UNCHANGED compositeVars
    BY <1>3, Zenon DEF vars
  <2>2. /\ UNCHANGED <<contract, catalog, assessed, projection>> /\ catalog' = catalog
        /\ credits' = credits /\ completion' = completion
    BY <2>1 DEF compositeVars
  <2>3. ASSUME CompositeInv PROVE CompositeInv'
    <3>1. /\ RunIsSane' /\ ProjectionInv' /\ Composite!Competency' = Composite!Competency
          /\ Composite!CompletionIsRefused' = Composite!CompletionIsRefused
          /\ Composite!Projected' = Composite!Projected
      BY <2>2, <2>3, ProjectionsAreKept
    <3>2. Composite!Lever' = Composite!Lever /\ Composite!Family' = Composite!Family /\ Composite!Domain' = Composite!Domain
      BY <2>2 DEF Composite!Lever, Composite!Family, Composite!Domain
    <3>3. AreCredits(credits)'
      BY <2>2, <2>3, <3>1 DEF CompositeInv, AreCredits
    <3>4. Composite!Current' = Composite!Current
      BY <2>2 DEF Composite!Current
    <3>5. ASSUME IsConsistent(completion, credits) PROVE IsConsistent(completion, credits)'
      BY <2>2, <3>1, <3>2, <3>5 DEF IsConsistent
    <3>6. IsBuiltFrom(completion, credits)' <=> IsBuiltFrom(completion, credits)
      <4>1. IsBuiltFrom(completion, credits)' <=> IsBuiltFrom(completion', credits')
        BY <2>2, BuildingIsKept
      <4>2. IsBuiltFrom(completion', credits') <=> IsBuiltFrom(completion, credits)
        BY <2>2
      <4> QED BY <4>1, <4>2
    <3> QED BY <2>3, <3>1, <3>3, <3>4, <3>5, <3>6 DEF CompositeInv, CompletionInv
  <2> QED BY <2>1, <2>3, Zenon DEF CompositeHolds
<1> QED BY <1>1, <1>2, <1>3

\* Whatever the contract, the catalog, the assessment and the credits: a projection that is accepted
\* keeps its numbers in range and loses no share of a relationship, what is inferred from a family is
\* less certain and no more urgent than the family, the queue is an order with nothing completed in it
\* more urgent than nothing, and a need only wears down, from the whole of it to none
\* (growth/domain/composite_scoring.py).
THEOREM ProjectionsStaySound == Spec => []ProjectionIsSound
<1>1. Init => CompositeHolds
  BY CompositeInit
<1>2. CompositeHolds /\ [Next]_vars => CompositeHolds'
  BY CompositeStep
<1>3. CompositeHolds => ProjectionIsSound
  BY CompositeIsSound, Zenon DEF CompositeHolds, ProjectionIsSound
<1> QED BY <1>1, <1>2, <1>3, PTL DEF Spec

-----------------------------------------------------------------------------
(* CompositeProjection: more credit                                         *)

\* Bit by bit, the root is the largest number whose square stays below what it is taken of.
LEMMA RootIsLargest ==
    ASSUME NEW x, IsPart(x)
    PROVE  LET r == Composite!Root(x) IN
           r \in Nat /\ r * r =< x * Composite!Unit /\ x * Composite!Unit < (r + 1) * (r + 1)
<1> DEFINE n == x * Composite!Unit
           Encloses(r, width) == r \in Nat /\ r * r =< n /\ n < (r + width) * (r + width)
<1>1. n \in Nat /\ n < 65536 * 65536
  <2>1. x \in Nat /\ x =< 10000 /\ Composite!Unit = 10000
    BY UnitIs DEF IsPart
  <2>2. n = x * 10000
    BY <2>1
  <2> HIDE DEF n
  <2> QED BY <2>1, <2>2, SMT
<1>2. ASSUME NEW r, NEW bit \in Nat, Encloses(r, 2 * bit) PROVE Encloses(Composite!WithBit(x, r, bit), bit)
  <2>1. CASE (r + bit) * (r + bit) =< n
    <3>1. Composite!WithBit(x, r, bit) = r + bit
      BY <2>1, Zenon DEF Composite!WithBit
    <3>2. r \in Nat /\ n < (r + 2 * bit) * (r + 2 * bit)
      BY <1>2
    <3>3. r + 2 * bit = (r + bit) + bit /\ r + bit \in Nat
      BY <3>2
    <3> HIDE DEF n
    <3>4. Encloses(r + bit, bit)
      BY <2>1, <3>2, <3>3
    <3> HIDE DEF Encloses
    <3> QED BY <3>1, <3>4
  <2>2. CASE ~ ((r + bit) * (r + bit) =< n)
    <3>1. Composite!WithBit(x, r, bit) = r
      BY <2>2, Zenon DEF Composite!WithBit
    <3>2. r \in Nat /\ r * r =< n
      BY <1>2
    <3>3. (r + bit) * (r + bit) \in Nat
      <4>1. r + bit \in Nat
        BY <3>2
      <4> QED BY <4>1, ProductsGrow
    <3> DEFINE m == (r + bit) * (r + bit)
    <3>4. n < m
      <4>1. m \in Nat /\ ~ (m =< n)
        BY <2>2, <3>3
      <4> HIDE DEF m, n
      <4> QED BY <1>1, <4>1
    <3>5. Encloses(r, bit)
      BY <3>2, <3>4
    <3> HIDE DEF Encloses
    <3> QED BY <3>1, <3>5
  <2> QED BY <2>1, <2>2
<1>3. Encloses(0, 65536)
  BY <1>1
<1> HIDE DEF Encloses
<1>4. ASSUME NEW r, NEW bit \in Nat, Encloses(r, 16 * bit) PROVE Encloses(Composite!FourBits(x, r, bit), bit)
  <2>1. 8 * bit \in Nat /\ 4 * bit \in Nat /\ 2 * bit \in Nat
    OBVIOUS
  <2>2. 16 * bit = 2 * (8 * bit) /\ 8 * bit = 2 * (4 * bit) /\ 4 * bit = 2 * (2 * bit)
    OBVIOUS
  <2>3. Encloses(Composite!WithBit(x, r, 8 * bit), 8 * bit)
    BY <1>2, <1>4, <2>1, <2>2
  <2>4. Encloses(Composite!WithBit(x, Composite!WithBit(x, r, 8 * bit), 4 * bit), 4 * bit)
    BY <1>2, <2>1, <2>2, <2>3
  <2>5. Encloses(Composite!WithBit(x, Composite!WithBit(x, Composite!WithBit(x, r, 8 * bit), 4 * bit), 2 * bit), 2 * bit)
    BY <1>2, <2>1, <2>2, <2>4
  <2> QED BY <1>2, <2>5 DEF Composite!FourBits
<1>5. 65536 = 16 * 4096 /\ 4096 = 16 * 256 /\ 256 = 16 * 16 /\ 16 = 16 * 1
  OBVIOUS
<1> DEFINE a == Composite!FourBits(x, 0, 4096)
           b == Composite!FourBits(x, a, 256)
           c == Composite!FourBits(x, b, 16)
           d == Composite!FourBits(x, c, 1)
<1>6. Encloses(a, 4096)
  BY <1>3, <1>4, <1>5
<1> HIDE DEF a
<1>7. Encloses(b, 256)
  BY <1>4, <1>5, <1>6
<1> HIDE DEF b
<1>8. Encloses(c, 16)
  BY <1>4, <1>5, <1>7
<1> HIDE DEF c
<1>9. Encloses(d, 1)
  BY <1>4, <1>5, <1>8
<1>10. Composite!Root(x) = d
  BY Zenon DEF Composite!Root, a, b, c
<1> HIDE DEF d
<1> QED BY <1>9, <1>10 DEF Encloses, n

LEMMA PowersGrow ==
    ASSUME NEW x, IsPart(x), NEW y, IsPart(y), x =< y, NEW h
    PROVE  Composite!Power(x, h) =< Composite!Power(y, h)
<1> DEFINE r == Composite!Root(x)
           s == Composite!Root(y)
           u == Composite!Unit
<1>1. x \in Nat /\ y \in Nat /\ u \in Nat
  BY UnitIs DEF IsPart
<1>2. r \in Nat /\ s \in Nat /\ r * r =< x * u /\ y * u < (s + 1) * (s + 1)
  BY RootIsLargest
<1>3. IsPart(r) /\ IsPart(s)
  BY RootBounds
<1>4. \A z : Composite!Power(z, h) = CASE h = 1 -> Composite!Root(z) [] h = 2 -> z
                                       [] OTHER -> Portion(z, Composite!Root(z))
  BY Zenon DEF Composite!Power, Portion
<1>5. /\ Composite!Power(x, h) = CASE h = 1 -> r [] h = 2 -> x [] OTHER -> Portion(x, r)
      /\ Composite!Power(y, h) = CASE h = 1 -> s [] h = 2 -> y [] OTHER -> Portion(y, s)
  BY <1>4
<1> HIDE DEF r, s, u
<1>6. r =< s
  <2>1. SUFFICES ASSUME s + 1 =< r PROVE FALSE
    BY <1>2
  <2>2. (s + 1) * (s + 1) =< (s + 1) * r /\ (s + 1) * r =< r * r
    <3>1. s + 1 \in Nat
      BY <1>2
    <3> QED BY <1>2, <2>1, <3>1, ProductsGrow
  <2>3. x * u =< y * u /\ x * u \in Nat /\ y * u \in Nat /\ r * r \in Nat
    BY <1>1, <1>2, ProductsGrow
  <2>4. (s + 1) * (s + 1) \in Nat /\ (s + 1) * r \in Nat
    <3>1. s + 1 \in Nat
      BY <1>2
    <3> QED BY <1>2, <3>1, ProductsGrow
  <2> DEFINE p == (s + 1) * (s + 1)
             q == (s + 1) * r
             t == r * r
             v == x * u
             w == y * u
  <2>5. p =< q /\ q =< t /\ t =< v /\ v =< w /\ w < p /\ p \in Nat /\ q \in Nat /\ t \in Nat /\ v \in Nat /\ w \in Nat
    BY <1>2, <2>2, <2>3, <2>4
  <2> HIDE DEF p, q, t, v, w
  <2> QED BY <2>5
<1>7. Portion(x, r) =< Portion(y, s)
  <2>1. Portion(x, r) =< Portion(y, r) /\ Portion(x, r) \in Nat
    BY <1>1, <1>3, PortionBounds
  <2>2. Portion(y, r) =< Portion(y, s)
    BY <1>3, <1>6, PortionsCommute
  <2>3. Portion(y, r) \in Nat /\ Portion(y, s) \in Nat
    BY <1>1, <1>3, PortionBounds
  <2> QED BY <2>1, <2>2, <2>3
<1>8. CASE h = 1
  BY <1>5, <1>6, <1>8, SMT
<1>9. CASE h = 2
  BY <1>5, <1>9, SMT
<1>10. CASE h # 1 /\ h # 2
  BY <1>5, <1>7, <1>10, SMT
<1> QED BY <1>8, <1>9, <1>10

\* The more is done the less is left.
LEMMA LessIsLeft ==
    ASSUME NEW need \in Nat, NEW done, IsPart(done), NEW more, IsPart(more), done =< more, NEW h,
           NEW least \in Nat, least =< need
    PROVE  Portion(least, Composite!Power(Composite!Unit - more, h))
             =< Portion(need, Composite!Power(Composite!Unit - done, h))
<1> DEFINE u == Composite!Unit
           p == Composite!Power(u - done, h)
           q == Composite!Power(u - more, h)
<1>1. IsPart(u - done) /\ IsPart(u - more)
  BY Complements
<1>2. u - more =< u - done
  BY UnitIs DEF IsPart
<1>3. q =< p
  BY <1>1, <1>2, PowersGrow
<1>4. IsPart(p) /\ IsPart(q)
  BY <1>1, PowerBounds
<1> HIDE DEF p, q
<1>5. p \in Nat /\ q \in Nat /\ u \in Nat \ {0}
  BY <1>4, UnitIs DEF IsPart
<1> HIDE DEF u
<1>6. least * q =< need * q /\ need * q =< need * p /\ least * q \in Nat /\ need * q \in Nat /\ need * p \in Nat
  BY <1>3, <1>5, ProductsGrow
<1>7. least * q =< need * p
  BY <1>6
<1>8. (least * q) \div u =< (need * p) \div u
  BY <1>5, <1>6, <1>7, QuotientsGrow
<1> QED BY <1>8 DEF Portion, p, q, u

\* More is earned, of one competency or of several.
Grows(earned, more) == \A c \in Composite!Competency : earned[c] =< more[c]

LEMMA CoverageGrows ==
    ASSUME RunIsSane, Supports(projection), NEW earned, AreCredits(earned), NEW more, AreCredits(more),
           Grows(earned, more), NEW L \in SUBSET Composite!Lever, Composite!Related(L) # {}
    PROVE  Composite!Coverage(L, earned) =< Composite!Coverage(L, more)
<1> DEFINE S == Composite!Related(L)
           w == Shares(S)
           p == Done(S, earned)
           q == Done(S, more)
<1>1. /\ IsFiniteSet(S) /\ \A pair \in S : pair[1] \in Composite!Competency
      /\ Numbers(w, S) /\ Sum(w, S) \in Nat \ {0}
      /\ Composite!Coverage(L, earned) = Sum(p, S) \div Sum(w, S)
      /\ Composite!Coverage(L, more) = Sum(q, S) \div Sum(w, S)
  BY CoverageIs
<1> HIDE DEF S
<1>2. \A pair \in S : p[pair] \in Nat /\ q[pair] \in Nat /\ p[pair] =< q[pair]
  <2> SUFFICES ASSUME NEW pair \in S PROVE p[pair] \in Nat /\ q[pair] \in Nat /\ p[pair] =< q[pair]
    OBVIOUS
  <2>1. /\ w[pair] \in Nat /\ p[pair] = w[pair] * earned[pair[1]] /\ q[pair] = w[pair] * more[pair[1]]
    BY <1>1 DEF Numbers, Shares, Done
  <2>2. earned[pair[1]] \in Nat /\ more[pair[1]] \in Nat /\ earned[pair[1]] =< more[pair[1]]
    BY <1>1 DEF AreCredits, Grows, IsPart
  <2> QED BY <2>1, <2>2, ProductsGrow
<1> HIDE DEF w, p, q
<1>3. Numbers(p, S) /\ Numbers(q, S)
  BY <1>2 DEF Numbers
<1>4. Sum(p, S) \in Nat /\ Sum(q, S) \in Nat /\ Sum(p, S) =< Sum(q, S)
  BY <1>1, <1>2, <1>3, SumsCompare, SumsAreNumbers
<1> QED BY <1>1, <1>4, QuotientsGrow

LEMMA MeansGrow ==
    ASSUME NEW f, NEW h, NEW S, IsFiniteSet(S), S # {}, DOMAIN f = S, DOMAIN h = S,
           Numbers(f, S), Numbers(h, S), \A x \in S : f[x] =< h[x]
    PROVE  Composite!Mean(f) =< Composite!Mean(h)
<1> DEFINE n == Cardinality(S)
<1>1. n \in Nat \ {0}
  BY FS_CardinalityType, FS_EmptySet
<1>2. Sum(f, S) \in Nat /\ Sum(h, S) \in Nat /\ Sum(f, S) =< Sum(h, S)
  BY SumsCompare, SumsAreNumbers
<1>3. Composite!Mean(f) = Sum(f, S) \div n /\ Composite!Mean(h) = Sum(h, S) \div n
  BY CompositeTotalIsTheSum, CompositeCardinality DEF Composite!Mean
<1> HIDE DEF n
<1> QED BY <1>1, <1>2, <1>3, QuotientsGrow

LEMMA DomainCoverageGrows ==
    ASSUME RunIsSane, NEW earned, AreCredits(earned), NEW more, AreCredits(more), Grows(earned, more),
           NEW d \in Composite!Domain
    PROVE  Composite!DomainCoverage(d, earned) =< Composite!DomainCoverage(d, more)
<1> DEFINE S == Composite!Mapping(d)
           f == [c \in S |-> earned[c]]
           h == [c \in S |-> more[c]]
<1>1. IsFiniteSet(S) /\ S # {} /\ S \subseteq Composite!Competency
  BY DomainsHaveMembers
<1>2. Composite!DomainCoverage(d, earned) = Composite!Mean(f) /\ Composite!DomainCoverage(d, more) = Composite!Mean(h)
  BY Zenon DEF Composite!DomainCoverage
<1> HIDE DEF S
<1>3. DOMAIN f = S /\ DOMAIN h = S /\ \A c \in S : f[c] = earned[c] /\ h[c] = more[c]
  OBVIOUS
<1> HIDE DEF f, h
<1>4. Numbers(f, S) /\ Numbers(h, S) /\ \A c \in S : f[c] =< h[c]
  BY <1>1, <1>3 DEF Numbers, AreCredits, IsPart, Grows
<1> QED BY <1>1, <1>2, <1>3, <1>4, MeansGrow

LEMMA MappedGrows ==
    ASSUME NEW shares, AreShares(shares), NEW v, NEW w,
           \A l \in DOMAIN shares : v[l] \in Nat /\ w[l] \in Nat /\ v[l] =< w[l]
    PROVE  /\ Composite!Mapped(shares, v) \in Nat /\ Composite!Mapped(shares, w) \in Nat
           /\ Composite!Mapped(shares, v) =< Composite!Mapped(shares, w)
<1> DEFINE S == DOMAIN shares
           p == Weighed(shares, v, S)
           q == Weighed(shares, w, S)
<1>1. /\ Composite!Mapped(shares, v) = Composite!Total(p) \div Composite!Unit
      /\ Composite!Mapped(shares, w) = Composite!Total(q) \div Composite!Unit
  BY Zenon DEF Composite!Mapped, Weighed
<1>2. DOMAIN p = S /\ DOMAIN q = S /\ \A l \in S : p[l] = shares[l] * v[l] /\ q[l] = shares[l] * w[l]
  BY DEF Weighed
<1>3. IsFiniteSet(S) /\ Numbers(shares, S)
  BY DEF AreShares
<1>4. \A l \in S : p[l] \in Nat /\ q[l] \in Nat /\ p[l] =< q[l]
  <2> SUFFICES ASSUME NEW l \in S PROVE p[l] \in Nat /\ q[l] \in Nat /\ p[l] =< q[l]
    OBVIOUS
  <2>1. shares[l] \in Nat /\ v[l] \in Nat /\ w[l] \in Nat /\ v[l] =< w[l]
    BY <1>3 DEF Numbers
  <2>2. p[l] = shares[l] * v[l] /\ q[l] = shares[l] * w[l]
    BY <1>2
  <2> QED BY <2>1, <2>2, ProductsGrow
<1> HIDE DEF p, q
<1>5. Numbers(p, S) /\ Numbers(q, S)
  BY <1>4 DEF Numbers
<1>6. Sum(p, S) \in Nat /\ Sum(q, S) \in Nat /\ Sum(p, S) =< Sum(q, S)
  BY <1>3, <1>4, <1>5, SumsCompare, SumsAreNumbers
<1>7. Composite!Total(p) = Sum(p, S) /\ Composite!Total(q) = Sum(q, S)
  BY <1>2, <1>3, CompositeTotalIsTheSum
<1>8. Composite!Unit \in Nat \ {0}
  BY UnitIs
<1>9. /\ Sum(p, S) \div Composite!Unit \in Nat /\ Sum(q, S) \div Composite!Unit \in Nat
      /\ Sum(p, S) \div Composite!Unit =< Sum(q, S) \div Composite!Unit
  BY <1>6, <1>8, QuotientsGrow, DivisionBounds
<1> QED BY <1>1, <1>7, <1>9

\* What of these rows is left after more is no more than what was left before.
HaveLess(rows, before, S) ==
    \A i \in S : /\ rows[i].remaining \in Nat /\ before[i].remaining \in Nat
                 /\ rows[i].remaining =< before[i].remaining

LEMMA RowsHaveLess ==
    ASSUME NEW row, row.need \in Nat, NEW done, IsPart(done), NEW more, IsPart(more), done =< more
    PROVE  Composite!Left(row, more).remaining =< Composite!Left(row, done).remaining
<1> DEFINE h == contract.remainingExponent
           need == row.need
           r == Composite!Left(row, done)
           s == Composite!Left(row, more)
<1>1. /\ r = [coverage |-> done, need |-> need, remaining |-> Portion(need, Composite!Power(Composite!Unit - done, h))]
      /\ s = [coverage |-> more, need |-> need, remaining |-> Portion(need, Composite!Power(Composite!Unit - more, h))]
  BY Zenon DEF Composite!Left, Composite!RemainingNeed, Portion
<1>2. Portion(need, Composite!Power(Composite!Unit - more, h))
        =< Portion(need, Composite!Power(Composite!Unit - done, h))
  BY LessIsLeft
<1> HIDE DEF r, s, need, h
<1>3. s.remaining =< r.remaining
  BY <1>1, <1>2
<1> QED BY <1>3 DEF r, s

LEMMA StatesHaveLess ==
    ASSUME RunIsSane, Supports(projection), NEW earned, AreCredits(earned), NEW more, AreCredits(more),
           Grows(earned, more), ~ Composite!CompletionIsRefused
    PROVE  /\ HaveLess(LeversLeft(more), LeversLeft(earned), Composite!Lever)
           /\ HaveLess(FamiliesLeft(more), FamiliesLeft(earned), Composite!Family)
           /\ HaveLess(DomainsLeft(more), DomainsLeft(earned), Composite!Domain)
<1>1. \A l \in Composite!Lever : Composite!Related({l}) # {}
  BY Zenon DEF Composite!CompletionIsRefused
<1>2. ASSUME NEW L \in SUBSET Composite!Lever, L # {} PROVE Composite!Related(L) # {}
  <2>1. PICK l \in L : TRUE
    BY <1>2
  <2>2. Composite!Related({l}) \subseteq Composite!Related(L)
    BY <2>1 DEF Composite!Related
  <2>3. Composite!Related({l}) # {}
    BY <1>1, <2>1
  <2> QED BY <2>2, <2>3
<1>3. ASSUME NEW L \in SUBSET Composite!Lever, L # {}, NEW row, row.need \in Nat
      PROVE  Composite!Left(row, Composite!Coverage(L, more)).remaining
               =< Composite!Left(row, Composite!Coverage(L, earned)).remaining
  <2> DEFINE a == Composite!Coverage(L, earned)
             b == Composite!Coverage(L, more)
  <2>1. Composite!Related(L) # {}
    BY <1>2, <1>3
  <2>2. a =< b
    BY <2>1, CoverageGrows
  <2>3. Between(a, 0, Composite!Unit) /\ Between(b, 0, Composite!Unit)
    BY <2>1, CreditsAre, CoverageStays, UnitIs
  <2>4. IsPart(a) /\ IsPart(b)
    BY <2>3 DEF IsPart, Between
  <2> HIDE DEF a, b
  <2>5. Composite!Left(row, b).remaining =< Composite!Left(row, a).remaining
    BY <1>3, <2>2, <2>4, RowsHaveLess
  <2> QED BY <2>5 DEF a, b
<1>4. /\ \A row : IsWorn(row, earned) => row.remaining \in Nat
      /\ \A row : IsWorn(row, more) => row.remaining \in Nat
  BY DEF IsWorn
<1>5. /\ \A l \in Composite!Lever :
            LeversLeft(earned)[l].remaining \in Nat /\ LeversLeft(more)[l].remaining \in Nat
      /\ \A f \in Composite!Family :
            FamiliesLeft(earned)[f].remaining \in Nat /\ FamiliesLeft(more)[f].remaining \in Nat
      /\ \A d \in Composite!Domain :
            DomainsLeft(earned)[d].remaining \in Nat /\ DomainsLeft(more)[d].remaining \in Nat
  BY <1>4, StatesWearDown DEF AreWorn
<1>6. ASSUME NEW l \in Composite!Lever
      PROVE  LeversLeft(more)[l].remaining =< LeversLeft(earned)[l].remaining
  <2>1. /\ LeversLeft(earned)[l] = Composite!Left(projection.levers[l], Composite!Coverage({l}, earned))
        /\ LeversLeft(more)[l] = Composite!Left(projection.levers[l], Composite!Coverage({l}, more))
    BY DEF LeversLeft
  <2>2. {l} \in SUBSET Composite!Lever /\ {l} # {} /\ projection.levers[l].need \in Nat
    BY DEF Supports
  <2> QED BY <1>3, <2>1, <2>2
<1>7. ASSUME NEW f \in Composite!Family
      PROVE  FamiliesLeft(more)[f].remaining =< FamiliesLeft(earned)[f].remaining
  <2>1. /\ FamiliesLeft(earned)[f]
             = Composite!Left(projection.families[f], Composite!Coverage(Composite!Members(f), earned))
        /\ FamiliesLeft(more)[f]
             = Composite!Left(projection.families[f], Composite!Coverage(Composite!Members(f), more))
    BY DEF FamiliesLeft
  <2>2. Composite!Members(f) \in SUBSET Composite!Lever /\ Composite!Members(f) # {}
    BY DEF Composite!Members, Composite!Family, Composite!Range, Composite!Lever
  <2>3. projection.families[f].need \in Nat
    BY DEF Supports
  <2> QED BY <1>3, <2>1, <2>2, <2>3
<1>8. ASSUME NEW d \in Composite!Domain
      PROVE  DomainsLeft(more)[d].remaining =< DomainsLeft(earned)[d].remaining
  <2> DEFINE a == Composite!DomainCoverage(d, earned)
             b == Composite!DomainCoverage(d, more)
             row == projection.domains[d]
  <2>1. DomainsLeft(earned)[d] = Composite!Left(row, a) /\ DomainsLeft(more)[d] = Composite!Left(row, b)
    BY DEF DomainsLeft
  <2>2. row.need \in Nat
    BY DEF Supports
  <2>3. a =< b
    BY DomainCoverageGrows
  <2>4. Between(a, 0, Composite!Unit) /\ Between(b, 0, Composite!Unit)
    BY CreditsAre, DomainCoverageStays, UnitIs
  <2>5. IsPart(a) /\ IsPart(b)
    BY <2>4 DEF IsPart, Between
  <2> HIDE DEF a, b, row
  <2> QED BY <2>1, <2>2, <2>3, <2>5, RowsHaveLess
<1> QED BY <1>5, <1>6, <1>7, <1>8 DEF HaveLess

LEMMA SharedNeedFalls ==
    ASSUME RunIsSane, ValidContract, Supports(projection), NEW earned, AreCredits(earned),
           NEW more, AreCredits(more), Grows(earned, more), ~ Composite!CompletionIsRefused,
           NEW c \in Composite!Competency
    PROVE  /\ SharedNeed(more)[c] \in Nat /\ SharedNeed(earned)[c] \in Nat
           /\ SharedNeed(more)[c] =< SharedNeed(earned)[c]
<1> DEFINE shares == projection.relationships[c]
           byLever(e) == [l \in Composite!Lever |-> LeversLeft(e)[l].remaining]
           byFamily(e) == [l \in Composite!Lever |-> FamiliesLeft(e)[catalog.family[l]].remaining]
           x == contract.ownLever
           y == contract.ownFamily
           z == contract.ownDomain
           a == Composite!Mapped(shares, byLever(more))
           b == Composite!Mapped(shares, byFamily(more))
           d == DomainsLeft(more)[catalog.domain[c]].remaining
           aa == Composite!Mapped(shares, byLever(earned))
           bb == Composite!Mapped(shares, byFamily(earned))
           dd == DomainsLeft(earned)[catalog.domain[c]].remaining
           n == x * a + y * b + z * d
           nn == x * aa + y * bb + z * dd
<1>1. AreShares(shares) /\ DOMAIN shares \subseteq Composite!Lever
  BY DEF Supports
<1>2. \A l \in Composite!Lever :
         /\ byLever(more)[l] \in Nat /\ byLever(earned)[l] \in Nat /\ byLever(more)[l] =< byLever(earned)[l]
         /\ byFamily(more)[l] \in Nat /\ byFamily(earned)[l] \in Nat
         /\ byFamily(more)[l] =< byFamily(earned)[l]
  BY StatesHaveLess, DomainsExist DEF HaveLess
<1>3. d \in Nat /\ dd \in Nat /\ d =< dd
  BY StatesHaveLess, DomainsExist DEF HaveLess
<1>4. SharedNeed(more)[c] = n \div Composite!Unit /\ SharedNeed(earned)[c] = nn \div Composite!Unit
  BY Zenon DEF SharedNeed
<1>5. x \in Nat /\ y \in Nat /\ z \in Nat /\ Composite!Unit \in Nat \ {0}
  BY UnitIs DEF ValidContract, IsPart
<1> HIDE DEF shares, byLever, byFamily, x, y, z
<1>6. a \in Nat /\ aa \in Nat /\ a =< aa /\ b \in Nat /\ bb \in Nat /\ b =< bb
  BY <1>1, <1>2, MappedGrows
<1> HIDE DEF a, b, d, aa, bb, dd
<1>7. n \in Nat /\ nn \in Nat /\ n =< nn
  <2>1. /\ x * a \in Nat /\ x * aa \in Nat /\ x * a =< x * aa
        /\ y * b \in Nat /\ y * bb \in Nat /\ y * b =< y * bb
        /\ z * d \in Nat /\ z * dd \in Nat /\ z * d =< z * dd
    BY <1>3, <1>5, <1>6, ProductsGrow
  <2> DEFINE xa == x * a
             xaa == x * aa
             yb == y * b
             ybb == y * bb
             zd == z * d
             zdd == z * dd
  <2>2. /\ xa \in Nat /\ xaa \in Nat /\ xa =< xaa /\ yb \in Nat /\ ybb \in Nat /\ yb =< ybb
        /\ zd \in Nat /\ zdd \in Nat /\ zd =< zdd
    BY <2>1
  <2>3. n = xa + yb + zd /\ nn = xaa + ybb + zdd
    OBVIOUS
  <2> HIDE DEF xa, xaa, yb, ybb, zd, zdd, n, nn
  <2> QED BY <2>2, <2>3
<1> HIDE DEF n, nn
<1>8. n \div Composite!Unit \in Nat /\ nn \div Composite!Unit \in Nat
      /\ n \div Composite!Unit =< nn \div Composite!Unit
  BY <1>5, <1>7, QuotientsGrow, DivisionBounds
<1> QED BY <1>4, <1>8

LEMMA PrioritiesFall ==
    ASSUME RunIsSane, ValidContract, Supports(projection), NEW earned, AreCredits(earned),
           NEW more, AreCredits(more), Grows(earned, more), ~ Composite!CompletionIsRefused,
           NEW c \in Composite!Competency
    PROVE  Priorities(more)[c] =< Priorities(earned)[c]
<1> DEFINE before == SharedNeed(earned)[c]
           after == SharedNeed(more)[c]
           h == contract.ownExponent
           done == earned[c]
           now == more[c]
<1>1. after \in Nat /\ before \in Nat /\ after =< before
  BY SharedNeedFalls
<1>2. IsPart(done) /\ IsPart(now) /\ done =< now
  BY DEF AreCredits, Grows
<1>3. /\ Priorities(more)[c] = Portion(after, Composite!Power(Composite!Unit - now, h))
      /\ Priorities(earned)[c] = Portion(before, Composite!Power(Composite!Unit - done, h))
  BY Zenon DEF Priorities, Composite!Priority, Portion
<1> HIDE DEF before, after, h, done, now
<1>4. Portion(after, Composite!Power(Composite!Unit - now, h))
        =< Portion(before, Composite!Power(Composite!Unit - done, h))
  BY <1>1, <1>2, LessIsLeft
<1> QED BY <1>3, <1>4

LEMMA ChangesLeaveLess ==
    ASSUME CompositeInv, NEW k \in Composite!Competency, NEW credit \in Credits \cup {0},
           Composite!Change(k, credit)
    PROVE  Composite!LeavesLess
<1>1. /\ Composite!Current /\ credits' = [credits EXCEPT ![k] = credit]
      /\ completion' = Composite!State(credits')
  BY Zenon DEF Composite!Change, Composite!Current
<1>2. /\ RunIsSane /\ ValidContract /\ Supports(projection) /\ AreCredits(credits)
      /\ IsBuiltFrom(completion, credits) /\ ~ Composite!CompletionIsRefused
  BY <1>1 DEF CompositeInv, CompletionInv, ProjectionInv
<1>3. IsPart(credit)
  <2>1. credit \in 0 .. Composite!Unit \/ credit = 0
    BY CompositeAssumption, Zenon
  <2>2. Composite!Unit \in Nat
    BY UnitIs
  <2> QED BY <2>1, <2>2, PartsAre DEF IsPart
<1> DEFINE earned == credits
           more == credits'
           s == completion
           t == completion'
<1>4. AreCredits(earned) /\ AreCredits(more) /\ more = [earned EXCEPT ![k] = credit]
  BY <1>1, <1>2, <1>3 DEF AreCredits
<1>5. IsBuiltFrom(s, earned) /\ t = Composite!State(more)
  BY <1>1, <1>2
<1> HIDE DEF earned, more, s, t
<1>6. IsBuiltFrom(t, more)
  BY <1>5, StateIs DEF IsBuiltFrom
<1>7. SUFFICES ASSUME NEW c \in Composite!Competency, more[c] > earned[c]
               PROVE  /\ \A l \in Composite!Lever : t.levers[l].remaining =< s.levers[l].remaining
                      /\ \A f \in Composite!Family : t.families[f].remaining =< s.families[f].remaining
                      /\ \A d \in Composite!Domain : t.domains[d].remaining =< s.domains[d].remaining
                      /\ \A d \in Composite!Competency : t.priority[d] =< s.priority[d]
  BY Zenon DEF Composite!LeavesLess, earned, more, s, t
<1>8. Grows(earned, more)
  <2>1. \A d \in Composite!Competency : earned[d] \in Nat /\ (d # k => more[d] = earned[d])
    BY <1>4 DEF AreCredits, IsPart
  <2>2. c = k /\ more[k] \in Nat
    BY <1>4, <1>7, <2>1 DEF AreCredits, IsPart
  <2>3. ASSUME NEW d \in Composite!Competency PROVE earned[d] =< more[d]
    BY <1>7, <2>1, <2>2
  <2> QED BY <2>3 DEF Grows
<1>9. /\ HaveLess(t.levers, s.levers, Composite!Lever) /\ HaveLess(t.families, s.families, Composite!Family)
      /\ HaveLess(t.domains, s.domains, Composite!Domain)
  BY <1>2, <1>4, <1>5, <1>6, <1>8, StatesHaveLess DEF IsBuiltFrom
<1>10. \A d \in Composite!Competency : t.priority[d] =< s.priority[d]
  BY <1>2, <1>4, <1>5, <1>6, <1>8, PrioritiesFall DEF IsBuiltFrom
<1> QED BY <1>9, <1>10 DEF HaveLess

\* Whatever the contract, the catalog, the assessment and the credits: completing more of a practice
\* leaves no lever, family or domain with more need, and no competency with a higher priority, than
\* before (growth/domain/composite_scoring.py, build_completion_state).
THEOREM CompletingMoreLeavesLess == Spec => Composite!MoreCreditLeavesLess
<1>1. Init => CompositeHolds
  BY CompositeInit
<1>2. CompositeHolds /\ [Next]_vars => CompositeHolds'
  BY CompositeStep
<1>3. CompositeHolds /\ [Next]_vars => [Composite!Current => Composite!LeavesLess]_(Composite!vars)
  <2> SUFFICES ASSUME CompositeHolds, [Next]_vars, ~ UNCHANGED Composite!vars, Composite!Current
               PROVE  Composite!LeavesLess
    OBVIOUS
  <2>1. Next /\ component = "composite"
    <3>1. UNCHANGED vars => UNCHANGED Composite!vars
      BY DEF vars, compositeVars, Composite!vars
    <3>2. UNCHANGED compositeVars => UNCHANGED Composite!vars
      BY DEF compositeVars, Composite!vars
    <3>3. Next /\ component # "composite" => UNCHANGED compositeVars
      BY Zenon DEF Next
    <3> QED BY <3>1, <3>2, <3>3
  <2>2. Composite!Next /\ CompositeInv
    BY <2>1, Zenon DEF Next, CompositeHolds
  <2>3. ~ Composite!Project /\ ~ Composite!Initialize
    BY <2>2 DEF Composite!Project, Composite!Initialize, Composite!Current, CompositeInv, CompletionInv,
                Composite!Projected
  <2>4. PICK c \in Composite!Competency, credit \in Credits \cup {0} : Composite!Change(c, credit)
    BY <2>2, <2>3, Zenon DEF Composite!Next
  <2> QED BY <2>2, <2>4, ChangesLeaveLess
<1> QED BY <1>1, <1>2, <1>3, PTL DEF Spec, Composite!MoreCreditLeavesLess

=================================================================================
