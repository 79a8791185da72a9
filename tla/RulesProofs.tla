------------------------------ MODULE RulesProofs ------------------------------
(***************************************************************************)
(* The components that compute: what holds for every input.                *)
(***************************************************************************)
EXTENDS Rules, FiniteSetTheorems, TLAPS

-----------------------------------------------------------------------------
(* EvidenceContract                                                         *)

LEMMA DivisionBounds ==
    ASSUME NEW x \in Nat, NEW d \in Nat \ {0}, NEW k \in Nat
    PROVE  /\ x \div d \in Nat
           /\ x < (k + 1) * d => x \div d =< k
           /\ k * d =< x => k =< x \div d
<1>1. x \div d \in Nat /\ x = d * (x \div d) + (x % d) /\ x % d \in 0 .. d - 1
  BY SMT
<1> DEFINE q == x \div d
<1>2. q \in Nat /\ x >= d * q /\ x < d * (q + 1)
  BY <1>1
<1> HIDE DEF q
<1>3. ASSUME x < (k + 1) * d PROVE q =< k
  <2>1. q >= k + 1 => d * q >= d * (k + 1)
    BY <1>2, SMT
  <2> QED BY <1>2, <1>3, <2>1
<1>4. ASSUME k * d =< x PROVE k =< q
  <2>1. q + 1 =< k => d * (q + 1) =< d * k
    BY <1>2, SMT
  <2> QED BY <1>2, <1>4, <2>1
<1> QED BY <1>1, <1>3, <1>4 DEF q

\* A larger share of the same whole is not rounded to less, and a share of at most k is not rounded
\* to more.
LEMMA RoundingIsMonotone ==
    ASSUME NEW n \in Nat, NEW m \in Nat, NEW d \in Nat \ {0}, NEW k \in Nat
    PROVE  /\ Contract!RoundHalfUp(n, d) \in Nat
           /\ n =< m => Contract!RoundHalfUp(n, d) =< Contract!RoundHalfUp(m, d)
           /\ n =< k * d => Contract!RoundHalfUp(n, d) =< k
<1> DEFINE a == (2 * n + d) \div (2 * d)
           b == (2 * m + d) \div (2 * d)
<1>1. 2 * n + d \in Nat /\ 2 * m + d \in Nat /\ 2 * d \in Nat \ {0}
  OBVIOUS
<1>2. a \in Nat /\ b \in Nat
  BY <1>1, DivisionBounds
<1>3. ASSUME n =< m PROVE a =< b
  <2>1. 2 * m + d < (b + 1) * (2 * d)
    BY <1>1, <1>2
  <2>2. 2 * n + d < (b + 1) * (2 * d)
    BY <1>2, <1>3, <2>1
  <2> QED BY <1>1, <1>2, <2>2, DivisionBounds
<1>4. ASSUME n =< k * d PROVE a =< k
  <2>1. 2 * n + d < (k + 1) * (2 * d)
    BY <1>4
  <2> QED BY <1>1, <2>1, DivisionBounds
<1> QED BY <1>2, <1>3, <1>4 DEF Contract!RoundHalfUp

LEMMA RoundingIsStrict ==
    ASSUME NEW n \in Nat, NEW m \in Nat, NEW d \in Nat \ {0}, n + d =< m
    PROVE  Contract!RoundHalfUp(n, d) < Contract!RoundHalfUp(m, d)
<1> DEFINE a == (2 * n + d) \div (2 * d)
           b == (2 * m + d) \div (2 * d)
<1>1. 2 * n + d \in Nat /\ 2 * m + d \in Nat /\ 2 * d \in Nat \ {0}
  OBVIOUS
<1>2. a \in Nat /\ b \in Nat
  BY <1>1, DivisionBounds
<1>3. a * (2 * d) =< 2 * n + d
  BY <1>1, <1>2
<1>4. (a + 1) * (2 * d) =< 2 * m + d
  BY <1>2, <1>3
<1>5. a + 1 =< b
  BY <1>1, <1>2, <1>4, DivisionBounds
<1> QED BY <1>2, <1>5 DEF Contract!RoundHalfUp

-----------------------------------------------------------------------------
(* The mass of an event.                                                    *)

Times(a, b) == a * b
Product(q, i, c, m) == Times(Times(Times(q, i), c), m)
Mass(q, i, c, m) == Contract!RoundHalfUp(Product(q, i, c, m), Contract!Whole)
Grade == 45 .. 85
Independence == {100, 85, 60, 70}
Context == {75, 55}
Multiplier == {100, 65, 40, 25}

LEMMA TimesIsMonotone ==
    \A x, y, k \in Nat : Times(x, k) \in Nat /\ (x =< y => Times(x, k) =< Times(y, k))
<1>1. ASSUME NEW x \in Nat, NEW y \in Nat, NEW k \in Nat, x =< y PROVE x * k =< y * k
  <2>1. PICK z \in Nat : y = x + z
    <3>1. y - x \in Nat /\ y = x + (y - x)
      BY <1>1
    <3> QED BY <3>1
  <2>2. y * k = x * k + z * k /\ z * k \in Nat /\ x * k \in Nat
    BY <2>1
  <2> QED BY <2>2
<1>2. \A x, k \in Nat : x * k \in Nat
  OBVIOUS
<1> QED BY <1>1, <1>2 DEF Times

\* The factors of a mass, one after the other.
LEMMA Factors ==
    ASSUME NEW q \in Grade, NEW i \in Independence, NEW c \in Context, NEW m \in Multiplier
    PROVE  /\ Product(q, i, c, m) \in Nat
           /\ Contract!Whole =< Product(q, i, c, m) /\ Product(q, i, c, m) =< (100 * q) * Contract!Whole
           /\ \A k \in Multiplier : m < k => Product(q, i, c, m) + Contract!Whole =< Product(q, i, c, k)
           /\ \A r \in Grade : q =< r => Product(q, i, c, m) =< Product(r, i, c, m)
<1> DEFINE a == Times(q, i)
           b == Times(a, c)
<1>0. q \in Nat /\ 45 =< q
  BY DEF Grade
<1>1. a \in Nat /\ 60 * q =< a /\ a =< 100 * q
  BY <1>0 DEF Times, Independence
<1> HIDE DEF a
<1>2. b \in Nat /\ 3300 * q =< b /\ b =< 7500 * q
  BY <1>0, <1>1 DEF Times, Context
<1> HIDE DEF b
<1>3. Times(b, m) \in Nat /\ Contract!Whole =< Times(b, m) /\ Times(b, m) =< (100 * q) * Contract!Whole
  <2>1. Times(b, m) \in Nat /\ Times(b, m) >= 82500 * q /\ Times(b, m) =< 750000 * q
    BY <1>0, <1>2 DEF Times, Multiplier
  <2> QED BY <1>0, <2>1 DEF Contract!Whole
<1>4. ASSUME NEW k \in Multiplier, m < k PROVE Times(b, m) + Contract!Whole =< Times(b, k)
  <2>1. b >= 3300 * 45
    BY <1>0, <1>2
  <2>2. k - m >= 15 /\ k \in Nat /\ m \in Nat
    BY <1>4 DEF Multiplier
  <2> QED BY <1>2, <1>4, <2>1 DEF Times, Multiplier, Contract!Whole
<1>5. ASSUME NEW r \in Grade, q =< r PROVE Times(b, m) =< Product(r, i, c, m)
  <2> DEFINE u == Times(r, i)
             v == Times(u, c)
  <2>1. u \in Nat /\ a =< u
    <3>1. q \in Nat /\ r \in Nat /\ i \in Nat
      BY DEF Grade, Independence
    <3>2. u \in Nat
      BY <3>1, TimesIsMonotone
    <3>3. Times(q, i) =< Times(r, i)
      BY <1>5, <3>1, TimesIsMonotone
    <3> QED BY <3>2, <3>3 DEF a
  <2> HIDE DEF u
  <2>2. v \in Nat /\ b =< v
    <3>1. c \in Nat /\ a \in Nat /\ u \in Nat /\ a =< u
      BY <1>1, <2>1 DEF Context
    <3> QED BY <3>1, TimesIsMonotone DEF b
  <2> HIDE DEF v
  <2>3. Times(b, m) =< Times(v, m)
    <3>1. m \in Nat
      BY DEF Multiplier
    <3>2. b \in Nat /\ v \in Nat /\ b =< v
      BY <1>2, <2>2
    <3> HIDE DEF b
    <3> QED BY <3>1, <3>2, TimesIsMonotone
  <2> QED BY <2>3 DEF Product, u, v
<1> QED BY <1>3, <1>4, <1>5 DEF Product, a, b

\* An event is worth something, no more than its quality, and less with every repetition.
LEMMA MassBounds ==
    ASSUME NEW q \in Grade, NEW i \in Independence, NEW c \in Context, NEW m \in Multiplier
    PROVE  /\ Mass(q, i, c, m) \in 1 .. 100 * q
           /\ \A k \in Multiplier : m < k => Mass(q, i, c, m) < Mass(q, i, c, k)
           /\ \A r \in Grade : q =< r => Mass(q, i, c, m) =< Mass(r, i, c, m)
<1>1. /\ Product(q, i, c, m) \in Nat
      /\ Contract!Whole =< Product(q, i, c, m) /\ Product(q, i, c, m) =< (100 * q) * Contract!Whole
  BY Factors
<1>0. Contract!Whole \in Nat \ {0} /\ q \in Nat
  BY DEF Contract!Whole, Grade
<1>2. Mass(q, i, c, m) =< 100 * q
  BY <1>1, <1>0, RoundingIsMonotone DEF Mass
<1>3. Mass(q, i, c, m) \in Nat /\ Mass(q, i, c, m) >= 1
  <2>2. Contract!RoundHalfUp(0, Contract!Whole) < Contract!RoundHalfUp(Product(q, i, c, m), Contract!Whole)
    BY <1>1, <1>0, RoundingIsStrict
  <2>3. Contract!RoundHalfUp(0, Contract!Whole) \in Nat /\ Contract!RoundHalfUp(Product(q, i, c, m), Contract!Whole) \in Nat
    BY <1>1, <1>0, RoundingIsMonotone
  <2> QED BY <2>2, <2>3 DEF Mass
<1>4. ASSUME NEW k \in Multiplier, m < k PROVE Mass(q, i, c, m) < Mass(q, i, c, k)
  <2>1. Product(q, i, c, k) \in Nat /\ Product(q, i, c, m) + Contract!Whole =< Product(q, i, c, k)
    BY <1>4, Factors
  <2> QED BY <1>1, <1>0, <2>1, RoundingIsStrict DEF Mass
<1>5. ASSUME NEW r \in Grade, q =< r PROVE Mass(q, i, c, m) =< Mass(r, i, c, m)
  <2>1. Product(r, i, c, m) \in Nat /\ Product(q, i, c, m) =< Product(r, i, c, m)
    BY <1>5, Factors
  <2> QED BY <1>1, <1>0, <2>1, RoundingIsMonotone DEF Mass
<1> QED BY <1>2, <1>3, <1>4, <1>5, <1>0

-----------------------------------------------------------------------------
(* What an event is computed from.                                          *)

RuleType == [primary : (SUBSET Field) \ {{}}, supporting : (SUBSET Field) \ {{}}]
Points(condition, points) == IF condition THEN points ELSE 0

LEMMA InputType ==
    ASSUME NEW i \in Contract!EvidenceInput
    PROVE  /\ i.attempted \in BOOLEAN /\ i.completed \in BOOLEAN /\ i.text \in BOOLEAN /\ i.rated \in BOOLEAN
           /\ i.seen \in SUBSET Field /\ i.support \in Support
           /\ i.context \in {"first_record", "same_context", "varied_context", ""}
           /\ i.direction \in {"supports", "mixed", "contradicts", "inconclusive", ""}
           /\ i.index \in 1 .. MaxIndex
           /\ DOMAIN i = {"attempted", "completed", "seen", "support", "context", "direction",
                          "text", "rated", "index"}
BY DEF Contract!EvidenceInput, Contract!ContextFactor, Contract!ContradictionLevel

\* The check-in and the rules come back from a snapshot.
LEMMA SnapshotComesBack ==
    ASSUME NEW i \in Contract!EvidenceInput, NEW r
    PROVE  Contract!InputOf(Contract!Snapshot(i, r)) = i /\ Contract!Snapshot(i, r).rules = r
<1>1. /\ i = [k \in DOMAIN i |-> i[k]]
      /\ "rules" \notin DOMAIN i
  BY InputType DEF Contract!EvidenceInput
<1> QED BY <1>1 DEF Contract!InputOf, Contract!Snapshot

LEMMA FactorValues ==
    ASSUME NEW i \in Contract!EvidenceInput
    PROVE  /\ Contract!IndependenceFactor[i.support] \in Independence
           /\ Contract!ContextFactor[i.context] \in Context
           /\ Contract!RepetitionMultiplier(i.index) \in Multiplier
<1>1. i.support \in DOMAIN Contract!IndependenceFactor
  BY InputType, ContractAssumption
<1>2. Contract!IndependenceFactor[i.support] \in Independence
  BY <1>1 DEF Contract!IndependenceFactor, Independence
<1>3. Contract!ContextFactor[i.context] \in Context
  BY InputType DEF Contract!ContextFactor, Context
<1>4. i.index \in Nat \ {0}
  <2>1. i.index \in 1 .. MaxIndex
    BY InputType
  <2> QED BY <2>1, ContractAssumption
<1>5. Contract!RepetitionMultiplier(i.index) \in Multiplier
  BY <1>4 DEF Contract!RepetitionMultiplier, Multiplier
<1> QED BY <1>2, <1>3, <1>5

\* Each repetition counts less than the one before, until the fourth.
LEMMA RepetitionFalls ==
    ASSUME NEW n \in Nat \ {0}
    PROVE  /\ n < 4 => Contract!RepetitionMultiplier(n + 1) < Contract!RepetitionMultiplier(n)
           /\ n >= 4 => Contract!RepetitionMultiplier(n + 1) = Contract!RepetitionMultiplier(n)
BY DEF Contract!RepetitionMultiplier

LEMMA PointsType ==
    ASSUME NEW condition, NEW n \in Nat
    PROVE  Points(condition, n) \in Nat /\ Points(condition, n) =< n
BY DEF Points

\* The cap on the quality.
Capped(n) == IF n > 85 THEN 85 ELSE n

LEMMA CappedSums ==
    ASSUME NEW a \in Nat, NEW b \in Nat, NEW c \in Nat, NEW d \in Nat, NEW e \in Nat, NEW f \in Nat, NEW g \in Nat
    PROVE  /\ Capped(45 + a + b + c + d + e + f) \in Grade
           /\ e =< g => Capped(45 + a + b + c + d + e + f) =< Capped(45 + a + b + c + d + g + f)
BY DEF Capped, Grade

\* What a check-in says about the fields of the action, or in words.
Observed(i, r) == Points(i.seen \cap (r.primary \cup r.supporting) # {} \/ i.text, 10)

LEMMA QualityIs ==
    ASSUME NEW i, NEW r
    PROVE  Contract!Quality(i, r) =
               Capped(45 + Points(i.attempted, 10) + Points(i.direction # "", 10) + Points(i.support # "", 5)
                         + Points(i.context # "", 5) + Observed(i, r) + Points(i.rated, 5))
BY Zenon DEF Contract!Quality, Points, Capped, Observed

LEMMA QualityBounds ==
    ASSUME NEW i \in Contract!EvidenceInput, NEW r
    PROVE  Contract!Quality(i, r) \in Grade
<1> DEFINE a == Points(i.attempted, 10)
           b == Points(i.direction # "", 10)
           c == Points(i.support # "", 5)
           d == Points(i.context # "", 5)
           e == Observed(i, r)
           f == Points(i.rated, 5)
<1>1. a \in Nat /\ b \in Nat /\ c \in Nat /\ d \in Nat /\ e \in Nat /\ f \in Nat
  BY PointsType DEF Observed
<1>2. Contract!Quality(i, r) = Capped(45 + a + b + c + d + e + f)
  BY QualityIs, Zenon
<1> HIDE DEF a, b, c, d, e, f
<1> QED BY <1>1, <1>2, CappedSums

\* Two check-ins that agree on everything but the fields they mark, and record the direction both
\* or neither.
Alike(i, j) ==
    /\ i.attempted = j.attempted /\ Points(i.direction # "", 10) = Points(j.direction # "", 10)
    /\ i.support = j.support /\ i.context = j.context /\ i.text = j.text /\ i.rated = j.rated

\* The one that marks more is of
\* no lower quality, and of the same quality when it marks no more of the action's fields.
LEMMA QualityGrows ==
    ASSUME NEW i \in Contract!EvidenceInput, NEW j \in Contract!EvidenceInput, NEW r,
           Alike(i, j), i.seen \subseteq j.seen
    PROVE  /\ Contract!Quality(i, r) =< Contract!Quality(j, r)
           /\ i.seen \cap (r.primary \cup r.supporting) = j.seen \cap (r.primary \cup r.supporting)
                  => Contract!Quality(i, r) = Contract!Quality(j, r)
<1> DEFINE a == Points(i.attempted, 10)
           b == Points(i.direction # "", 10)
           c == Points(i.support # "", 5)
           d == Points(i.context # "", 5)
           e == Observed(i, r)
           g == Observed(j, r)
           f == Points(i.rated, 5)
<1>1. a \in Nat /\ b \in Nat /\ c \in Nat /\ d \in Nat /\ e \in Nat /\ g \in Nat /\ f \in Nat
  BY PointsType, Zenon DEF Observed
<1>2. Contract!Quality(i, r) = Capped(45 + a + b + c + d + e + f)
  BY QualityIs, Zenon
<1>3. Contract!Quality(j, r) = Capped(45 + a + b + c + d + g + f)
  BY QualityIs, Zenon DEF Alike
<1>4. e =< g
  <2>1. CASE i.seen \cap (r.primary \cup r.supporting) # {} \/ i.text
    <3>1. j.seen \cap (r.primary \cup r.supporting) # {} \/ j.text
      BY <2>1, Zenon DEF Alike
    <3>2. e = 10 /\ g = 10
      BY <2>1, <3>1, Zenon DEF Observed, Points
    <3> HIDE DEF e, g
    <3> QED BY <3>2
  <2>2. CASE ~(i.seen \cap (r.primary \cup r.supporting) # {} \/ i.text)
    <3>1. e = 0
      BY <2>2, Zenon DEF Observed, Points
    <3>2. g \in Nat
      BY PointsType DEF Observed
    <3> HIDE DEF e, g
    <3> QED BY <3>1, <3>2
  <2> QED BY <2>1, <2>2, Zenon
<1>5. i.seen \cap (r.primary \cup r.supporting) = j.seen \cap (r.primary \cup r.supporting) => e = g
  BY Zenon DEF Observed, Alike
<1> HIDE DEF a, b, c, d, e, f, g
<1>6. Capped(45 + a + b + c + d + e + f) =< Capped(45 + a + b + c + d + g + f)
  BY <1>1, <1>4, CappedSums
<1> QED BY <1>2, <1>3, <1>5, <1>6, Zenon

LEMMA ContractCardinality == ASSUME NEW S PROVE Contract!Cardinality(S) = Cardinality(S)
BY DEF Contract!Cardinality, Cardinality

\* The part of the fields that was seen.
Covered(i, r) ==
    2000 * Cardinality(r.primary \cap i.seen) * Cardinality(r.supporting)
    + 1000 * Cardinality(r.supporting \cap i.seen) * Cardinality(r.primary)

LEMMA CoveredGrows ==
    ASSUME NEW r \in RuleType, NEW i \in Contract!EvidenceInput, NEW j \in Contract!EvidenceInput,
           i.seen \subseteq j.seen
    PROVE  /\ Cardinality(r.primary) * Cardinality(r.supporting) \in Nat \ {0}
           /\ Covered(i, r) \in Nat /\ Covered(j, r) \in Nat
           /\ Covered(i, r) =< Covered(j, r)
           /\ Covered(i, r) =< 3000 * (Cardinality(r.primary) * Cardinality(r.supporting))
<1> DEFINE p == Cardinality(r.primary)
           s == Cardinality(r.supporting)
           a == Cardinality(r.primary \cap i.seen)
           b == Cardinality(r.supporting \cap i.seen)
           c == Cardinality(r.primary \cap j.seen)
           d == Cardinality(r.supporting \cap j.seen)
<1>1. /\ r.primary \in SUBSET Field /\ r.primary # {}
      /\ r.supporting \in SUBSET Field /\ r.supporting # {}
  BY DEF RuleType
<1>2. IsFiniteSet(r.primary) /\ IsFiniteSet(r.supporting)
  BY <1>1, ContractAssumption, FS_Subset
<1>3. p \in Nat \ {0} /\ s \in Nat \ {0}
  BY <1>1, <1>2, FS_CardinalityType, FS_EmptySet
<1>4. IsFiniteSet(r.primary \cap j.seen) /\ IsFiniteSet(r.supporting \cap j.seen)
  <2>1. r.primary \cap j.seen \subseteq r.primary /\ r.supporting \cap j.seen \subseteq r.supporting
    OBVIOUS
  <2> QED BY <1>2, <2>1, FS_Subset
<1>5. c \in Nat /\ c =< p
  <2>1. r.primary \cap j.seen \subseteq r.primary
    OBVIOUS
  <2> QED BY <1>2, <1>4, <2>1, FS_Subset, FS_CardinalityType
<1>6. d \in Nat /\ d =< s
  <2>1. r.supporting \cap j.seen \subseteq r.supporting
    OBVIOUS
  <2> QED BY <1>2, <1>4, <2>1, FS_Subset, FS_CardinalityType
<1>7. a \in Nat /\ a =< c
  <2>1. r.primary \cap i.seen \subseteq r.primary \cap j.seen
    OBVIOUS
  <2> QED BY <1>4, <2>1, FS_Subset, FS_CardinalityType
<1>8. b \in Nat /\ b =< d
  <2>1. r.supporting \cap i.seen \subseteq r.supporting \cap j.seen
    OBVIOUS
  <2> QED BY <1>4, <2>1, FS_Subset, FS_CardinalityType
<1> DEFINE C == Times(c, s)
           A == Times(a, s)
           D == Times(d, p)
           B == Times(b, p)
           P == Times(p, s)
<1> HIDE DEF p, s, a, b, c, d
<1>9. A \in Nat /\ C \in Nat /\ P \in Nat /\ A =< C /\ C =< P
  BY <1>3, <1>5, <1>7, TimesIsMonotone
<1>10. B \in Nat /\ D \in Nat /\ B =< D /\ D =< Times(s, p)
  BY <1>3, <1>6, <1>8, TimesIsMonotone
<1>11. Times(s, p) = P /\ P # 0
  BY <1>3, SMT DEF Times
<1>12. Covered(i, r) = 2000 * A + 1000 * B
  <2>1. Covered(i, r) = 2000 * a * s + 1000 * b * p
    BY Zenon DEF Covered, p, s, a, b
  <2>2. 2000 * a * s + 1000 * b * p = 2000 * A + 1000 * B
    BY <1>3, <1>5, <1>6, <1>7, <1>8, SMT DEF Times
  <2> QED BY <2>1, <2>2
<1>13. Covered(j, r) = 2000 * C + 1000 * D
  <2>1. Covered(j, r) = 2000 * c * s + 1000 * d * p
    BY Zenon DEF Covered, p, s, c, d
  <2>2. 2000 * c * s + 1000 * d * p = 2000 * C + 1000 * D
    BY <1>3, <1>5, <1>6, <1>7, <1>8, SMT DEF Times
  <2> QED BY <2>1, <2>2
<1>14. Cardinality(r.primary) * Cardinality(r.supporting) = P
  BY Zenon DEF p, s, Times
<1> HIDE DEF A, B, C, D, P
<1> QED BY <1>9, <1>10, <1>11, <1>12, <1>13, <1>14


\* What the two halves of a check-in and what was seen of the action add up to.
LEMMA PerformanceIs ==
    ASSUME NEW i, NEW r
    PROVE  Contract!Performance(i, r) =
               Points(i.attempted, 3500) + Points(i.completed, 3500)
               + Contract!RoundHalfUp(Covered(i, r), Cardinality(r.primary) * Cardinality(r.supporting))
<1> DEFINE n == 2000 * Contract!Cardinality(r.primary \cap i.seen) * Contract!Cardinality(r.supporting)
                + 1000 * Contract!Cardinality(r.supporting \cap i.seen) * Contract!Cardinality(r.primary)
           d == Contract!Cardinality(r.primary) * Contract!Cardinality(r.supporting)
           a == Points(i.attempted, 3500)
           b == Points(i.completed, 3500)
<1>1. Contract!Performance(i, r) = a + b + Contract!RoundHalfUp(n, d)
  BY DEF Contract!Performance, Points
<1>2. n = Covered(i, r) /\ d = Cardinality(r.primary) * Cardinality(r.supporting)
  BY ContractCardinality DEF Covered
<1> HIDE DEF n, d
<1> QED BY <1>1, <1>2

\* A performance is a share, and doing and seeing more is never a smaller one.
LEMMA PerformanceGrows ==
    ASSUME NEW r \in RuleType, NEW i \in Contract!EvidenceInput, NEW j \in Contract!EvidenceInput,
           i.attempted => j.attempted, i.completed => j.completed, i.seen \subseteq j.seen
    PROVE  /\ Contract!Performance(i, r) \in Nat /\ Contract!Performance(j, r) \in Nat
           /\ Contract!Performance(i, r) =< Contract!Performance(j, r)
           /\ Contract!Performance(j, r) =< Contract!Whole
<1> DEFINE w == Cardinality(r.primary) * Cardinality(r.supporting)
           m == Contract!RoundHalfUp(Covered(i, r), w)
           n == Contract!RoundHalfUp(Covered(j, r), w)
           a == Points(i.attempted, 3500)
           b == Points(i.completed, 3500)
           c == Points(j.attempted, 3500)
           d == Points(j.completed, 3500)
<1>1. /\ w \in Nat \ {0} /\ Covered(i, r) \in Nat /\ Covered(j, r) \in Nat
      /\ Covered(i, r) =< Covered(j, r) /\ Covered(i, r) =< 3000 * w
  BY CoveredGrows
<1>2. Covered(j, r) =< 3000 * w
  BY CoveredGrows
<1>3. Contract!Performance(i, r) = a + b + m
  BY PerformanceIs
<1>4. Contract!Performance(j, r) = c + d + n
  BY PerformanceIs
<1>5. a \in Nat /\ a =< c /\ c \in Nat /\ c =< 3500 /\ b \in Nat /\ b =< d /\ d \in Nat /\ d =< 3500
  BY DEF Points
<1> HIDE DEF a, b, c, d, w
<1>6. m \in Nat /\ m =< 3000 /\ m =< n
  BY <1>1, RoundingIsMonotone
<1>7. n \in Nat /\ n =< 3000
  BY <1>1, <1>2, RoundingIsMonotone
<1> HIDE DEF m, n
<1>8. a + b + m \in Nat /\ c + d + n \in Nat /\ a + b + m =< c + d + n
  BY <1>5, <1>6, <1>7
<1>9. c + d + n =< Contract!Whole
  BY <1>5, <1>7 DEF Contract!Whole
<1> QED BY <1>3, <1>4, <1>8, <1>9

LEMMA PerformanceStays ==
    ASSUME NEW r, NEW i, NEW j, i.attempted = j.attempted, i.completed = j.completed,
           r.primary \cap i.seen = r.primary \cap j.seen,
           r.supporting \cap i.seen = r.supporting \cap j.seen
    PROVE  Contract!Performance(i, r) = Contract!Performance(j, r)
<1>1. Covered(i, r) = Covered(j, r)
  BY DEF Covered
<1>2. Points(i.attempted, 3500) = Points(j.attempted, 3500) /\ Points(i.completed, 3500) = Points(j.completed, 3500)
  OBVIOUS
<1> QED BY <1>1, <1>2, PerformanceIs

\* What is stored of a check-in.
LEMMA EvaluateIs ==
    ASSUME NEW i, NEW r
    PROVE  LET e == Contract!Evaluate(i, r) IN
           /\ e.performance = Contract!Performance(i, r)
           /\ e.quality = 100 * Contract!Quality(i, r)
           /\ e.contradiction = Contract!Contradiction(i)
           /\ e.mass = Mass(Contract!Quality(i, r), Contract!IndependenceFactor[i.support],
                            Contract!ContextFactor[i.context], Contract!RepetitionMultiplier(i.index))
           /\ e.snapshot = Contract!Snapshot(i, r)
           /\ e.algorithm = "GG-EVIDENCE-1.0"
<1> DEFINE e == Contract!Evaluate(i, r)
<1>1. /\ e.performance = Contract!Performance(i, r)
      /\ e.quality = 100 * Contract!Quality(i, r)
      /\ e.contradiction = Contract!Contradiction(i)
      /\ e.snapshot = Contract!Snapshot(i, r)
      /\ e.algorithm = "GG-EVIDENCE-1.0"
  BY DEF Contract!Evaluate
<1>2. e.mass = Contract!Mass(Contract!Quality(i, r), i)
  BY DEF Contract!Evaluate
<1>3. Contract!Mass(Contract!Quality(i, r), i) =
          Mass(Contract!Quality(i, r), Contract!IndependenceFactor[i.support],
               Contract!ContextFactor[i.context], Contract!RepetitionMultiplier(i.index))
  BY DEF Contract!Mass, Mass, Product, Times
<1> HIDE DEF e
<1>4. e.mass = Mass(Contract!Quality(i, r), Contract!IndependenceFactor[i.support],
                    Contract!ContextFactor[i.context], Contract!RepetitionMultiplier(i.index))
  BY <1>2, <1>3, Zenon
<1> QED BY <1>1, <1>4, Zenon DEF e

-----------------------------------------------------------------------------
(* The properties of a stored event, one by one.                            *)

\* The event of the check-in and the rules that were in force.
ContractInv ==
    /\ input \in Contract!EvidenceInput
    /\ rules \in EvidenceRules
    /\ event # Contract!NoEvent => \E r \in EvidenceRules : event = Contract!Evaluate(input, r)

LEMMA EvidenceInRange ==
    ASSUME ContractInv PROVE Contract!StoredInRange
<1> SUFFICES ASSUME Contract!Recorded
             PROVE  /\ event.performance \in 0 .. Contract!Whole
                    /\ event.quality \in 100 * 45 .. 100 * 85
                    /\ event.mass \in 1 .. event.quality
                    /\ event.contradiction \in 0 .. Contract!Whole \cup {Contract!Unknown}
  BY SMT DEF Contract!StoredInRange
<1>1. PICK r \in EvidenceRules : event = Contract!Evaluate(input, r)
  BY DEF ContractInv, Contract!Recorded
<1>2. r \in RuleType /\ input \in Contract!EvidenceInput
  BY ContractAssumption DEF RuleType, ContractInv
<1> DEFINE q == Contract!Quality(input, r)
           m == Mass(q, Contract!IndependenceFactor[input.support],
                     Contract!ContextFactor[input.context], Contract!RepetitionMultiplier(input.index))
<1>3. q \in Grade
  BY <1>2, QualityBounds
<1>4. /\ event.performance = Contract!Performance(input, r) /\ event.quality = 100 * q
      /\ event.contradiction = Contract!Contradiction(input) /\ event.mass = m
  BY <1>1, EvaluateIs
<1>5. event.performance \in 0 .. Contract!Whole
  <2>1. Contract!Performance(input, r) \in Nat /\ Contract!Performance(input, r) =< Contract!Whole
    BY <1>2, PerformanceGrows
  <2>2. Contract!Whole \in Nat
    BY DEF Contract!Whole
  <2> HIDE DEF q, m
  <2> QED BY <1>4, <2>1, <2>2
<1>6. event.quality \in 100 * 45 .. 100 * 85
  <2>1. event.quality = 100 * q
    BY <1>4
  <2> HIDE DEF q, m
  <2>2. q \in Nat /\ 45 =< q /\ q =< 85
    BY <1>3 DEF Grade
  <2>3. \A k \in Nat : 45 =< k /\ k =< 85 => 100 * k \in 100 * 45 .. 100 * 85
    OBVIOUS
  <2>4. 100 * q \in 100 * 45 .. 100 * 85
    BY <2>2, <2>3
  <2> QED BY <2>1, <2>4
<1>7. event.mass \in 1 .. event.quality
  <2> HIDE DEF q
  <2> DEFINE I == Contract!IndependenceFactor[input.support]
             C == Contract!ContextFactor[input.context]
             M == Contract!RepetitionMultiplier(input.index)
  <2>2. I \in Independence /\ C \in Context /\ M \in Multiplier
    BY <1>2, FactorValues
  <2>3. m = Mass(q, I, C, M)
    OBVIOUS
  <2> HIDE DEF I, C, M, m
  <2>1. m \in 1 .. 100 * q
    BY <1>3, <2>2, <2>3, MassBounds
  <2> HIDE DEF m
  <2> QED BY <1>4, <2>1
<1>8. event.contradiction \in 0 .. Contract!Whole \cup {Contract!Unknown}
  <2>1. input.direction \in {"supports", "mixed", "contradicts", "inconclusive", ""}
    BY <1>2, InputType
  <2>2. Contract!Contradiction(input) \in {0, Contract!Half, Contract!Whole, Contract!Unknown}
    <3>1. CASE input.direction # ""
      <4>1. Contract!Contradiction(input) = Contract!ContradictionLevel[input.direction]
        BY <3>1, Zenon DEF Contract!Contradiction
      <4>2. input.direction \in {"supports", "mixed", "contradicts", "inconclusive"}
        BY <2>1, <3>1
      <4> HIDE DEF q, m
      <4>3. Contract!ContradictionLevel[input.direction] \in {0, Contract!Half, Contract!Whole}
        BY <4>2 DEF Contract!ContradictionLevel
      <4> QED BY <4>1, <4>3, Zenon
    <3>2. CASE input.direction = ""
      BY <3>2, Zenon DEF Contract!Contradiction
    <3> QED BY <3>1, <3>2
  <2>3. Contract!Half \in Nat /\ Contract!Whole \in Nat /\ Contract!Half =< Contract!Whole
    BY DEF Contract!Half, Contract!Whole
  <2>4. 0 \in 0 .. Contract!Whole /\ Contract!Half \in 0 .. Contract!Whole /\ Contract!Whole \in 0 .. Contract!Whole
    BY <2>3
  <2> HIDE DEF q, m
  <2> QED BY <1>4, <2>2, <2>4
<1> HIDE DEF q, m
<1> QED BY <1>5, <1>6, <1>7, <1>8, SMT

LEMMA EvidenceReplays ==
    ASSUME ContractInv PROVE Contract!EventsReplay
<1> SUFFICES ASSUME Contract!Recorded PROVE Contract!Verifies(event)
  BY DEF Contract!EventsReplay
<1>1. PICK r \in EvidenceRules : event = Contract!Evaluate(input, r)
  BY DEF ContractInv, Contract!Recorded
<1>2. event.snapshot = Contract!Snapshot(input, r)
  BY <1>1, EvaluateIs
<1>3. Contract!InputOf(event.snapshot) = input /\ event.snapshot.rules = r
  BY <1>2, SnapshotComesBack DEF ContractInv
<1> QED BY <1>1, <1>3, Zenon DEF Contract!Verifies, Contract!Replay


LEMMA RecordedEvent ==
    ASSUME ContractInv, Contract!Recorded
    PROVE  /\ input \in Contract!EvidenceInput
           /\ \E r \in RuleType : event = Contract!Evaluate(input, r) /\ event.snapshot.rules = r
<1>1. PICK r \in EvidenceRules : event = Contract!Evaluate(input, r)
  BY DEF ContractInv, Contract!Recorded
<1>2. r \in RuleType /\ input \in Contract!EvidenceInput
  BY ContractAssumption DEF RuleType, ContractInv
<1>3. event.snapshot.rules = r
  <2>1. event.snapshot = Contract!Snapshot(input, r)
    BY <1>1, EvaluateIs
  <2> QED BY <1>2, <2>1, SnapshotComesBack
<1> QED BY <1>1, <1>2, <1>3

\* The factors of the mass of two check-ins, side by side.
LEMMA MassesCompare ==
    ASSUME NEW i \in Contract!EvidenceInput, NEW j \in Contract!EvidenceInput, NEW r,
           i.support = j.support, i.context = j.context
    PROVE  LET m == Contract!Evaluate(i, r).mass
               n == Contract!Evaluate(j, r).mass
           IN  /\ i.index = j.index /\ Contract!Quality(i, r) =< Contract!Quality(j, r) => m =< n
               /\ i.index = j.index /\ Contract!Quality(i, r) = Contract!Quality(j, r) => m = n
               /\ Contract!Quality(i, r) = Contract!Quality(j, r)
                    => /\ Contract!RepetitionMultiplier(j.index) < Contract!RepetitionMultiplier(i.index) => n < m
                       /\ Contract!RepetitionMultiplier(j.index) = Contract!RepetitionMultiplier(i.index) => n = m
<1> DEFINE p == Contract!Quality(i, r)
           q == Contract!Quality(j, r)
           I == Contract!IndependenceFactor[i.support]
           C == Contract!ContextFactor[i.context]
           M == Contract!RepetitionMultiplier(i.index)
           N == Contract!RepetitionMultiplier(j.index)
<1>1. Contract!Evaluate(i, r).mass = Mass(p, I, C, M)
  BY EvaluateIs
<1>2. Contract!Evaluate(j, r).mass = Mass(q, I, C, N)
  BY EvaluateIs
<1>3. p \in Grade /\ q \in Grade
  BY QualityBounds
<1>4. I \in Independence /\ C \in Context /\ M \in Multiplier /\ N \in Multiplier
  BY FactorValues
<1>5. i.index = j.index => M = N
  OBVIOUS
<1> HIDE DEF p, q, I, C, M, N
<1>6. p =< q => Mass(p, I, C, M) =< Mass(q, I, C, M)
  BY <1>3, <1>4, MassBounds
<1>7. N < M => Mass(p, I, C, N) < Mass(p, I, C, M)
  BY <1>3, <1>4, MassBounds
<1> QED BY <1>1, <1>2, <1>5, <1>6, <1>7, Zenon DEF p, q, M, N

LEMMA EvidenceDiminishes ==
    ASSUME ContractInv PROVE Contract!RepetitionDiminishes
<1> DEFINE j == [input EXCEPT !.index = @ + 1]
<1> SUFFICES ASSUME Contract!Recorded, input.index < MaxIndex
             PROVE  LET next == Contract!Evaluate(j, event.snapshot.rules)
                    IN  /\ IF input.index < 4 THEN next.mass < event.mass ELSE next.mass = event.mass
                        /\ next.performance = event.performance /\ next.quality = event.quality
  BY Zenon DEF Contract!RepetitionDiminishes
<1>1. PICK r \in RuleType : event = Contract!Evaluate(input, r) /\ event.snapshot.rules = r
  BY RecordedEvent
<1>2. input \in Contract!EvidenceInput
  BY RecordedEvent
<1>3. input.index \in Nat \ {0} /\ input.index + 1 \in 1 .. MaxIndex
  <2>1. input.index \in 1 .. MaxIndex
    BY <1>2, InputType
  <2> QED BY <2>1, ContractAssumption
<1>4. j \in Contract!EvidenceInput
  BY <1>2, <1>3 DEF Contract!EvidenceInput
<1>5. /\ j.index = input.index + 1 /\ j.attempted = input.attempted /\ j.completed = input.completed
      /\ j.direction = input.direction /\ j.support = input.support /\ j.context = input.context
      /\ j.text = input.text /\ j.rated = input.rated /\ j.seen = input.seen
  BY <1>2, InputType
<1> HIDE DEF j
<1>6. Contract!Quality(input, r) = Contract!Quality(j, r)
  <2>1. Alike(input, j) /\ input.seen \subseteq j.seen
        /\ input.seen \cap (r.primary \cup r.supporting) = j.seen \cap (r.primary \cup r.supporting)
    BY <1>5, Zenon DEF Alike
  <2> QED BY <1>2, <1>4, <2>1, QualityGrows
<1>7. Contract!Performance(input, r) = Contract!Performance(j, r)
  BY <1>5, PerformanceStays
<1> DEFINE next == Contract!Evaluate(j, r)
<1>8. next.performance = event.performance /\ next.quality = event.quality
  BY <1>1, <1>6, <1>7, EvaluateIs
<1>9. input.index < 4 => next.mass < event.mass
  <2>1. input.index < 4 =>
            Contract!RepetitionMultiplier(j.index) < Contract!RepetitionMultiplier(input.index)
    BY <1>3, <1>5, RepetitionFalls
  <2> QED BY <1>1, <1>2, <1>4, <1>5, <1>6, <2>1, MassesCompare
<1>10. ~(input.index < 4) => next.mass = event.mass
  <2>1. ~(input.index < 4) =>
            Contract!RepetitionMultiplier(j.index) = Contract!RepetitionMultiplier(input.index)
    BY <1>3, <1>5, RepetitionFalls
  <2> QED BY <1>1, <1>2, <1>4, <1>5, <1>6, <2>1, MassesCompare
<1> QED BY <1>1, <1>8, <1>9, <1>10, Zenon

LEMMA DirectionsWeighAlike ==
    ASSUME NEW a, NEW b, a # "", b # "" PROVE Points(a # "", 10) = Points(b # "", 10)
BY DEF Points

LEMMA EvidenceDirection ==
    ASSUME ContractInv PROVE Contract!DirectionIsSeparate
<1> SUFFICES ASSUME Contract!Recorded, input.direction # "", NEW d \in DOMAIN Contract!ContradictionLevel
             PROVE  LET other == Contract!Evaluate([input EXCEPT !.direction = d], event.snapshot.rules)
                    IN  other.mass = event.mass /\ other.performance = event.performance
  BY Zenon DEF Contract!DirectionIsSeparate
<1> DEFINE j == [input EXCEPT !.direction = d]
<1>1. PICK r \in RuleType : event = Contract!Evaluate(input, r) /\ event.snapshot.rules = r
  BY RecordedEvent
<1>2. input \in Contract!EvidenceInput
  BY RecordedEvent
<1>3. j \in Contract!EvidenceInput
  BY <1>2 DEF Contract!EvidenceInput
<1>4. /\ j.index = input.index /\ j.attempted = input.attempted /\ j.completed = input.completed
      /\ j.direction = d /\ j.support = input.support /\ j.context = input.context
      /\ j.text = input.text /\ j.rated = input.rated /\ j.seen = input.seen
  BY <1>2, InputType
<1>5. d # ""
  BY DEF Contract!ContradictionLevel
<1> HIDE DEF j
<1>6. Contract!Quality(input, r) = Contract!Quality(j, r)
  <2>1. Points(input.direction # "", 10) = Points(j.direction # "", 10)
    <3>1. j.direction # ""
      BY <1>4, <1>5, Zenon
    <3> QED BY <3>1, DirectionsWeighAlike, Zenon
  <2>2. Alike(input, j) /\ input.seen \subseteq j.seen
        /\ input.seen \cap (r.primary \cup r.supporting) = j.seen \cap (r.primary \cup r.supporting)
    BY <1>4, <2>1, Zenon DEF Alike
  <2> QED BY <1>2, <1>3, <2>2, QualityGrows
<1>7. Contract!Performance(input, r) = Contract!Performance(j, r)
  BY <1>4, PerformanceStays
<1> DEFINE other == Contract!Evaluate(j, r)
<1>8. other.performance = event.performance
  <2>1. other.performance = Contract!Performance(j, r) /\ event.performance = Contract!Performance(input, r)
    BY <1>1, EvaluateIs, Zenon
  <2> QED BY <1>7, <2>1, Zenon
<1>9. other.mass = event.mass
  BY <1>1, <1>2, <1>3, <1>4, <1>6, MassesCompare
<1> QED BY <1>1, <1>8, <1>9, Zenon DEF j

\* A check-in that says at least what another one says, and does not record guidance it left open.
SaysMore(i, j) ==
    /\ i.attempted => j.attempted
    /\ i.completed => j.completed
    /\ i.text => j.text
    /\ i.rated => j.rated
    /\ i.seen \subseteq j.seen /\ i.index = j.index
    /\ i.direction # "" => j.direction # ""
    /\ i.context = j.context \/ i.context = ""
    /\ i.support = j.support \/ (i.support = "" /\ j.support \notin {"", "guided"})

LEMMA OneMoreSaysMore ==
    ASSUME NEW i \in Contract!EvidenceInput, NEW j \in Contract!OneMore(i)
    PROVE  j \in Contract!EvidenceInput /\ SaysMore(i, j)
<1>1. CASE \E f \in Field \ i.seen : j = [i EXCEPT !.seen = @ \cup {f}]
  <2>1. PICK f \in Field : j = [i EXCEPT !.seen = @ \cup {f}]
    BY <1>1
  <2>2. i.seen \cup {f} \in SUBSET Field
    BY InputType
  <2> QED BY <2>1, <2>2 DEF Contract!EvidenceInput, SaysMore
<1>2. CASE \/ j = [i EXCEPT !.attempted = TRUE] \/ j = [i EXCEPT !.attempted = TRUE, !.completed = TRUE]
           \/ j = [i EXCEPT !.text = TRUE] \/ j = [i EXCEPT !.rated = TRUE]
  BY <1>2 DEF Contract!EvidenceInput, SaysMore
<1>3. CASE i.direction = "" /\ \E d \in DOMAIN Contract!ContradictionLevel : j = [i EXCEPT !.direction = d]
  BY <1>3 DEF Contract!EvidenceInput, SaysMore
<1>4. CASE i.context = "" /\ \E c \in DOMAIN Contract!ContextFactor : j = [i EXCEPT !.context = c]
  BY <1>4 DEF Contract!EvidenceInput, SaysMore
<1>5. CASE i.support = "" /\ \E s \in Support \ {"", "guided"} : j = [i EXCEPT !.support = s]
  BY <1>5 DEF Contract!EvidenceInput, SaysMore
<1> QED BY <1>1, <1>2, <1>3, <1>4, <1>5 DEF Contract!OneMore

LEMMA PointsGrow ==
    ASSUME NEW A, NEW B, A => B, NEW n \in Nat PROVE Points(A, n) =< Points(B, n)
BY DEF Points

LEMMA QualityRises ==
    ASSUME NEW i \in Contract!EvidenceInput, NEW j \in Contract!EvidenceInput, NEW r, SaysMore(i, j)
    PROVE  Contract!Quality(i, r) =< Contract!Quality(j, r)
<1> DEFINE a(k) == Points(k.attempted, 10)
           b(k) == Points(k.direction # "", 10)
           c(k) == Points(k.support # "", 5)
           d(k) == Points(k.context # "", 5)
           e(k) == Observed(k, r)
           f(k) == Points(k.rated, 5)
<1>1. /\ a(i) \in Nat /\ b(i) \in Nat /\ c(i) \in Nat /\ d(i) \in Nat /\ e(i) \in Nat /\ f(i) \in Nat
      /\ a(j) \in Nat /\ b(j) \in Nat /\ c(j) \in Nat /\ d(j) \in Nat /\ e(j) \in Nat /\ f(j) \in Nat
  BY PointsType, Zenon DEF Observed
<1>2. /\ Contract!Quality(i, r) = Capped(45 + a(i) + b(i) + c(i) + d(i) + e(i) + f(i))
      /\ Contract!Quality(j, r) = Capped(45 + a(j) + b(j) + c(j) + d(j) + e(j) + f(j))
  BY QualityIs, Zenon
<1>3. a(i) =< a(j)
  BY PointsGrow DEF SaysMore
<1>4. b(i) =< b(j)
  BY PointsGrow DEF SaysMore
<1>5. c(i) =< c(j)
  <2>1. i.support # "" => j.support # ""
    BY DEF SaysMore
  <2> QED BY <2>1, PointsGrow
<1>6. d(i) =< d(j)
  <2>1. i.context # "" => j.context # ""
    BY DEF SaysMore
  <2> QED BY <2>1, PointsGrow
<1>7. e(i) =< e(j)
  <2>1. (i.seen \cap (r.primary \cup r.supporting) # {} \/ i.text)
            => (j.seen \cap (r.primary \cup r.supporting) # {} \/ j.text)
    BY DEF SaysMore
  <2> QED BY <2>1, PointsGrow DEF Observed
<1>8. f(i) =< f(j)
  BY PointsGrow DEF SaysMore
<1> HIDE DEF a, b, c, d, e, f
<1>9. Capped(45 + a(i) + b(i) + c(i) + d(i) + e(i) + f(i)) =< Capped(45 + a(j) + b(j) + c(j) + d(j) + e(j) + f(j))
  BY <1>1, <1>3, <1>4, <1>5, <1>6, <1>7, <1>8 DEF Capped
<1> QED BY <1>2, <1>9

\* A mass grows with each of its factors.
LEMMA MassRises ==
    ASSUME NEW q \in Grade, NEW i \in Independence, NEW c \in Context, NEW m \in Multiplier,
           NEW r \in Grade, NEW j \in Independence, NEW d \in Context, q =< r, i =< j, c =< d
    PROVE  Mass(q, i, c, m) =< Mass(r, j, d, m)
<1>1. /\ q \in Nat /\ r \in Nat /\ i \in Nat /\ j \in Nat /\ c \in Nat /\ d \in Nat /\ m \in Nat
  BY DEF Grade, Independence, Context, Multiplier
<1>2. \A x, y, u, v \in Nat : x =< y /\ u =< v => Times(x, u) \in Nat /\ Times(x, u) =< Times(y, v)
  <2> SUFFICES ASSUME NEW x \in Nat, NEW y \in Nat, NEW u \in Nat, NEW v \in Nat, x =< y, u =< v
               PROVE  Times(x, u) \in Nat /\ Times(x, u) =< Times(y, v)
    OBVIOUS
  <2>1. Times(x, u) \in Nat /\ Times(y, u) \in Nat /\ Times(x, u) =< Times(y, u)
    BY TimesIsMonotone
  <2>2. Times(u, y) \in Nat /\ Times(v, y) \in Nat /\ Times(u, y) =< Times(v, y)
    BY TimesIsMonotone
  <2>3. Times(y, u) = Times(u, y) /\ Times(y, v) = Times(v, y)
    BY DEF Times
  <2> QED BY <2>1, <2>2, <2>3
<1>3. Times(q, i) \in Nat /\ Times(r, j) \in Nat /\ Times(q, i) =< Times(r, j)
  BY <1>1, <1>2
<1>4. /\ Times(Times(q, i), c) \in Nat /\ Times(Times(r, j), d) \in Nat
      /\ Times(Times(q, i), c) =< Times(Times(r, j), d)
  BY <1>1, <1>2, <1>3
<1>5. Product(q, i, c, m) \in Nat /\ Product(r, j, d, m) \in Nat /\ Product(q, i, c, m) =< Product(r, j, d, m)
  BY <1>1, <1>2, <1>4 DEF Product
<1> QED BY <1>5, RoundingIsMonotone DEF Mass, Contract!Whole

\* The points for recording the support do not make up for what guidance takes away.
LEMMA GuidanceCosts ==
    ASSUME NEW q \in Grade, NEW r \in Grade, NEW c \in Context, NEW m \in Multiplier, r =< q + 5
    PROVE  Mass(r, 60, c, m) < Mass(q, 70, c, m)
<1> DEFINE a == Times(q, 70)
           b == Times(r, 60)
<1>1. a \in Nat /\ b \in Nat /\ b + 150 =< a
  BY DEF Times, Grade
<1> HIDE DEF a, b
<1> DEFINE u == Times(a, c)
           v == Times(b, c)
<1>2. u \in Nat /\ v \in Nat /\ v + 8250 =< u
  BY <1>1 DEF Times, Context
<1> HIDE DEF u, v
<1>3. Times(u, m) \in Nat /\ Times(v, m) \in Nat /\ Times(v, m) + Contract!Whole =< Times(u, m)
  BY <1>2 DEF Times, Multiplier, Contract!Whole
<1>4. Product(q, 70, c, m) = Times(u, m) /\ Product(r, 60, c, m) = Times(v, m)
  BY DEF Product, a, b, u, v
<1> QED BY <1>3, <1>4, RoundingIsStrict DEF Mass, Contract!Whole

LEMMA EvidenceGrows ==
    ASSUME ContractInv, Contract!Recorded, NEW j \in Contract!OneMore(input)
    PROVE  LET other == Contract!Evaluate(j, event.snapshot.rules)
           IN  other.performance >= event.performance /\ other.mass >= event.mass
<1>1. PICK r \in RuleType : event = Contract!Evaluate(input, r) /\ event.snapshot.rules = r
  BY RecordedEvent
<1>2. input \in Contract!EvidenceInput
  BY RecordedEvent
<1>3. j \in Contract!EvidenceInput /\ SaysMore(input, j)
  BY <1>2, OneMoreSaysMore
<1> DEFINE other == Contract!Evaluate(j, r)
<1>4. other.performance >= event.performance
  <2>1. /\ Contract!Performance(input, r) \in Nat /\ Contract!Performance(j, r) \in Nat
        /\ Contract!Performance(input, r) =< Contract!Performance(j, r)
    BY <1>2, <1>3, PerformanceGrows DEF SaysMore
  <2> QED BY <1>1, <2>1, EvaluateIs
<1>5. other.mass >= event.mass
  <2> DEFINE p == Contract!Quality(input, r)
             q == Contract!Quality(j, r)
             I == Contract!IndependenceFactor[input.support]
             K == Contract!IndependenceFactor[j.support]
             C == Contract!ContextFactor[input.context]
             D == Contract!ContextFactor[j.context]
             M == Contract!RepetitionMultiplier(input.index)
  <2>1. p \in Grade /\ q \in Grade /\ p =< q
    BY <1>2, <1>3, QualityBounds, QualityRises
  <2>2. I \in Independence /\ K \in Independence /\ C \in Context /\ D \in Context /\ M \in Multiplier
    BY <1>2, <1>3, FactorValues
  <2>3. I =< K
    <3>1. CASE input.support = j.support
      BY <2>2, <3>1 DEF Independence
    <3>2. CASE input.support = "" /\ j.support \notin {"", "guided"}
      <4>1. j.support \in {"independent", "planning_aid"}
        BY <1>3, <3>2, InputType, ContractAssumption DEF Contract!IndependenceFactor
      <4>2. I = 70 /\ K \in {100, 85}
        BY <3>2, <4>1 DEF Contract!IndependenceFactor
      <4> QED BY <4>2
    <3> QED BY <1>3, <3>1, <3>2 DEF SaysMore
  <2>4. C =< D
    <3>1. CASE input.context = j.context
      BY <2>2, <3>1 DEF Context
    <3>2. CASE input.context = ""
      <4>1. C = 55
        BY <3>2 DEF Contract!ContextFactor
      <4> QED BY <2>2, <4>1 DEF Context
    <3> QED BY <1>3, <3>1, <3>2 DEF SaysMore
  <2>5. other.mass = Mass(q, K, D, M) /\ event.mass = Mass(p, I, C, M)
    <3>1. j.index = input.index
      BY <1>3 DEF SaysMore
    <3> QED BY <1>1, <3>1, EvaluateIs, Zenon
  <2>6. Mass(p, I, C, M) \in Nat /\ Mass(q, K, D, M) \in Nat
    <3>1. Mass(p, I, C, M) \in 1 .. 100 * p /\ Mass(q, K, D, M) \in 1 .. 100 * q
      BY <2>1, <2>2, MassBounds
    <3> QED BY <3>1
  <2> HIDE DEF p, q, I, K, C, D, M, other
  <2>7. Mass(p, I, C, M) =< Mass(q, K, D, M)
    BY <2>1, <2>2, <2>3, <2>4, MassRises
  <2> QED BY <2>5, <2>6, <2>7
<1> QED BY <1>1, <1>4, <1>5, Zenon

\* What belongs to another action changes neither the performance nor the mass.
LEMMA ForeignFieldsCountForNothing ==
    ASSUME ContractInv, Contract!Recorded,
           NEW f \in Field \ (event.snapshot.rules.primary \cup event.snapshot.rules.supporting)
    PROVE  LET other == Contract!Evaluate([input EXCEPT !.seen = @ \cup {f}], event.snapshot.rules)
           IN  other.performance = event.performance /\ other.mass = event.mass
<1> DEFINE j == [input EXCEPT !.seen = @ \cup {f}]
<1>1. PICK r \in RuleType : event = Contract!Evaluate(input, r) /\ event.snapshot.rules = r
  BY RecordedEvent
<1>2. input \in Contract!EvidenceInput
  BY RecordedEvent
<1>3. j \in Contract!EvidenceInput
  <2>1. input.seen \cup {f} \in SUBSET Field
    BY <1>2, InputType
  <2> QED BY <1>2, <2>1 DEF Contract!EvidenceInput
<1>4. /\ j.index = input.index /\ j.attempted = input.attempted /\ j.completed = input.completed
      /\ j.direction = input.direction /\ j.support = input.support /\ j.context = input.context
      /\ j.text = input.text /\ j.rated = input.rated /\ j.seen = input.seen \cup {f}
  BY <1>2, InputType
<1> HIDE DEF j
<1>5. /\ r.primary \cap j.seen = r.primary \cap input.seen
      /\ r.supporting \cap j.seen = r.supporting \cap input.seen
      /\ input.seen \cap (r.primary \cup r.supporting) = j.seen \cap (r.primary \cup r.supporting)
  BY <1>1, <1>4
<1>6. Contract!Quality(input, r) = Contract!Quality(j, r)
  <2>1. Alike(input, j) /\ input.seen \subseteq j.seen
    BY <1>4, Zenon DEF Alike
  <2> QED BY <1>2, <1>3, <1>5, <2>1, QualityGrows
<1>7. Contract!Performance(input, r) = Contract!Performance(j, r)
  BY <1>4, <1>5, PerformanceStays
<1>8. LET other == Contract!Evaluate(j, r) IN other.performance = event.performance /\ other.mass = event.mass
  BY <1>1, <1>2, <1>3, <1>4, <1>6, <1>7, EvaluateIs, MassesCompare
<1> QED BY <1>1, <1>8, Zenon DEF j

LEMMA FiveMore ==
    ASSUME NEW a \in Nat, NEW b \in Nat, NEW d \in Nat, NEW e \in Nat, NEW f \in Nat
    PROVE  Capped(45 + a + b + 5 + d + e + f) =< Capped(45 + a + b + 0 + d + e + f) + 5
BY DEF Capped

LEMMA GuidedIsWorthLess ==
    ASSUME ContractInv, Contract!Recorded, input.support = "", "guided" \in Support
    PROVE  Contract!Evaluate([input EXCEPT !.support = "guided"], event.snapshot.rules).mass < event.mass
<1> DEFINE j == [input EXCEPT !.support = "guided"]
<1>1. PICK r \in RuleType : event = Contract!Evaluate(input, r) /\ event.snapshot.rules = r
  BY RecordedEvent
<1>2. input \in Contract!EvidenceInput
  BY RecordedEvent
<1>3. j \in Contract!EvidenceInput
  BY <1>2 DEF Contract!EvidenceInput
<1>4. /\ j.index = input.index /\ j.attempted = input.attempted /\ j.completed = input.completed
      /\ j.direction = input.direction /\ j.support = "guided" /\ j.context = input.context
      /\ j.text = input.text /\ j.rated = input.rated /\ j.seen = input.seen
  BY <1>2, InputType
<1> HIDE DEF j
<1> DEFINE p == Contract!Quality(input, r)
           q == Contract!Quality(j, r)
           C == Contract!ContextFactor[input.context]
           M == Contract!RepetitionMultiplier(input.index)
<1>5. p \in Grade /\ q \in Grade /\ C \in Context /\ M \in Multiplier
  BY <1>2, <1>3, QualityBounds, FactorValues
<1>6. q =< p + 5
  <2> DEFINE a == Points(input.attempted, 10)
             b == Points(input.direction # "", 10)
             d == Points(input.context # "", 5)
             e == Observed(input, r)
             f == Points(input.rated, 5)
  <2>1. a \in Nat /\ b \in Nat /\ d \in Nat /\ e \in Nat /\ f \in Nat
    BY PointsType DEF Observed
  <2>2. p = Capped(45 + a + b + Points(input.support # "", 5) + d + e + f)
    BY QualityIs, Zenon
  <2>3. q = Capped(45 + a + b + Points(j.support # "", 5) + d + e + f)
    <3>1. Observed(j, r) = e
      BY <1>4, Zenon DEF Observed
    <3> QED BY <1>4, <3>1, QualityIs, Zenon
  <2>4. Points(input.support # "", 5) = 0 /\ Points(j.support # "", 5) = 5
    BY <1>4 DEF Points
  <2>5. p = Capped(45 + a + b + 0 + d + e + f) /\ q = Capped(45 + a + b + 5 + d + e + f)
    BY <2>2, <2>3, <2>4, Zenon
  <2> HIDE DEF a, b, d, e, f, p, q
  <2> QED BY <2>1, <2>5, FiveMore, Zenon
<1>7. event.mass = Mass(p, 70, C, M) /\ Contract!Evaluate(j, r).mass = Mass(q, 60, C, M)
  <2>1. Contract!IndependenceFactor[input.support] = 70 /\ Contract!IndependenceFactor[j.support] = 60
    BY <1>4 DEF Contract!IndependenceFactor
  <2>2. event.mass = Mass(p, Contract!IndependenceFactor[input.support], C, M)
    BY <1>1, EvaluateIs, Zenon
  <2>3. Contract!Evaluate(j, r).mass = Mass(q, Contract!IndependenceFactor[j.support], C, M)
    BY <1>4, EvaluateIs, Zenon
  <2> QED BY <2>1, <2>2, <2>3, Zenon
<1> HIDE DEF p, q, C, M
<1>8. Mass(q, 60, C, M) < Mass(p, 70, C, M)
  BY <1>5, <1>6, GuidanceCosts
<1> QED BY <1>1, <1>7, <1>8, Zenon DEF j

LEMMA MoreIsNeverLess == ContractInv => Contract!MoreIsNeverLess
BY EvidenceGrows, ForeignFieldsCountForNothing, GuidedIsWorthLess, Zenon DEF Contract!MoreIsNeverLess


-----------------------------------------------------------------------------
(* The theorem about evidence.                                              *)

LEMMA ContractIsFair == ContractInv => Contract!EventsReplay /\ Contract!StoredInRange
                            /\ Contract!RepetitionDiminishes /\ Contract!DirectionIsSeparate
                            /\ Contract!MoreIsNeverLess
BY EvidenceReplays, EvidenceInRange, EvidenceDiminishes, EvidenceDirection, MoreIsNeverLess

ContractHolds == component = "contract" => ContractInv

LEMMA ContractInit == Init => ContractHolds
BY Zenon DEF Init, ContractHolds, ContractInv, Contract!Init

LEMMA ContractStep == ASSUME ContractHolds, [Next]_vars PROVE ContractHolds'
<1> SUFFICES ASSUME component' = "contract" PROVE ContractInv'
  BY Zenon DEF ContractHolds
<1>1. component = "contract" /\ (Contract!Next \/ UNCHANGED contractVars)
  BY Zenon DEF Next, vars
<1>2. ContractInv
  BY <1>1, Zenon DEF ContractHolds
<1>3. CASE Contract!Record
  BY <1>2, <1>3, Zenon DEF ContractInv, Contract!Record
<1>4. CASE Contract!Release
  BY <1>2, <1>4, Zenon DEF ContractInv, Contract!Release
<1>5. CASE UNCHANGED contractVars
  BY <1>2, <1>5, Zenon DEF ContractInv, contractVars
<1> QED BY <1>1, <1>3, <1>4, <1>5, Zenon DEF Contract!Next

\* A stored event verifies for ever, whatever a release does to the rules of the action; repeating
\* an action adds ever less, until the fourth time; the direction of the evidence neither adds nor
\* takes away; doing, marking or recording more is never worth less, except to record that one was
\* guided, which is always worth less than to leave the support out: for any fields, any rules and
\* any check-in (growth/domain/evidence.py).
THEOREM EvidenceStaysFair == Spec => []EvidenceIsFair
<1>1. Init => ContractHolds
  BY ContractInit
<1>2. ContractHolds /\ [Next]_vars => ContractHolds'
  BY ContractStep
<1>3. ContractHolds => EvidenceIsFair
  BY ContractIsFair, Zenon DEF ContractHolds, EvidenceIsFair
<1> QED BY <1>1, <1>2, <1>3, PTL DEF Spec


-----------------------------------------------------------------------------
(* Assessment                                                               *)

\* An encoded answer sheet decodes to itself.
LEMMA AnswersComeBack ==
    ASSUME NEW responses, responses = [i \in DOMAIN responses |-> responses[i]], NEW total,
           Questionnaire!AreResponses(responses)
    PROVE  /\ Questionnaire!CodeIsValid(Questionnaire!Encode(responses, total))
           /\ Questionnaire!Decode(Questionnaire!Encode(responses, total)) = responses
<1> DEFINE code == Questionnaire!Encode(responses, total)
           answered == {k \in DOMAIN code.core : code.core[k] # "0"}
<1>1. /\ code.prefix = "GGA11"
      /\ code.core = [k \in DOMAIN Core |-> IF Core[k] \in DOMAIN responses THEN responses[Core[k]] ELSE "0"]
      /\ code.extras = [i \in DOMAIN responses \ Questionnaire!Range(Core) |-> responses[i]]
  BY Zenon DEF Questionnaire!Encode
<1>2. \A i \in DOMAIN responses : responses[i] \in {"1", "2", "3", "4", "5", "NA"}
  BY DEF Questionnaire!AreResponses, Questionnaire!IsAnswer, Questionnaire!Scale
<1> HIDE DEF code
<1>3. answered = {k \in DOMAIN Core : Core[k] \in DOMAIN responses}
  BY <1>1, <1>2
<1>4. Questionnaire!Range(Core) = {Core[k] : k \in DOMAIN Core}
  BY DEF Questionnaire!Range
<1>5. DOMAIN code.extras \cup {Core[k] : k \in answered} = DOMAIN responses
  <2>1. DOMAIN code.extras = DOMAIN responses \ {Core[k] : k \in DOMAIN Core}
    BY <1>1, <1>4
  <2>2. {Core[k] : k \in answered} = DOMAIN responses \cap {Core[k] : k \in DOMAIN Core}
    <3> HIDE DEF answered
    <3> QED BY <1>3, Zenon
  <2> HIDE DEF answered
  <2> QED BY <2>1, <2>2
<1>6. ASSUME NEW i \in DOMAIN responses
      PROVE  (IF i \in DOMAIN code.extras THEN code.extras[i]
              ELSE code.core[CHOOSE k \in DOMAIN code.core : Core[k] = i]) = responses[i]
  <2>1. CASE i \in DOMAIN code.extras
    BY <1>1, <2>1
  <2>2. CASE i \notin DOMAIN code.extras
    <3>1. PICK k \in DOMAIN Core : Core[k] = i
      BY <1>1, <1>4, <2>2
    <3> DEFINE m == CHOOSE j \in DOMAIN code.core : Core[j] = i
    <3>2. DOMAIN code.core = DOMAIN Core
      BY <1>1
    <3>3. m \in DOMAIN Core /\ Core[m] = i
      BY <3>1, <3>2, Zenon
    <3> HIDE DEF m
    <3>4. code.core[m] = responses[i]
      BY <1>1, <3>3
    <3> QED BY <2>2, <3>4, Zenon DEF m
  <2> QED BY <2>1, <2>2, Zenon
<1>7. Questionnaire!Decode(code) = [i \in DOMAIN responses |-> responses[i]]
  <2>1. Questionnaire!Decode(code) =
            [i \in DOMAIN code.extras \cup {Core[k] : k \in answered} |->
                IF i \in DOMAIN code.extras THEN code.extras[i]
                ELSE code.core[CHOOSE k \in DOMAIN code.core : Core[k] = i]]
    BY Zenon DEF Questionnaire!Decode
  <2> HIDE DEF answered
  <2> QED BY <1>5, <1>6, <2>1, Zenon
<1>8. Questionnaire!Decode(code) = responses
  BY <1>7, Zenon
<1>9. Questionnaire!CodeIsValid(code)
  <2>1. Core \in Seq(STRING)
    BY QuestionnaireAssumption
  <2>2. DOMAIN Core = 1 .. Len(Core) /\ Len(Core) \in Nat
    BY <2>1
  <2>3. Questionnaire!Len(code.core) = Len(Core)
    BY <1>1, <2>2
  <2>4. \A k \in DOMAIN code.core : code.core[k] \in Questionnaire!Scale \cup {"0", "NA"}
    BY <1>1, <1>2 DEF Questionnaire!Scale
  <2> QED BY <1>1, <1>8, <2>2, <2>3, <2>4 DEF Questionnaire!CodeIsValid
<1> QED BY <1>8, <1>9 DEF code


\* What is known of the payloads posted so far and of the runs stored from them.
AssessmentInv ==
    /\ posts \in Seq(Posted)
    /\ \A k \in DOMAIN posts : Questionnaire!IsValid(posts[k]) => posts[k].submission \in DOMAIN stored
    /\ Questionnaire!FirstPostStays

LEMMA CodesComeBack == ASSUME AssessmentInv PROVE Questionnaire!CodesRoundTrip
<1> SUFFICES ASSUME NEW k \in DOMAIN posts, Questionnaire!AreResponses(posts[k].responses)
             PROVE  LET code == Questionnaire!Encode(posts[k].responses, posts[k].total)
                    IN  Questionnaire!CodeIsValid(code) /\ Questionnaire!Decode(code) = posts[k].responses
  BY Zenon DEF Questionnaire!CodesRoundTrip
<1>1. posts[k] \in Posted
  BY DEF AssessmentInv
<1>2. posts[k].responses \in [DOMAIN posts[k].responses -> STRING]
  BY <1>1, QuestionnaireAssumption
<1>3. posts[k].responses = [i \in DOMAIN posts[k].responses |-> posts[k].responses[i]]
  BY <1>2
<1> QED BY <1>3, AnswersComeBack, Zenon

\* A stored run is that of a payload that was accepted.
LEMMA RunsWerePosted ==
    ASSUME AssessmentInv, NEW s \in DOMAIN stored
    PROVE  \E p \in Posted : Questionnaire!IsValid(p) /\ stored[s] = Questionnaire!Run(p)
<1>1. PICK k \in DOMAIN posts : Questionnaire!IsValid(posts[k]) /\ stored[s] = Questionnaire!Run(posts[k])
  BY Zenon DEF AssessmentInv, Questionnaire!FirstPostStays
<1>2. posts[k] \in Posted
  BY DEF AssessmentInv
<1> QED BY <1>1, <1>2

\* The two validators: what the assessment accepts the calibration dataset takes, exactly if its
\* flags and its timing method are those of the dataset.
LEMMA ValidatorsCompare ==
    ASSUME NEW p \in Posted, Questionnaire!IsValid(p)
    PROVE  Questionnaire!Calibration!ValidPayload(Questionnaire!Run(p))
             <=> /\ Questionnaire!Range(p.flags) \subseteq Questionnaire!Calibration!Flag
                 /\ p.method = Questionnaire!Calibration!Method
<1> DEFINE run == Questionnaire!Run(p)
           answered == DOMAIN p.responses
           clarified == answered \ Questionnaire!Range(Core)
<1>1. /\ run.version = p.version /\ run.source = p.source /\ run.answers = p.responses
      /\ run.timed = p.timed /\ run.total = p.total /\ run.quality = p.quality /\ run.flags = p.flags
      /\ run.method = p.method
  BY DEF Questionnaire!Run
<1>2. /\ p.source \in {"application", "share_code"} /\ p.version = "1.1"
      /\ Questionnaire!AreResponses(p.responses) /\ Questionnaire!Range(Core) \subseteq answered
      /\ p.timed \subseteq answered
      /\ p.source = "application" => p.timed = answered
      /\ p.source = "application" => p.total = "adds up" /\ p.quality = "adds up"
  BY Zenon DEF Questionnaire!IsValid
<1>3. p.quality # "missing"
  BY Zenon DEF Questionnaire!IsValid, Questionnaire!ResultIsValid
<1>4. /\ answered \subseteq Questionnaire!Range(Core) \cup Capability \cup Orientation
      /\ \A i \in answered : p.responses[i] \in Questionnaire!Scale \/ (p.responses[i] = "NA" /\ i \in AllowsNA)
  BY <1>2, Zenon DEF Questionnaire!AreResponses, Questionnaire!IsAnswer, Questionnaire!Item
<1>5. /\ Questionnaire!Cardinality(answered \cap Capability) =< CapabilityLimit
      /\ Questionnaire!Cardinality(answered \cap Orientation) =< OrientationLimit
  BY Zenon DEF Questionnaire!IsValid
<1> HIDE DEF run
<1>6. Questionnaire!Calibration!WithinLimits(clarified)
  <2>1. clarified \subseteq Capability \cup Orientation
    BY <1>4
  <2>2. clarified \cap Capability \subseteq answered \cap Capability
    OBVIOUS
  <2>3. clarified \cap Orientation \subseteq answered \cap Orientation
    OBVIOUS
  <2>4. IsFiniteSet(answered \cap Capability) /\ IsFiniteSet(answered \cap Orientation)
    <3>1. answered \cap Capability \subseteq Capability /\ answered \cap Orientation \subseteq Orientation
      OBVIOUS
    <3> QED BY <3>1, QuestionnaireAssumption, FS_Subset
  <2>5. Cardinality(clarified \cap Capability) =< CapabilityLimit
    <3>1. /\ Cardinality(clarified \cap Capability) \in Nat /\ Cardinality(answered \cap Capability) \in Nat
          /\ Cardinality(clarified \cap Capability) =< Cardinality(answered \cap Capability)
      BY <2>2, <2>4, FS_Subset, FS_CardinalityType
    <3>2. Cardinality(answered \cap Capability) =< CapabilityLimit
      BY <1>5 DEF Questionnaire!Cardinality, Cardinality
    <3> HIDE DEF clarified
    <3> QED BY <3>1, <3>2, QuestionnaireAssumption
  <2>6. Cardinality(clarified \cap Orientation) =< OrientationLimit
    <3>1. /\ Cardinality(clarified \cap Orientation) \in Nat /\ Cardinality(answered \cap Orientation) \in Nat
          /\ Cardinality(clarified \cap Orientation) =< Cardinality(answered \cap Orientation)
      BY <2>3, <2>4, FS_Subset, FS_CardinalityType
    <3>2. Cardinality(answered \cap Orientation) =< OrientationLimit
      BY <1>5 DEF Questionnaire!Cardinality, Cardinality
    <3> HIDE DEF clarified
    <3> QED BY <3>1, <3>2, QuestionnaireAssumption
  <2> HIDE DEF clarified
  <2>7. /\ Questionnaire!Calibration!Cardinality(clarified \cap Capability) =< CapabilityLimit
        /\ Questionnaire!Calibration!Cardinality(clarified \cap Orientation) =< OrientationLimit
    BY <2>5, <2>6 DEF Questionnaire!Calibration!Cardinality, Cardinality
  <2> QED BY <2>1, <2>7, Zenon DEF Questionnaire!Calibration!WithinLimits
<1>7. /\ Questionnaire!Calibration!Answered(run) = answered
      /\ Questionnaire!Calibration!Clarified(run) = clarified
  BY <1>1, Zenon DEF Questionnaire!Calibration!Answered, Questionnaire!Calibration!Clarified
<1>8. \A i \in answered : Questionnaire!Calibration!ValidResponse(i, run.answers[i])
  BY <1>1, <1>4 DEF Questionnaire!Calibration!ValidResponse, Questionnaire!Calibration!Scale, Questionnaire!Scale
<1>9. run.version = Questionnaire!Calibration!Version /\ run.source \in Questionnaire!Calibration!Source
  BY <1>1, <1>2 DEF Questionnaire!Calibration!Version, Questionnaire!Calibration!Source
<1> HIDE DEF answered, clarified
<1>10. Questionnaire!Calibration!Range(run.flags) = Questionnaire!Range(p.flags)
  BY <1>1 DEF Questionnaire!Calibration!Range, Questionnaire!Range
<1>11. Questionnaire!Calibration!ValidPayload(run)
         <=> /\ Questionnaire!Calibration!Range(run.flags) \subseteq Questionnaire!Calibration!Flag
             /\ run.method = Questionnaire!Calibration!Method
  BY <1>1, <1>2, <1>3, <1>6, <1>7, <1>8, <1>9, Zenon DEF Questionnaire!Calibration!ValidPayload
<1> QED BY <1>1, <1>10, <1>11, Zenon DEF run

\* So it can be told of every stored run whether it can be contributed.
LEMMA RunsAreTaken == ASSUME AssessmentInv PROVE Questionnaire!RunsCanBeContributed
<1> SUFFICES ASSUME NEW s \in DOMAIN stored
             PROVE  Questionnaire!Calibration!ValidPayload(stored[s])
                      <=> /\ Questionnaire!Range(stored[s].flags) \subseteq Questionnaire!Calibration!Flag
                          /\ stored[s].method = Questionnaire!Calibration!Method
  BY Zenon DEF Questionnaire!RunsCanBeContributed
<1>1. PICK p \in Posted : Questionnaire!IsValid(p) /\ stored[s] = Questionnaire!Run(p)
  BY RunsWerePosted, Zenon
<1>2. stored[s].flags = p.flags /\ stored[s].method = p.method
  BY <1>1 DEF Questionnaire!Run
<1> QED BY <1>1, <1>2, ValidatorsCompare, Zenon

\* Masses that are near their formulas add up to no more than the questionnaire can give.
LEMMA MassesAddUp ==
    ASSUME NEW prior \in Int, NEW cap \in Nat,
           NEW a \in Int, NEW b \in Int, NEW m \in Nat, NEW r \in Nat, m =< cap, r =< 100,
           a - (prior + m * r) =< 2, (prior + m * r) - a =< 2,
           b - (prior + m * (100 - r)) =< 2, (prior + m * (100 - r)) - b =< 2
    PROVE  a + b \in 2 * prior - 4 .. 2 * prior + 100 * cap + 4
<1>1. m * r + m * (100 - r) = 100 * m
  OBVIOUS
<1> DEFINE x == m * r
           y == m * (100 - r)
<1>2. x \in Int /\ y \in Int /\ x + y = 100 * m
  BY <1>1
<1> HIDE DEF x, y
<1>3. a - (prior + x) =< 2 /\ (prior + x) - a =< 2 /\ b - (prior + y) =< 2 /\ (prior + y) - b =< 2
  BY DEF x, y
<1> QED BY <1>2, <1>3

\* When every answer is the highest the ratio of the masses is not below a half.
LEMMA HighestIsHigh ==
    ASSUME NEW a \in Int, NEW b \in Int, NEW m \in Nat, NEW e \in Int,
           (3500 + m * 100) - a =< 2, b - 3500 =< 2, 3500 - b =< 2,
           10000 * a - e * (a + b) =< 2 * (a + b)
    PROVE  e >= 4996
<1>1. SUFFICES ASSUME e =< 4995 PROVE FALSE
  OBVIOUS
<1> DEFINE t == a + b
<1>2. t \in Nat /\ a >= 3498 /\ b =< 3502
  OBVIOUS
<1>3. t * e =< t * 4995
  <2>1. \A k \in Nat, i, j \in Int : i =< j => k * i =< k * j
    BY Z3
  <2> HIDE DEF t
  <2> QED BY <1>1, <1>2, <2>1
<1>4. e * t = t * e
  BY <1>2
<1> DEFINE p == t * e
<1>5. p \in Int /\ 10000 * a - p =< 2 * t
  BY <1>2, <1>4
<1>6. p =< 4995 * t
  BY <1>2, <1>3
<1> HIDE DEF p
<1> QED BY <1>2, <1>5, <1>6

\* What the validator lets through of one lever.
LEMMA LeverIsEarned ==
    ASSUME NEW b, b.alpha \in Int, b.beta \in Int, Questionnaire!LeverIsValid(b)
    PROVE  /\ b.alpha + b.beta \in 2 * Questionnaire!Prior - 4 ..
                                   2 * Questionnaire!Prior + 100 * Questionnaire!MassCap + 4
           /\ b.estimate = None => b.alpha = b.beta
           /\ b.estimate # None /\ b.raw = 100 => b.estimate >= 5000 - 4
<1> DEFINE P == Questionnaire!Prior
           M == Questionnaire!MassCap
           W == Questionnaire!Whole
<1>1. P = 3500 /\ M = 320 /\ W = 10000
  BY DEF Questionnaire!Prior, Questionnaire!MassCap, Questionnaire!Whole
<1>2. P \in Int /\ M \in Nat
  BY <1>1
<1>3. CASE b.estimate = None
  <2>1. b.alpha = P /\ b.beta = P
    BY <1>3, Zenon DEF Questionnaire!LeverIsValid
  <2> HIDE DEF P, M
  <2>2. P + P \in 2 * P - 4 .. 2 * P + 100 * M + 4
    BY <1>2
  <2> QED BY <1>3, <2>1, <2>2 DEF P, M
<1>4. CASE b.estimate # None
  <2> DEFINE e == b.estimate
             r == b.raw
             m == b.mass
             S == b.alpha + b.beta
  <2>1. e \in 0 .. W /\ r \in 0 .. 100 /\ m \in 0 .. M
    BY <1>4, Zenon DEF Questionnaire!LeverIsValid
  <2>2. /\ Questionnaire!Near(b.alpha, P + m * r, 2)
        /\ Questionnaire!Near(b.beta, P + m * (100 - r), 2)
        /\ Questionnaire!Near(W * b.alpha, e * S, 2 * S)
    BY <1>4, Zenon DEF Questionnaire!LeverIsValid
  <2>3. /\ b.alpha - (P + m * r) =< 2 /\ (P + m * r) - b.alpha =< 2
        /\ b.beta - (P + m * (100 - r)) =< 2 /\ (P + m * (100 - r)) - b.beta =< 2
        /\ W * b.alpha - e * S =< 2 * S
    BY <2>2, Zenon DEF Questionnaire!Near
  <2> HIDE DEF P, M, W, e, r, m
  <2>4. e \in Int /\ r \in Nat /\ r =< 100 /\ m \in Nat /\ m =< M
    BY <1>1, <2>1
  <2>5. S \in 2 * P - 4 .. 2 * P + 100 * M + 4
    BY <1>2, <2>3, <2>4, MassesAddUp
  <2>6. ASSUME r = 100 PROVE e >= 5000 - 4
    <3>1. m * (100 - r) = 0 /\ m * r = m * 100
      BY <2>4, <2>6
    <3>2. /\ b.beta - 3500 =< 2 /\ 3500 - b.beta =< 2 /\ (3500 + m * 100) - b.alpha =< 2
          /\ 10000 * b.alpha - e * (b.alpha + b.beta) =< 2 * (b.alpha + b.beta)
      BY <1>1, <2>3, <3>1
    <3>3. e >= 4996
      BY <2>4, <3>2, HighestIsHigh
    <3> QED BY <2>4, <3>3
  <2>7. b.raw = 100 => b.estimate >= 5000 - 4
    BY <2>6, Zenon DEF e, r
  <2> QED BY <1>4, <2>5, <2>7 DEF P, M
<1> QED BY <1>3, <1>4, Zenon

\* So the ledgers start from masses the questionnaire can give.
LEMMA BaselinesStayEarned == ASSUME AssessmentInv PROVE Questionnaire!BaselinesAreEarned
<1>1. ASSUME NEW s \in DOMAIN stored, NEW l \in Levers
      PROVE  stored[s].levers[l].alpha \in Int /\ stored[s].levers[l].beta \in Int
             /\ Questionnaire!LeverIsValid(stored[s].levers[l])
  <2>1. PICK p \in Posted : Questionnaire!IsValid(p) /\ stored[s] = Questionnaire!Run(p)
    BY RunsWerePosted, Zenon
  <2>2. stored[s].levers = p.levers
    BY <2>1 DEF Questionnaire!Run
  <2>3. DOMAIN p.levers = Levers /\ Questionnaire!LeverIsValid(p.levers[l])
    BY <2>1, Zenon DEF Questionnaire!IsValid, Questionnaire!ResultIsValid
  <2>4. p.levers[l].alpha \in Int /\ p.levers[l].beta \in Int
    BY <2>3, QuestionnaireAssumption
  <2> QED BY <2>2, <2>3, <2>4, Zenon
<1>2. ASSUME NEW s \in DOMAIN stored, NEW l \in Levers
      PROVE  LET b == stored[s].levers[l]
             IN  /\ b.alpha + b.beta \in 2 * Questionnaire!Prior - 4 ..
                                         2 * Questionnaire!Prior + 100 * Questionnaire!MassCap + 4
                 /\ b.estimate = None => b.alpha = b.beta
                 /\ b.estimate # None /\ b.raw = 100 => b.estimate >= 5000 - 4
  BY <1>1, LeverIsEarned
<1> QED BY <1>2 DEF Questionnaire!BaselinesAreEarned

AssessmentHolds == component = "assessment" => AssessmentInv

LEMMA AssessmentInit == Init => AssessmentHolds
<1> SUFFICES ASSUME Init, component = "assessment" PROVE AssessmentInv
  BY DEF AssessmentHolds
<1>1. posts = <<>> /\ stored = <<>>
  BY Zenon DEF Init, Questionnaire!Init
<1>2. posts \in Seq(Posted) /\ DOMAIN posts = {} /\ DOMAIN stored = {}
  BY <1>1
<1> QED BY <1>2 DEF AssessmentInv, Questionnaire!FirstPostStays

\* A post that is accepted for the first time is the first one of its submission.
LEMMA PostKeepsTheInvariant ==
    ASSUME AssessmentInv, Questionnaire!Post
    PROVE  AssessmentInv'
<1>1. PICK p \in Posted : posts' = Append(posts, p) /\ Questionnaire!Persist(p)
  BY Zenon DEF Questionnaire!Post
<1>2. posts \in Seq(Posted)
  BY DEF AssessmentInv
<1> DEFINE n == Len(posts)
<1>3. /\ n \in Nat /\ DOMAIN posts = 1 .. n /\ DOMAIN posts' = 1 .. n + 1 /\ posts' \in Seq(Posted)
      /\ posts'[n + 1] = p /\ \A k \in DOMAIN posts : posts'[k] = posts[k]
  BY <1>1, <1>2
<1>4. ASSUME NEW s \in DOMAIN stored, s \in DOMAIN stored', stored'[s] = stored[s]
      PROVE  \E k \in DOMAIN posts' :
                 /\ posts'[k].submission = s /\ Questionnaire!IsValid(posts'[k])
                 /\ stored'[s] = Questionnaire!Run(posts'[k])
                 /\ \A j \in 1 .. k - 1 : posts'[j].submission = s => ~ Questionnaire!IsValid(posts'[j])
  <2>1. PICK k \in DOMAIN posts :
            /\ posts[k].submission = s /\ Questionnaire!IsValid(posts[k])
            /\ stored[s] = Questionnaire!Run(posts[k])
            /\ \A j \in 1 .. k - 1 : posts[j].submission = s => ~ Questionnaire!IsValid(posts[j])
    BY Zenon DEF AssessmentInv, Questionnaire!FirstPostStays
  <2>2. k \in DOMAIN posts' /\ posts'[k] = posts[k] /\ \A j \in 1 .. k - 1 : posts'[j] = posts[j]
    BY <1>3
  <2> QED BY <1>4, <2>1, <2>2, Zenon
<1>5. CASE Questionnaire!IsValid(p) /\ p.submission \notin DOMAIN stored
  <2> DEFINE new == p.submission
  <2>1. stored' = [s \in DOMAIN stored \cup {new} |-> IF s = new THEN Questionnaire!Run(p) ELSE stored[s]]
    BY <1>1, <1>5, Zenon DEF Questionnaire!Persist, Questionnaire!Store
  <2>2. /\ DOMAIN stored' = DOMAIN stored \cup {new} /\ stored'[new] = Questionnaire!Run(p)
        /\ \A s \in DOMAIN stored : stored'[s] = stored[s]
    BY <1>5, <2>1, Zenon
  <2>3. \A j \in 1 .. (n + 1) - 1 : posts'[j].submission = new => ~ Questionnaire!IsValid(posts'[j])
    <3>1. \A j \in DOMAIN posts : posts[j].submission = new => ~ Questionnaire!IsValid(posts[j])
      BY <1>5, Zenon DEF AssessmentInv
    <3>2. 1 .. (n + 1) - 1 = DOMAIN posts
      BY <1>3
    <3> QED BY <1>3, <3>1, <3>2, Zenon
  <2>4. n + 1 \in DOMAIN posts'
    BY <1>3
  <2>5. Questionnaire!FirstPostStays'
    <3>1. ASSUME NEW s \in DOMAIN stored'
          PROVE  \E k \in DOMAIN posts' :
                     /\ posts'[k].submission = s /\ Questionnaire!IsValid(posts'[k])
                     /\ stored'[s] = Questionnaire!Run(posts'[k])
                     /\ \A j \in 1 .. k - 1 :
                            posts'[j].submission = s => ~ Questionnaire!IsValid(posts'[j])
      <4>1. CASE s = new
        BY <1>3, <1>5, <2>2, <2>3, <2>4, <4>1, Zenon
      <4>2. CASE s # new
        <5>1. s \in DOMAIN stored
          BY <2>2, <4>2, Zenon
        <5> QED BY <1>4, <2>2, <5>1, Zenon
      <4> QED BY <4>1, <4>2, Zenon
    <3> QED BY <3>1, Zenon DEF Questionnaire!FirstPostStays
  <2>6. \A k \in DOMAIN posts' : Questionnaire!IsValid(posts'[k]) => posts'[k].submission \in DOMAIN stored'
    <3>1. ASSUME NEW k \in DOMAIN posts', Questionnaire!IsValid(posts'[k])
          PROVE  posts'[k].submission \in DOMAIN stored'
      <4>1. k = n + 1 \/ k \in DOMAIN posts
        BY <1>3
      <4> QED BY <1>3, <2>2, <3>1, <4>1, Zenon DEF AssessmentInv
    <3> QED BY <3>1, Zenon
  <2> QED BY <1>3, <2>5, <2>6, Zenon DEF AssessmentInv
<1>6. CASE ~ (Questionnaire!IsValid(p) /\ p.submission \notin DOMAIN stored)
  <2>1. stored' = stored
    BY <1>1, <1>6, Zenon DEF Questionnaire!Persist
  <2>2. Questionnaire!FirstPostStays'
    BY <1>4, <2>1, Zenon DEF Questionnaire!FirstPostStays
  <2>3. \A k \in DOMAIN posts' : Questionnaire!IsValid(posts'[k]) => posts'[k].submission \in DOMAIN stored'
    <3>1. ASSUME NEW k \in DOMAIN posts', Questionnaire!IsValid(posts'[k])
          PROVE  posts'[k].submission \in DOMAIN stored'
      <4>1. k = n + 1 \/ k \in DOMAIN posts
        BY <1>3
      <4> QED BY <1>3, <1>6, <2>1, <3>1, <4>1, Zenon DEF AssessmentInv
    <3> QED BY <3>1, Zenon
  <2> QED BY <1>3, <2>2, <2>3, Zenon DEF AssessmentInv
<1> QED BY <1>5, <1>6

LEMMA AssessmentStep == AssessmentHolds /\ [Next]_vars => AssessmentHolds'
<1> SUFFICES ASSUME AssessmentHolds, [Next]_vars PROVE AssessmentHolds'
  OBVIOUS
<1>1. CASE Next /\ component = "assessment"
  <2>1. Questionnaire!Post /\ AssessmentInv
    BY <1>1, Zenon DEF Next, Questionnaire!Next, AssessmentHolds
  <2> QED BY <2>1, PostKeepsTheInvariant, Zenon DEF AssessmentHolds
<1>2. CASE Next /\ component # "assessment"
  BY <1>2, Zenon DEF Next, AssessmentHolds
<1>3. CASE UNCHANGED vars
  <2>1. component' = component /\ UNCHANGED assessmentVars
    BY <1>3, Zenon DEF vars
  <2>2. AssessmentInv' <=> AssessmentInv
    BY <2>1, Zenon DEF assessmentVars, AssessmentInv, Questionnaire!FirstPostStays
  <2> QED BY <2>1, <2>2, Zenon DEF AssessmentHolds
<1> QED BY <1>1, <1>2, <1>3

\* A share code says exactly what was answered; a submission is stored once, as it was first
\* accepted; what is stored can be contributed to the calibration dataset exactly if its scorer kept
\* to the flags and the timing method of the dataset, which the assessment does not check; the
\* ledgers start from masses the questionnaire can give (growth/services/assessment.py).
THEOREM AssessmentsStayWhole == Spec => []AssessmentsAreWhole
<1>1. Init => AssessmentHolds
  BY AssessmentInit
<1>2. AssessmentHolds /\ [Next]_vars => AssessmentHolds'
  BY AssessmentStep
<1>3. AssessmentHolds => AssessmentsAreWhole
  BY CodesComeBack, RunsAreTaken, BaselinesStayEarned, Zenon
     DEF AssessmentHolds, AssessmentInv, AssessmentsAreWhole, Questionnaire!AssessmentsAreWhole
<1> QED BY <1>1, <1>2, <1>3, PTL DEF Spec

-----------------------------------------------------------------------------
(* Lists in order                                                           *)

\* Induction, for the members of a set.
LEMMA AllNumbers ==
    ASSUME NEW T, 0 \in T, \A n \in Nat : n \in T => n + 1 \in T
    PROVE  Nat \subseteq T
<1> DEFINE left == Nat \ T
<1>1. SUFFICES ASSUME left # {} PROVE FALSE
  OBVIOUS
<1>2. PICK m \in left : \A y \in left : ~ (<<y, m>> \in OpToRel(<, Nat))
  <2>1. IsWellFoundedOn(OpToRel(<, Nat), Nat)
    BY NatLessThanWellFounded
  <2> QED BY <1>1, <2>1, WFMin
<1>3. \A y \in left : ~ (y < m)
  BY <1>2 DEF OpToRel
<1>4. m \in Nat /\ m # 0 /\ m \notin T
  OBVIOUS
<1>5. m - 1 \in Nat /\ m - 1 < m /\ (m - 1) + 1 = m
  BY <1>4
<1>6. m - 1 \notin left
  BY <1>3, <1>5
<1>7. m - 1 \in T
  BY <1>5, <1>6
<1> QED BY <1>4, <1>5, <1>7

\* R puts any two members of S in order.
Orders(R, S) ==
    /\ \A x, y \in S : x # y => <<x, y>> \in R \/ <<y, x>> \in R
    /\ \A x, y, z \in S : <<x, y>> \in R /\ <<y, z>> \in R => <<x, z>> \in R
IsLast(m, S, R) == m \in S /\ \A x \in S : x # m => <<x, m>> \in R
\* f lists the n members of S in their order.
Sorted(f, n, S, R) ==
    /\ f \in [1 .. n -> S] /\ \A x \in S : \E i \in 1 .. n : f[i] = x
    /\ \A i, j \in 1 .. n : i < j => f[i] # f[j] /\ <<f[i], f[j]>> \in R

LEMMA LastExists ==
    ASSUME NEW S, IsFiniteSet(S), S # {}, NEW R, Orders(R, S)
    PROVE  \E m : IsLast(m, S, R)
<1> DEFINE Nice(A) == A # {} /\ Orders(R, A) => \E m : IsLast(m, A, R)
           T == {n \in Nat : \A A : IsFiniteSet(A) /\ Cardinality(A) = n => Nice(A)}
<1>1. 0 \in T
  <2>1. \A A : IsFiniteSet(A) /\ Cardinality(A) = 0 => A = {}
    BY FS_EmptySet
  <2> QED BY <2>1
<1>2. ASSUME NEW n \in Nat, n \in T PROVE n + 1 \in T
  <2>1. SUFFICES ASSUME NEW A, IsFiniteSet(A), Cardinality(A) = n + 1, A # {}, Orders(R, A)
                 PROVE  \E m : IsLast(m, A, R)
    OBVIOUS
  <2>2. PICK x \in A : TRUE
    BY <2>1
  <2> DEFINE B == A \ {x}
  <2>3. IsFiniteSet(B) /\ Cardinality(B) = n /\ A = B \cup {x} /\ x \notin B
    <3>1. IsFiniteSet(B) /\ Cardinality(B) = Cardinality(A) - 1
      BY <2>1, <2>2, FS_RemoveElement, Zenon
    <3>2. Cardinality(B) = n
      BY <2>1, <3>1
    <3> QED BY <3>1, <3>2
  <2>4. Nice(B)
    BY <1>2, <2>3
  <2> HIDE DEF B
  <2>5. CASE B = {}
    BY <2>3, <2>5 DEF IsLast
  <2>6. CASE B # {}
    <3>1. Orders(R, B)
      BY <2>1, <2>3 DEF Orders
    <3>2. PICK m : IsLast(m, B, R)
      BY <2>4, <2>6, <3>1
    <3>3. m \in A /\ m # x /\ \A y \in B : y # m => <<y, m>> \in R
      BY <2>3, <3>2 DEF IsLast
    <3>4. CASE <<x, m>> \in R
      BY <2>3, <3>3, <3>4 DEF IsLast
    <3>5. CASE <<m, x>> \in R
      <4>1. \A y \in B : <<y, x>> \in R
        BY <2>1, <2>2, <2>3, <3>3, <3>5 DEF Orders
      <4> QED BY <2>2, <2>3, <4>1 DEF IsLast
    <3> QED BY <2>1, <2>2, <3>3, <3>4, <3>5 DEF Orders
  <2> QED BY <2>5, <2>6
<1> HIDE DEF T
<1>3. Nat \subseteq T
  BY <1>1, <1>2, AllNumbers
<1>4. Cardinality(S) \in T
  BY <1>3, FS_CardinalityType
<1> QED BY <1>4 DEF T

\* Whatever can be put in order has a list in that order.
LEMMA SortedExists ==
    ASSUME NEW S, IsFiniteSet(S), NEW R, Orders(R, S)
    PROVE  \E f : Sorted(f, Cardinality(S), S, R)
<1> DEFINE Nice(A) == Orders(R, A) => \E f : Sorted(f, Cardinality(A), A, R)
           T == {n \in Nat : \A A : IsFiniteSet(A) /\ Cardinality(A) = n => Nice(A)}
<1>1. 0 \in T
  <2>1. SUFFICES ASSUME NEW A, IsFiniteSet(A), Cardinality(A) = 0
                 PROVE  \E f : Sorted(f, Cardinality(A), A, R)
    OBVIOUS
  <2>2. A = {}
    BY <2>1, FS_EmptySet
  <2> DEFINE f == [i \in 1 .. 0 |-> 0]
  <2>3. 1 .. 0 = {} /\ f \in [1 .. 0 -> {}]
    OBVIOUS
  <2>4. Sorted(f, 0, A, R)
    <3> HIDE DEF f
    <3> QED BY <2>2, <2>3 DEF Sorted
  <2> QED BY <2>1, <2>4
<1>2. ASSUME NEW n \in Nat, n \in T PROVE n + 1 \in T
  <2>1. SUFFICES ASSUME NEW A, IsFiniteSet(A), Cardinality(A) = n + 1, Orders(R, A)
                 PROVE  \E f : Sorted(f, n + 1, A, R)
    OBVIOUS
  <2>2. A # {}
    BY <2>1, FS_EmptySet
  <2>3. PICK m : IsLast(m, A, R)
    BY <2>1, <2>2, LastExists
  <2> DEFINE B == A \ {m}
  <2>4. m \in A /\ \A x \in B : <<x, m>> \in R
    BY <2>3 DEF IsLast
  <2>5. IsFiniteSet(B) /\ Cardinality(B) = n /\ A = B \cup {m} /\ m \notin B
    <3>1. IsFiniteSet(B) /\ Cardinality(B) = Cardinality(A) - 1
      BY <2>1, <2>4, FS_RemoveElement, Zenon
    <3>2. Cardinality(B) = n
      BY <2>1, <3>1
    <3> QED BY <3>1, <3>2, <2>4
  <2>6. Nice(B)
    BY <1>2, <2>5
  <2> HIDE DEF B
  <2>7. Orders(R, B)
    BY <2>1, <2>5 DEF Orders
  <2>8. PICK f : Sorted(f, n, B, R)
    BY <2>5, <2>6, <2>7
  <2> DEFINE g == [i \in 1 .. n + 1 |-> IF i = n + 1 THEN m ELSE f[i]]
  <2>9. /\ DOMAIN g = 1 .. n + 1 /\ g[n + 1] = m /\ \A i \in 1 .. n : g[i] = f[i]
        /\ \A i \in 1 .. n + 1 : i = n + 1 \/ i \in 1 .. n
        /\ n + 1 \in 1 .. n + 1 /\ \A i \in 1 .. n : i \in 1 .. n + 1 /\ f[i] \in B
    BY <2>8 DEF Sorted
  <2>10. g \in [1 .. n + 1 -> A]
    BY <2>5, <2>8 DEF Sorted
  <2> HIDE DEF g
  <2>11. ASSUME NEW x \in A PROVE \E i \in 1 .. n + 1 : g[i] = x
    <3>1. CASE x = m
      BY <2>9, <3>1
    <3>2. CASE x \in B
      <4>1. PICK i \in 1 .. n : f[i] = x
        BY <2>8, <3>2 DEF Sorted
      <4> QED BY <2>9, <4>1
    <3> QED BY <2>5, <3>1, <3>2
  <2>12. ASSUME NEW i \in 1 .. n + 1, NEW j \in 1 .. n + 1, i < j
         PROVE  g[i] # g[j] /\ <<g[i], g[j]>> \in R
    <3>1. i \in 1 .. n /\ g[i] = f[i] /\ f[i] \in B
      BY <2>9, <2>12
    <3>2. CASE j = n + 1
      BY <2>4, <2>5, <2>9, <3>1, <3>2
    <3>3. CASE j \in 1 .. n
      BY <2>8, <2>9, <2>12, <3>1, <3>3 DEF Sorted
    <3> QED BY <2>9, <3>2, <3>3
  <2>13. Sorted(g, n + 1, A, R)
    BY <2>10, <2>11, <2>12 DEF Sorted
  <2> QED BY <2>13
<1> HIDE DEF T
<1>3. Nat \subseteq T
  BY <1>1, <1>2, AllNumbers
<1>4. Cardinality(S) \in T
  BY <1>3, FS_CardinalityType
<1> QED BY <1>4 DEF T

-----------------------------------------------------------------------------
(* ContextPriority                                                          *)

\* What a valid form says: the contract accepts it, it comes back as it was posted, and it can be
\* ranked exactly when it gives all levels.
LEMMA ProvidedForms ==
    ASSUME NEW form \in Priority!Fields, Priority!IsValid(form), form.mode = "provide"
    PROVE  LET r == Priority!ContextInput(form)
           IN  /\ \A f \in 1 .. 6 : form.level[f] \in 0 .. 4
               /\ r = [factors |-> form.level, deferred |-> FALSE, reason |-> FALSE, horizon |-> -1]
               /\ Priority!IsContract(r) /\ Priority!Redisplayed(r) = form
<1> DEFINE r == Priority!ContextInput(form)
<1>1. /\ form.level \in [1 .. 6 -> (0 .. 4) \cup {-1}] /\ form.reason \in BOOLEAN
      /\ form = [mode |-> form.mode, level |-> form.level, deferred |-> form.deferred,
                 reason |-> form.reason, horizon |-> form.horizon]
  BY DEF Priority!Fields, Priority!Factor, Priority!Level
<1>2. \A f \in 1 .. 6 : form.level[f] # -1
  BY DEF Priority!IsValid, Priority!Supplied, Priority!Factor
<1>3. form.deferred = -1 /\ form.reason = FALSE /\ form.horizon = -1
  BY <1>1 DEF Priority!IsValid, Priority!NoDeferral
<1>4. \A f \in 1 .. 6 : form.level[f] \in 0 .. 4
  BY <1>1, <1>2
<1>5. r = [factors |-> form.level, deferred |-> FALSE, reason |-> FALSE, horizon |-> -1]
  <2>1. [f \in 1 .. 6 |-> form.level[f]] = form.level
    BY <1>1
  <2> QED BY <2>1 DEF Priority!ContextInput, Priority!Factor
<1> HIDE DEF r
<1>6. Priority!IsContract(r)
  BY <1>4, <1>5 DEF Priority!IsContract, Priority!AnyDeferred, Priority!Factor, Priority!Deferred
<1>7. Priority!Redisplayed(r) = form
  <2>1. r.factors[1] # -2 /\ r.deferred = FALSE
    BY <1>4, <1>5
  <2>2. Priority!Redisplayed(r) =
            [mode |-> "provide", level |-> r.factors, deferred |-> -1, reason |-> FALSE, horizon |-> -1]
    BY <2>1 DEF Priority!Redisplayed, Priority!applicability, Priority!NotApplicable
  <2> QED BY <1>1, <1>3, <1>5, <2>2
<1> QED BY <1>4, <1>5, <1>6, <1>7 DEF r

LEMMA FormsSetAside ==
    ASSUME NEW form \in Priority!Fields, Priority!IsValid(form), form.mode = "not_applicable"
    PROVE  LET r == Priority!ContextInput(form)
           IN  /\ r.factors[1] = -2
               /\ Priority!IsContract(r) /\ Priority!Redisplayed(r) = form
<1> DEFINE r == Priority!ContextInput(form)
<1>1. /\ form.level \in [1 .. 6 -> (0 .. 4) \cup {-1}] /\ form.reason \in BOOLEAN
      /\ form = [mode |-> form.mode, level |-> form.level, deferred |-> form.deferred,
                 reason |-> form.reason, horizon |-> form.horizon]
  BY DEF Priority!Fields, Priority!Factor, Priority!Level
<1>2. form.level = [f \in 1 .. 6 |-> -1]
  <2>1. \A f \in 1 .. 6 : form.level[f] = -1
    BY DEF Priority!IsValid, Priority!Supplied, Priority!Factor
  <2> QED BY <1>1, <2>1
<1>3. form.deferred = -1 /\ form.reason = FALSE /\ form.horizon = -1
  BY <1>1 DEF Priority!IsValid, Priority!NoDeferral
<1>4. /\ r.factors = [f \in 1 .. 6 |-> IF f = 1 THEN -2 ELSE -1]
      /\ r.deferred = FALSE /\ r.reason = FALSE /\ r.horizon = -1
  BY DEF Priority!ContextInput, Priority!Factor, Priority!applicability, Priority!NotApplicable,
         Priority!Unknown
<1> HIDE DEF r
<1>5. Priority!IsContract(r)
  BY <1>4 DEF Priority!IsContract, Priority!AnyDeferred, Priority!Factor, Priority!Deferred
<1>6. Priority!Redisplayed(r) = form
  <2>1. r.factors[1] = -2
    BY <1>4
  <2>2. Priority!Redisplayed(r) = [mode |-> "not_applicable", level |-> [f \in 1 .. 6 |-> -1], deferred |-> -1,
                                   reason |-> FALSE, horizon |-> -1]
    BY <1>4, <2>1 DEF Priority!Redisplayed, Priority!applicability, Priority!NotApplicable, Priority!NoLevels,
                Priority!Factor
  <2> QED BY <1>1, <1>2, <1>3, <2>2
<1> QED BY <1>4, <1>5, <1>6 DEF r

LEMMA DeferredForms ==
    ASSUME NEW form \in Priority!Fields, Priority!IsValid(form), form.mode = "defer"
    PROVE  LET r == Priority!ContextInput(form)
           IN  /\ r.factors[1] # -2 /\ r.deferred
               /\ Priority!IsContract(r) /\ Priority!Redisplayed(r) = form
<1> DEFINE r == Priority!ContextInput(form)
           d == form.deferred
<1>1. /\ form.level \in [1 .. 6 -> (0 .. 4) \cup {-1}] /\ form.reason \in BOOLEAN /\ d \in (1 .. 6) \cup {-1}
      /\ form = [mode |-> form.mode, level |-> form.level, deferred |-> form.deferred,
                 reason |-> form.reason, horizon |-> form.horizon]
  BY DEF Priority!Fields, Priority!Factor, Priority!Level
<1>2. form.level = [f \in 1 .. 6 |-> -1]
  <2>1. \A f \in 1 .. 6 : form.level[f] = -1
    BY DEF Priority!IsValid, Priority!Supplied, Priority!Factor
  <2> QED BY <1>1, <2>1
<1>3. d \in 1 .. 6 /\ form.reason = TRUE
  BY <1>1 DEF Priority!IsValid
<1>4. /\ r.factors = [f \in 1 .. 6 |-> IF f = d THEN -3 ELSE -1]
      /\ r.deferred = TRUE /\ r.reason = TRUE /\ r.horizon = form.horizon
  BY DEF Priority!ContextInput, Priority!Factor, Priority!applicability, Priority!Deferred,
         Priority!Unknown
<1> HIDE DEF r, d
<1>5. \A f \in 1 .. 6 : r.factors[f] = -3 <=> f = d
  BY <1>3, <1>4
<1>6. Priority!IsContract(r)
  <2>1. \E f \in 1 .. 6 : r.factors[f] = -3
    BY <1>3, <1>5
  <2> QED BY <1>4, <2>1 DEF Priority!IsContract, Priority!AnyDeferred, Priority!Factor, Priority!Deferred
<1>7. Priority!Redisplayed(r) = form
  <2>1. r.factors[1] # -2
    BY <1>4
  <2>2. (CHOOSE f \in 1 .. 6 : r.factors[f] = -3) = d
    BY <1>3, <1>5
  <2>3. Priority!Redisplayed(r) =
            [mode |-> "defer", level |-> Priority!NoLevels,
             deferred |-> CHOOSE f \in Priority!Factor : r.factors[f] = Priority!Deferred,
             reason |-> TRUE, horizon |-> r.horizon]
    BY <1>4, <2>1 DEF Priority!Redisplayed, Priority!applicability, Priority!NotApplicable
  <2>4. Priority!Redisplayed(r) = [mode |-> "defer", level |-> [f \in 1 .. 6 |-> -1], deferred |-> d,
                                   reason |-> TRUE, horizon |-> form.horizon]
    BY <1>4, <2>2, <2>3 DEF Priority!NoLevels, Priority!Factor, Priority!Deferred
  <2> QED BY <1>1, <1>2, <1>3, <2>4 DEF d
<1>8. r.factors[1] # -2
  BY <1>4
<1> QED BY <1>4, <1>6, <1>7, <1>8 DEF r

LEMMA FormsComeBackAsPosted ==
    ASSUME NEW form \in Priority!Fields, Priority!IsValid(form)
    PROVE  /\ Priority!IsContract(Priority!ContextInput(form))
           /\ Priority!Redisplayed(Priority!ContextInput(form)) = form
<1>1. form.mode \in {"provide", "not_applicable", "defer"}
  BY DEF Priority!IsValid
<1> QED BY <1>1, ProvidedForms, FormsSetAside, DeferredForms

\* Unknown is not zero.
LEMMA EligibleForms ==
    ASSUME NEW form \in Priority!Fields, Priority!IsValid(form),
           NEW c \in (0 .. 4) \cup {-1, -2, -3}
    PROVE  (Priority!Disposition(Priority!ContextInput(form), c) = "eligible")
               <=> (c \in 0 .. 4 /\ form.mode = "provide")
<1> DEFINE r == Priority!ContextInput(form)
           eligible == Priority!Disposition(r, c) = "eligible"
<1>1. CASE form.mode = "provide"
  <2>1. r.deferred = FALSE /\ \A f \in 1 .. 6 : r.factors[f] \in 0 .. 4
    BY <1>1, ProvidedForms
  <2> HIDE DEF r
  <2>2. ~ Priority!AnyDeferred(r) /\ r.factors[1] # -2 /\ ~ \E f \in 1 .. 6 : r.factors[f] \in {-1, -2, -3}
    BY <2>1 DEF Priority!AnyDeferred, Priority!Factor, Priority!Deferred
  <2>3. Priority!Disposition(r, c) = IF c \in {-1, -2, -3} THEN "missing_context" ELSE "eligible"
    BY <2>1, <2>2 DEF Priority!Disposition, Priority!applicability, Priority!NotApplicable, Priority!Missing,
                      Priority!Unknown, Priority!Deferred, Priority!Factor
  <2>4. c \in {-1, -2, -3} <=> c \notin 0 .. 4
    OBVIOUS
  <2> QED BY <1>1, <2>3, <2>4 DEF r
<1>2. CASE form.mode # "provide"
  <2>1. form.mode = "not_applicable" \/ form.mode = "defer"
    BY <1>2 DEF Priority!IsValid
  <2>2. r.factors[1] = -2 \/ r.deferred
    BY <2>1, FormsSetAside, DeferredForms
  <2> HIDE DEF r
  <2>3. Priority!Disposition(r, c) \in {"not_applicable", "deferred"}
    BY <2>2 DEF Priority!Disposition, Priority!applicability, Priority!NotApplicable
  <2> QED BY <1>2, <2>3 DEF r
<1> QED BY <1>1, <1>2

\* The product of the multipliers is monotone in each of them.
LEMMA ProductsAreMonotone ==
    ASSUME NEW a \in Nat, NEW b \in Nat, a =< b, NEW x \in Nat, NEW y \in Nat, x =< y
    PROVE  a * x \in Nat /\ b * y \in Nat /\ a * x =< b * y
<1>1. Times(a, x) =< Times(b, x) /\ Times(x, b) =< Times(y, b)
  BY TimesIsMonotone
<1>2. a * x =< b * x /\ x * b =< y * b
  BY <1>1 DEF Times
<1>3. b * x = x * b /\ b * y = y * b /\ a * x \in Nat /\ b * x \in Nat /\ b * y \in Nat
  OBVIOUS
<1> QED BY <1>2, <1>3

\* More need in a context that is nowhere worse is no less urgent.
LEMMA PriorityGrows ==
    ASSUME NEW a \in Nat, NEW b \in Nat, a =< b, NEW c \in Nat, NEW r, NEW s,
           \A f \in 1 .. 6 : /\ Priority!Multiplier(f, r.factors[f]) \in Nat
                             /\ Priority!Multiplier(f, s.factors[f]) \in Nat
                             /\ Priority!Multiplier(f, r.factors[f]) =< Priority!Multiplier(f, s.factors[f])
    PROVE  /\ Priority!Priority(a, r, c) \in Nat /\ Priority!Priority(b, s, c) \in Nat
           /\ Priority!Priority(a, r, c) =< Priority!Priority(b, s, c)
<1> DEFINE m == [f \in Priority!Factor |-> Priority!Multiplier(f, r.factors[f])]
           n == [f \in Priority!Factor |-> Priority!Multiplier(f, s.factors[f])]
           d == Priority!Parts
<1>1. \A f \in 1 .. 6 : m[f] \in Nat /\ n[f] \in Nat /\ m[f] =< n[f]
  BY DEF Priority!Factor
<1>2. 1 \in 1 .. 6 /\ 2 \in 1 .. 6 /\ 3 \in 1 .. 6 /\ 4 \in 1 .. 6 /\ 5 \in 1 .. 6 /\ 6 \in 1 .. 6
  OBVIOUS
<1> HIDE DEF m, n
<1> DEFINE p0 == a * c
           q0 == b * c
           p1 == p0 * m[1]
           q1 == q0 * n[1]
           p2 == p1 * m[2]
           q2 == q1 * n[2]
           p3 == p2 * m[3]
           q3 == q2 * n[3]
           p4 == p3 * m[4]
           q4 == q3 * n[4]
           p5 == p4 * m[5]
           q5 == q4 * n[5]
           p6 == p5 * m[6]
           q6 == q5 * n[6]
<1>3. /\ Priority!Priority(a, r, c) = (2 * p6 + d) \div (2 * d)
      /\ Priority!Priority(b, s, c) = (2 * q6 + d) \div (2 * d)
  BY Zenon DEF Priority!Priority, m, n
<1>4. p0 \in Nat /\ q0 \in Nat /\ p0 =< q0
  BY ProductsAreMonotone
<1> HIDE DEF p0, q0
<1>5. p1 \in Nat /\ q1 \in Nat /\ p1 =< q1
  BY <1>1, <1>2, <1>4, ProductsAreMonotone
<1> HIDE DEF p1, q1
<1>6. p2 \in Nat /\ q2 \in Nat /\ p2 =< q2
  BY <1>1, <1>2, <1>5, ProductsAreMonotone
<1> HIDE DEF p2, q2
<1>7. p3 \in Nat /\ q3 \in Nat /\ p3 =< q3
  BY <1>1, <1>2, <1>6, ProductsAreMonotone
<1> HIDE DEF p3, q3
<1>8. p4 \in Nat /\ q4 \in Nat /\ p4 =< q4
  BY <1>1, <1>2, <1>7, ProductsAreMonotone
<1> HIDE DEF p4, q4
<1>9. p5 \in Nat /\ q5 \in Nat /\ p5 =< q5
  BY <1>1, <1>2, <1>8, ProductsAreMonotone
<1> HIDE DEF p5, q5
<1>10. p6 \in Nat /\ q6 \in Nat /\ p6 =< q6
  BY <1>1, <1>2, <1>9, ProductsAreMonotone
<1> HIDE DEF p6, q6
<1>11. d \in Nat \ {0}
  BY DEF Priority!Parts
<1> HIDE DEF d
<1>12. /\ Contract!RoundHalfUp(p6, d) \in Nat /\ Contract!RoundHalfUp(q6, d) \in Nat
       /\ Contract!RoundHalfUp(p6, d) =< Contract!RoundHalfUp(q6, d)
  <2>1. 0 \in Nat
    OBVIOUS
  <2> QED BY <1>10, <1>11, <2>1, RoundingIsMonotone
<1> QED BY <1>3, <1>12 DEF Contract!RoundHalfUp

\* What is saved is a form the contract accepted; what is shown was computed from what is saved.
Outcome(source) ==
    LET ranked == Priority!Ranked(records, base, capacity)
    IN  [status |-> Priority!Status(records, capacity, ranked), ranked |-> ranked, source |-> source,
         alternative |-> IF source = None THEN None ELSE Priority!Alternative(source, ranked)]

PriorityInv ==
    /\ forms \in [Practice -> Form \cup {None}] /\ base \in [Practice -> Base] /\ capacity \in Capacity
    /\ DOMAIN records = Practice
    /\ \A p \in Practice :
           records[p] # None => /\ forms[p] # None /\ Priority!IsValid(forms[p])
                                /\ records[p] = Priority!ContextInput(forms[p])
    /\ result # None =>
           \E source \in Practice \cup {None} :
               /\ result = Outcome(source)
               /\ source # None => Priority!Disposition(records[source], capacity) \in {"not_applicable", "deferred"}

Able == Priority!Eligible(records, capacity)

\* Exactly the practices with all seven levels are eligible.
LEMMA AbleAreProvided ==
    ASSUME PriorityInv
    PROVE  /\ Able \subseteq Practice /\ IsFiniteSet(Able)
           /\ \A p \in Practice : /\ p \in Able <=> /\ capacity \in 0 .. 4 /\ records[p] # None
                                                    /\ forms[p].mode = "provide"
                                  /\ p \in Able => /\ records[p].factors = forms[p].level
                                                   /\ \A f \in 1 .. 6 : forms[p].level[f] \in 0 .. 4
                                  /\ p \in Able => base[p] \in Nat
<1>1. Able \subseteq Practice
  BY DEF Able, Priority!Eligible
<1>2. IsFiniteSet(Able)
  BY <1>1, PriorityAssumption, FS_Subset
<1>3. capacity \in (0 .. 4) \cup {-1, -2, -3}
  BY PriorityAssumption DEF PriorityInv, Priority!Level, Priority!Missing, Priority!Unknown,
     Priority!NotApplicable, Priority!Deferred
<1>4. ASSUME NEW p \in Practice, records[p] # None
      PROVE  /\ p \in Able <=> capacity \in 0 .. 4 /\ forms[p].mode = "provide"
             /\ forms[p].mode = "provide" => /\ records[p].factors = forms[p].level
                                             /\ \A f \in 1 .. 6 : forms[p].level[f] \in 0 .. 4
  <2>1. forms[p] \in Priority!Fields /\ Priority!IsValid(forms[p])
        /\ records[p] = Priority!ContextInput(forms[p])
    BY <1>4, PriorityAssumption DEF PriorityInv
  <2>2. p \in Able <=> Priority!Disposition(records[p], capacity) = "eligible"
    BY <1>4 DEF Able, Priority!Eligible
  <2>3. (Priority!Disposition(records[p], capacity) = "eligible")
            <=> (capacity \in 0 .. 4 /\ forms[p].mode = "provide")
    BY <1>3, <2>1, EligibleForms, Zenon
  <2>4. forms[p].mode = "provide" => /\ records[p].factors = forms[p].level
                                     /\ \A f \in 1 .. 6 : forms[p].level[f] \in 0 .. 4
    BY <2>1, ProvidedForms
  <2> QED BY <2>2, <2>3, <2>4, Zenon
<1>5. ASSUME NEW p \in Able PROVE records[p] # None
  BY DEF Able, Priority!Eligible
<1>6. \A p \in Practice : base[p] \in Nat
  BY PriorityAssumption DEF PriorityInv
<1> QED BY <1>1, <1>2, <1>4, <1>5, <1>6, Zenon

\* The order of the page exists and is total on whatever is eligible.
LEMMA RankedIsSorted ==
    ASSUME PriorityInv
    PROVE  LET ranked == Priority!Ranked(records, base, capacity)
               urgency(p) == Priority!Priority(base[p], records[p], capacity)
           IN  /\ ranked \in [1 .. Cardinality(Able) -> Able] /\ Cardinality(Able) \in Nat
               /\ \A i \in DOMAIN ranked : ranked[i] \in Able
               /\ \A p \in Able : \E i \in DOMAIN ranked : ranked[i] = p
               /\ \A i, j \in DOMAIN ranked : ranked[i] = ranked[j] => i = j
               /\ \A i, j \in DOMAIN ranked :
                      i < j => \/ urgency(ranked[i]) > urgency(ranked[j])
                               \/ /\ urgency(ranked[i]) = urgency(ranked[j])
                                  /\ base[ranked[i]] >= base[ranked[j]]
<1> DEFINE urgency(p) == Priority!Priority(base[p], records[p], capacity)
           key == [p \in Able |-> [priority |-> urgency(p), base |-> base[p]]]
           R == {pq \in Able \X Able : Priority!Precedes(pq[1], pq[2], key)}
           N == Cardinality(Able)
           ranked == Priority!Ranked(records, base, capacity)
           Good(f) == \A i, j \in DOMAIN f : i < j => Priority!Precedes(f[i], f[j], key)
<1>1. IsFiniteSet(Able) /\ N \in Nat /\ Able \subseteq Int
  BY AbleAreProvided, PriorityAssumption, FS_CardinalityType
<1>2. ASSUME NEW p \in Able PROVE urgency(p) \in Nat /\ base[p] \in Nat
  <2>1. p \in Practice /\ capacity \in Nat /\ base[p] \in Nat
        /\ \A f \in 1 .. 6 : records[p].factors[f] \in 0 .. 4
    BY AbleAreProvided
  <2>2. \A f \in 1 .. 6 : /\ Priority!Multiplier(f, records[p].factors[f]) \in Nat
                          /\ Priority!Multiplier(f, records[p].factors[f]) =< Priority!Multiplier(f, records[p].factors[f])
    BY <2>1 DEF Priority!Multiplier
  <2>3. base[p] =< base[p]
    BY <2>1
  <2> QED BY <2>1, <2>2, <2>3, PriorityGrows
<1>3. \A p, q \in Able : <<p, q>> \in R <=> Priority!Precedes(p, q, key)
  OBVIOUS
<1>4. \A p \in Able : key[p].priority = urgency(p) /\ key[p].base = base[p]
  OBVIOUS
<1> HIDE DEF urgency, key
<1>5. \A p, q \in Able :
          Priority!Precedes(p, q, key) <=>
              \/ urgency(p) > urgency(q)
              \/ urgency(p) = urgency(q) /\ base[p] > base[q]
              \/ urgency(p) = urgency(q) /\ base[p] = base[q] /\ p < q
  BY <1>4 DEF Priority!Precedes
<1> HIDE DEF R
<1>6. Orders(R, Able)
  <2>1. \A p, q \in Able : p # q => Priority!Precedes(p, q, key) \/ Priority!Precedes(q, p, key)
    BY <1>1, <1>2, <1>5
  <2>2. \A p, q, s \in Able :
            Priority!Precedes(p, q, key) /\ Priority!Precedes(q, s, key) => Priority!Precedes(p, s, key)
    BY <1>1, <1>2, <1>5
  <2> QED BY <1>3, <2>1, <2>2 DEF Orders
<1>7. PICK f : Sorted(f, N, Able, R)
  BY <1>1, <1>6, SortedExists
<1>8. Priority!SetToSeqs(Able) = {g \in [1 .. N -> Able] : \A i, j \in 1 .. N : i # j => g[i] # g[j]}
  BY DEF Priority!SetToSeqs, Priority!Cardinality, Cardinality
<1>9. f \in Priority!SetToSeqs(Able) /\ Good(f)
  <2>1. f \in [1 .. N -> Able] /\ \A i, j \in 1 .. N : i < j => f[i] # f[j] /\ Priority!Precedes(f[i], f[j], key)
    BY <1>3, <1>7 DEF Sorted
  <2>2. \A i, j \in 1 .. N : i # j => f[i] # f[j]
    <3>1. ASSUME NEW i \in 1 .. N, NEW j \in 1 .. N, i # j PROVE f[i] # f[j]
      <4>1. i < j \/ j < i
        BY <1>1, <3>1
      <4> QED BY <2>1, <4>1
    <3> QED BY <3>1
  <2> QED BY <1>8, <2>1, <2>2
<1>10. ranked = CHOOSE g \in Priority!SetToSeqs(Able) : Good(g)
  BY Zenon DEF Priority!Ranked, Able, key, urgency
<1> HIDE DEF Good
<1>11. ranked \in Priority!SetToSeqs(Able) /\ Good(ranked)
  <2> HIDE DEF ranked
  <2> QED BY <1>9, <1>10, Zenon
<1> HIDE DEF ranked
<1>12. ranked \in [1 .. N -> Able] /\ \A i, j \in 1 .. N : i # j => ranked[i] # ranked[j]
  BY <1>8, <1>11
<1>13. \A p \in Able : \E i \in 1 .. N : ranked[i] = p
  <2>1. ranked \in Injection(1 .. N, Able)
    <3>1. \A i, j \in 1 .. N : ranked[i] = ranked[j] => i = j
      BY <1>12
    <3> QED BY <1>12, <3>1 DEF Injection, IsInjective
  <2>2. IsFiniteSet(1 .. N) /\ Cardinality(1 .. N) = N
    BY <1>1, FS_Interval
  <2>3. ranked \in Surjection(1 .. N, Able)
    BY <1>1, <2>1, <2>2, FS_Injection, Zenon
  <2> QED BY <2>3 DEF Surjection
<1>14. \A i, j \in 1 .. N :
          i < j => \/ urgency(ranked[i]) > urgency(ranked[j])
                   \/ urgency(ranked[i]) = urgency(ranked[j]) /\ base[ranked[i]] >= base[ranked[j]]
  BY <1>2, <1>5, <1>11, <1>12 DEF Good
<1> QED BY <1>1, <1>12, <1>13, <1>14 DEF ranked, urgency

\* What is shown with a ranking, as the lemmas about the ranking need it.
LEMMA ResultIs ==
    ASSUME PriorityInv, result # None
    PROVE  /\ result.ranked = Priority!Ranked(records, base, capacity)
           /\ result.status = Priority!Status(records, capacity, result.ranked)
           /\ result.source # None =>
                  /\ result.source \in Practice
                  /\ Priority!Disposition(records[result.source], capacity) \in {"not_applicable", "deferred"}
                  /\ result.alternative = Priority!Alternative(result.source, result.ranked)
<1>1. PICK source \in Practice \cup {None} :
          /\ result = Outcome(source)
          /\ source # None => Priority!Disposition(records[source], capacity) \in {"not_applicable", "deferred"}
  BY DEF PriorityInv
<1>2. /\ result.ranked = Priority!Ranked(records, base, capacity)
      /\ result.status = Priority!Status(records, capacity, result.ranked)
      /\ result.source = source
      /\ result.alternative = IF source = None THEN None ELSE Priority!Alternative(source, result.ranked)
  BY <1>1 DEF Outcome
<1> QED BY <1>1, <1>2

LEMMA ResultsAreHonest ==
    ASSUME PriorityInv, result # None
    PROVE  /\ Priority!TypeOK /\ Priority!MissingIsNotZero /\ Priority!DominanceIsRespected
           /\ Priority!AlternativeIsTheBest /\ Priority!LabelIsHonest
<1> DEFINE ranked == result.ranked
           urgency(p) == Priority!Priority(base[p], records[p], capacity)
           N == Cardinality(Able)
<1>1. /\ ranked \in [1 .. N -> Able] /\ DOMAIN ranked = 1 .. N /\ N \in Nat
      /\ \A i \in DOMAIN ranked : ranked[i] \in Able
      /\ \A p \in Able : \E i \in DOMAIN ranked : ranked[i] = p
      /\ \A i, j \in DOMAIN ranked : ranked[i] = ranked[j] => i = j
      /\ \A i, j \in DOMAIN ranked :
             i < j => \/ urgency(ranked[i]) > urgency(ranked[j])
                      \/ urgency(ranked[i]) = urgency(ranked[j]) /\ base[ranked[i]] >= base[ranked[j]]
  <2>1. ranked = Priority!Ranked(records, base, capacity)
    BY ResultIs
  <2>2. ranked \in [1 .. N -> Able]
    BY <2>1, RankedIsSorted, Zenon
  <2> QED BY <2>1, <2>2, RankedIsSorted, Zenon
<1>2. /\ Able \subseteq Practice
      /\ \A p \in Practice : /\ p \in Able <=> /\ capacity \in 0 .. 4 /\ records[p] # None
                                               /\ forms[p].mode = "provide"
                             /\ p \in Able => /\ records[p].factors = forms[p].level
                                              /\ \A f \in 1 .. 6 : forms[p].level[f] \in 0 .. 4
                             /\ p \in Able => base[p] \in Nat
  BY AbleAreProvided
<1>3. ranked = <<>> <=> Able = {}
  <2>1. CASE Able = {}
    <3>1. DOMAIN ranked = {}
      BY <1>1, <2>1
    <3>2. 1 .. N = {}
      BY <1>1, <3>1
    <3> HIDE DEF ranked, N
    <3>3. ranked = <<>>
      BY <1>1, <3>2
    <3> QED BY <2>1, <3>3
  <2>2. CASE Able # {}
    <3>1. DOMAIN ranked # {}
      BY <1>1, <2>2
    <3> QED BY <2>2, <3>1
  <2> QED BY <2>1, <2>2
<1> HIDE DEF ranked, urgency
<1>4. Priority!MissingIsNotZero
  <2>1. capacity \notin Priority!Missing <=> capacity \in 0 .. 4
    BY PriorityAssumption DEF PriorityInv, Priority!Level, Priority!Missing, Priority!Unknown,
       Priority!NotApplicable, Priority!Deferred
  <2>2. ASSUME NEW p \in Practice
        PROVE  (\E i \in DOMAIN ranked : ranked[i] = p) <=>
                   capacity \notin Priority!Missing /\ records[p] # None /\ forms[p].mode = "provide"
    <3>1. (\E i \in DOMAIN ranked : ranked[i] = p) <=> p \in Able
      <4>1. ASSUME NEW i \in DOMAIN ranked, ranked[i] = p PROVE p \in Able
        BY <1>1, <4>1
      <4>2. ASSUME p \in Able PROVE \E i \in DOMAIN ranked : ranked[i] = p
        BY <1>1, <4>2
      <4> QED BY <4>1, <4>2, Zenon
    <3>2. p \in Able <=> capacity \in 0 .. 4 /\ records[p] # None /\ forms[p].mode = "provide"
      BY <1>2, Zenon
    <3> QED BY <2>1, <3>1, <3>2, Zenon
  <2> QED BY <2>2, Zenon DEF Priority!MissingIsNotZero, ranked
<1>5. Priority!DominanceIsRespected
  <2>1. ASSUME NEW i \in DOMAIN ranked, NEW j \in DOMAIN ranked, i < j,
               base[ranked[j]] > base[ranked[i]],
               \A f \in Priority!Factor :
                   IF f = Priority!burden THEN forms[ranked[j]].level[f] =< forms[ranked[i]].level[f]
                   ELSE forms[ranked[j]].level[f] >= forms[ranked[i]].level[f]
        PROVE  FALSE
    <3> DEFINE p == ranked[i]
               q == ranked[j]
    <3>1. /\ p \in Practice /\ q \in Practice /\ capacity \in Nat /\ base[p] \in Nat /\ base[q] \in Nat
          /\ records[p].factors = forms[p].level /\ records[q].factors = forms[q].level
          /\ \A f \in 1 .. 6 : forms[p].level[f] \in 0 .. 4 /\ forms[q].level[f] \in 0 .. 4
      BY <1>1, <1>2
    <3>2. base[q] > base[p]
      BY <2>1
    <3>3. \/ urgency(p) > urgency(q)
          \/ urgency(p) = urgency(q) /\ base[p] >= base[q]
      BY <1>1, <2>1
    <3>4. \A f \in 1 .. 6 : IF f = 6 THEN forms[q].level[f] =< forms[p].level[f]
                            ELSE forms[q].level[f] >= forms[p].level[f]
      BY <2>1 DEF Priority!Factor, Priority!burden
    <3> HIDE DEF p, q
    <3>5. \A f \in 1 .. 6 :
              /\ Priority!Multiplier(f, records[p].factors[f]) \in Nat
              /\ Priority!Multiplier(f, records[q].factors[f]) \in Nat
              /\ Priority!Multiplier(f, records[p].factors[f]) =< Priority!Multiplier(f, records[q].factors[f])
      BY <3>1, <3>4 DEF Priority!Multiplier, Priority!burden
    <3>6. base[p] =< base[q]
      BY <3>1, <3>2
    <3>7. urgency(p) \in Nat /\ urgency(q) \in Nat /\ urgency(p) =< urgency(q)
      BY <3>1, <3>5, <3>6, PriorityGrows DEF urgency
    <3> QED BY <3>1, <3>2, <3>3, <3>7
  <2> QED BY <2>1, Zenon DEF Priority!DominanceIsRespected, ranked
<1>6. Priority!AlternativeIsTheBest
  <2>1. SUFFICES ASSUME result.source # None
                 PROVE  IF result.alternative = None THEN ranked = <<>>
                        ELSE /\ result.alternative # result.source
                             /\ ranked # <<>> /\ result.alternative = ranked[1]
    BY Zenon DEF Priority!AlternativeIsTheBest, ranked
  <2> DEFINE s == result.source
  <2>2. /\ s \in Practice /\ Priority!Disposition(records[s], capacity) \in {"not_applicable", "deferred"}
        /\ result.alternative = Priority!Alternative(s, ranked)
    BY <2>1, ResultIs DEF ranked
  <2>3. s \notin Able
    BY <2>2 DEF Able, Priority!Eligible
  <2>4. \A i \in DOMAIN ranked : ranked[i] # s /\ ranked[i] # None
    BY <1>1, <1>2, <2>3, PriorityAssumption
  <2> HIDE DEF s
  <2>5. CASE Able = {}
    <3>1. DOMAIN ranked = {}
      BY <1>1, <2>5
    <3>2. result.alternative = None
      BY <2>2, <3>1, Zenon DEF Priority!Alternative
    <3> QED BY <1>3, <2>5, <3>2
  <2>6. CASE Able # {}
    <3>1. N >= 1 /\ 1 \in DOMAIN ranked
      BY <1>1, <2>6
    <3> DEFINE k == CHOOSE i \in DOMAIN ranked : ranked[i] # s /\ \A j \in 1 .. i - 1 : ranked[j] = s
    <3>2. 1 \in DOMAIN ranked /\ ranked[1] # s /\ \A j \in 1 .. 1 - 1 : ranked[j] = s
      BY <2>4, <3>1
    <3>3. k \in DOMAIN ranked /\ ranked[k] # s /\ \A j \in 1 .. k - 1 : ranked[j] = s
      <4> DEFINE Fits(i) == ranked[i] # s /\ \A j \in 1 .. i - 1 : ranked[j] = s
      <4>1. \E i \in DOMAIN ranked : Fits(i)
        BY <3>2
      <4> HIDE DEF Fits
      <4>2. (CHOOSE i \in DOMAIN ranked : Fits(i)) \in DOMAIN ranked /\ Fits(CHOOSE i \in DOMAIN ranked : Fits(i))
        BY <4>1, Zenon
      <4> QED BY <4>2, Zenon DEF Fits
    <3>4. Priority!Alternative(s, ranked) = ranked[k]
      BY <3>2, Zenon DEF Priority!Alternative
    <3> HIDE DEF k
    <3>5. k = 1
      <4>1. SUFFICES ASSUME k # 1 PROVE FALSE
        OBVIOUS
      <4>2. 1 \in 1 .. k - 1
        BY <1>1, <3>3, <4>1
      <4> QED BY <3>2, <3>3, <4>2
    <3> QED BY <1>3, <2>2, <2>4, <2>6, <3>1, <3>4, <3>5, Zenon DEF s
  <2> QED BY <2>5, <2>6
<1>7. /\ result.status \in {"no_candidates", "missing_capacity", "no_eligible", "ranked"}
      /\ result.status = "ranked" <=> ranked # <<>>
  <2>1. result.status = Priority!Status(records, capacity, ranked)
    BY ResultIs DEF ranked
  <2>2. capacity \in Priority!Missing \/ (\A p \in Practice : records[p] = None) => Able = {}
    BY <1>2, PriorityAssumption DEF PriorityInv, Priority!Level, Priority!Missing, Priority!Unknown,
       Priority!NotApplicable, Priority!Deferred
  <2>3. CASE \A p \in Practice : records[p] = None
    BY <1>3, <2>1, <2>2, <2>3 DEF Priority!Status
  <2>4. CASE ~ (\A p \in Practice : records[p] = None) /\ capacity \in Priority!Missing
    BY <1>3, <2>1, <2>2, <2>4 DEF Priority!Status
  <2>5. CASE ~ (\A p \in Practice : records[p] = None) /\ capacity \notin Priority!Missing
    BY <2>1, <2>5 DEF Priority!Status
  <2> QED BY <2>3, <2>4, <2>5
<1>8. Priority!LabelIsHonest
  BY <1>7 DEF Priority!LabelIsHonest, ranked
<1>9. Priority!TypeOK
  <2>1. Priority!IsInjective(ranked)
    BY <1>1, Zenon DEF Priority!IsInjective
  <2>2. Priority!Range(ranked) \subseteq Practice
    BY <1>1, <1>2 DEF Priority!Range
  <2> QED BY <1>7, <2>1, <2>2, Zenon DEF PriorityInv, Priority!TypeOK, ranked
<1> QED BY <1>4, <1>5, <1>6, <1>8, <1>9

PriorityHolds == component = "priority" => PriorityInv

LEMMA PriorityInit == Init => PriorityHolds
<1> SUFFICES ASSUME Init, component = "priority" PROVE PriorityInv
  BY DEF PriorityHolds
<1>1. Priority!Init
  BY Zenon DEF Init
<1>2. /\ forms \in [Practice -> Form \cup {None}] /\ base \in [Practice -> Base] /\ capacity \in Capacity
      /\ records = [p \in Practice |-> None] /\ result = None
  BY <1>1, Zenon DEF Priority!Init
<1> QED BY <1>2 DEF PriorityInv

LEMMA SaveKeepsTheInvariant ==
    ASSUME PriorityInv, NEW p \in Practice, Priority!Save(p)
    PROVE  PriorityInv'
<1>1. /\ forms[p] # None /\ Priority!IsValid(forms[p])
      /\ records' = [records EXCEPT ![p] = Priority!ContextInput(forms[p])]
      /\ result = None /\ UNCHANGED <<forms, base, capacity, result>>
  BY Zenon DEF Priority!Save
<1>2. DOMAIN records = Practice
  BY DEF PriorityInv
<1>3. DOMAIN records' = Practice
  BY <1>1, <1>2
<1>4. ASSUME NEW s \in Practice, records'[s] # None
      PROVE  /\ forms'[s] # None /\ Priority!IsValid(forms'[s])
             /\ records'[s] = Priority!ContextInput(forms'[s])
  <2>1. CASE s = p
    <3>1. records'[s] = Priority!ContextInput(forms[p])
      BY <1>1, <1>2, <2>1
    <3> QED BY <1>1, <2>1, <3>1
  <2>2. CASE s # p
    <3>1. records'[s] = records[s]
      BY <1>1, <1>2, <2>2
    <3> QED BY <1>1, <1>4, <3>1 DEF PriorityInv
  <2> QED BY <2>1, <2>2
<1>5. result' = None
  BY <1>1
<1>6. forms' \in [Practice -> Form \cup {None}] /\ base' \in [Practice -> Base] /\ capacity' \in Capacity
  BY <1>1 DEF PriorityInv
<1> QED BY <1>3, <1>4, <1>5, <1>6, Zenon DEF PriorityInv

LEMMA RankKeepsTheInvariant ==
    ASSUME PriorityInv, NEW source \in Practice \cup {None}, Priority!Rank(source)
    PROVE  PriorityInv'
<1>1. /\ UNCHANGED <<forms, base, capacity, records>> /\ result' = Outcome(source)
      /\ source # None => Priority!Disposition(records[source], capacity) \in {"not_applicable", "deferred"}
  BY Zenon DEF Priority!Rank, Outcome
<1>2. forms' = forms /\ base' = base /\ capacity' = capacity /\ records' = records
  BY <1>1
<1>3. Outcome(source)' = Outcome(source)
  BY <1>2, Zenon DEF Outcome
<1>4. /\ result' = Outcome(source)'
      /\ source # None => Priority!Disposition(records'[source], capacity') \in {"not_applicable", "deferred"}
  BY <1>1, <1>2, <1>3
<1>5. /\ forms' \in [Practice -> Form \cup {None}] /\ base' \in [Practice -> Base] /\ capacity' \in Capacity
      /\ DOMAIN records' = Practice
      /\ \A p \in Practice :
             records'[p] # None => /\ forms'[p] # None /\ Priority!IsValid(forms'[p])
                                   /\ records'[p] = Priority!ContextInput(forms'[p])
  BY <1>2, Zenon DEF PriorityInv
<1> QED BY <1>4, <1>5, Zenon DEF PriorityInv

LEMMA PriorityStep == PriorityHolds /\ [Next]_vars => PriorityHolds'
<1> SUFFICES ASSUME PriorityHolds, [Next]_vars PROVE PriorityHolds'
  OBVIOUS
<1>1. CASE Next /\ component = "priority"
  <2>1. Priority!Next /\ PriorityInv
    BY <1>1, Zenon DEF Next, PriorityHolds
  <2>2. CASE \E p \in Practice : Priority!Save(p)
    BY <2>1, <2>2, SaveKeepsTheInvariant DEF PriorityHolds
  <2>3. CASE \E source \in Practice \cup {None} : Priority!Rank(source)
    BY <2>1, <2>3, RankKeepsTheInvariant DEF PriorityHolds
  <2> QED BY <2>1, <2>2, <2>3, Zenon DEF Priority!Next
<1>2. CASE Next /\ component # "priority"
  BY <1>2, Zenon DEF Next, PriorityHolds
<1>3. CASE UNCHANGED vars
  <2>1. component' = component /\ UNCHANGED priorityVars
    BY <1>3, Zenon DEF vars
  <2>2. /\ component' = component /\ forms' = forms /\ base' = base /\ capacity' = capacity
        /\ records' = records /\ result' = result
    BY <2>1, Zenon DEF priorityVars
  <2>3. ASSUME NEW source PROVE Outcome(source)' = Outcome(source)
    BY <2>2, Zenon DEF Outcome
  <2>4. PriorityInv => PriorityInv'
    BY <2>2, <2>3, Zenon DEF PriorityInv
  <2> QED BY <2>2, <2>4, Zenon DEF PriorityHolds
<1> QED BY <1>1, <1>2, <1>3

LEMMA PrioritiesAreHonest ==
    ASSUME PriorityInv
    PROVE  /\ Priority!TypeOK /\ Priority!FormsComeBack /\ Priority!MissingIsNotZero
           /\ Priority!DominanceIsRespected /\ Priority!AlternativeIsTheBest /\ Priority!LabelIsHonest
<1>1. Priority!FormsComeBack
  <2>1. ASSUME NEW p \in Practice, forms[p] # None, Priority!IsValid(forms[p])
        PROVE  /\ Priority!IsContract(Priority!ContextInput(forms[p]))
               /\ records[p] # None => Priority!Redisplayed(records[p]) = forms[p]
    <3>1. forms[p] \in Priority!Fields
      BY <2>1, PriorityAssumption DEF PriorityInv
    <3>2. records[p] # None => records[p] = Priority!ContextInput(forms[p])
      BY Zenon DEF PriorityInv
    <3> QED BY <2>1, <3>1, <3>2, FormsComeBackAsPosted
  <2> QED BY <2>1, Zenon DEF Priority!FormsComeBack
<1>2. CASE result = None
  <2>1. Priority!MissingIsNotZero /\ Priority!DominanceIsRespected /\ Priority!AlternativeIsTheBest
        /\ Priority!LabelIsHonest
    BY <1>2, Zenon DEF Priority!MissingIsNotZero, Priority!DominanceIsRespected, Priority!AlternativeIsTheBest,
                       Priority!LabelIsHonest
  <2>2. Priority!TypeOK
    BY <1>2, Zenon DEF PriorityInv, Priority!TypeOK
  <2> QED BY <1>1, <2>1, <2>2
<1>3. CASE result # None
  BY <1>1, <1>3, ResultsAreHonest
<1> QED BY <1>2, <1>3

\* A form comes back as it was posted; a practice is ranked exactly when all its levels were given,
\* be they zero or not; the order never contradicts what the owner said; an alternative is the first
\* of the order; the label says whether there is one (growth/domain/context_priority.py).
THEOREM PrioritiesStayHonest == Spec => []PriorityIsHonest
<1>1. Init => PriorityHolds
  BY PriorityInit
<1>2. PriorityHolds /\ [Next]_vars => PriorityHolds'
  BY PriorityStep
<1>3. PriorityHolds => PriorityIsHonest
  BY PrioritiesAreHonest, Zenon DEF PriorityHolds, PriorityIsHonest
<1> QED BY <1>1, <1>2, <1>3, PTL DEF Spec

-----------------------------------------------------------------------------
(* Sums over finite sets                                                    *)

\* One value of the function that sums f over the subsets of a set, and the function.
Step(g, f, s) == IF s = {} THEN 0 ELSE LET x == CHOOSE y \in s : TRUE IN f[x] + g[s \ {x}]
Folding(g, f, S) == g = [s \in SUBSET S |-> Step(g, f, s)]
Sum(f, S) == LET g == CHOOSE g : Folding(g, f, S) IN g[S]

LEMMA FoldingExists ==
    ASSUME NEW f, NEW S, IsFiniteSet(S) PROVE \E g : Folding(g, f, S)
<1> DEFINE Small(n) == {s \in SUBSET S : Cardinality(s) =< n}
           Fits(h, n) == h = [s \in Small(n) |-> Step(h, f, s)]
           T == {n \in Nat : \E h : Fits(h, n)}
<1>1. \A s \in SUBSET S : IsFiniteSet(s) /\ Cardinality(s) \in Nat
  BY FS_Subset, FS_CardinalityType
<1>2. \A n \in Nat : \A s \in Small(n + 1) :
          s # {} => LET x == CHOOSE y \in s : TRUE IN x \in s /\ s \ {x} \in Small(n)
  <2>1. SUFFICES ASSUME NEW n \in Nat, NEW s \in Small(n + 1), s # {}, NEW x, x = CHOOSE y \in s : TRUE
                 PROVE  x \in s /\ s \ {x} \in Small(n)
    OBVIOUS
  <2>2. x \in s
    BY <2>1
  <2>3. Cardinality(s \ {x}) = Cardinality(s) - 1
    BY <1>1, <2>2, FS_RemoveElement, Zenon
  <2> QED BY <1>1, <2>2, <2>3
<1>3. 0 \in T
  <2> DEFINE h == [s \in Small(0) |-> 0]
  <2>1. \A s \in Small(0) : s = {}
    BY <1>1, FS_EmptySet
  <2>2. Fits(h, 0)
    BY <2>1 DEF Step
  <2> HIDE DEF h, Fits
  <2> QED BY <2>2
<1>4. ASSUME NEW n \in Nat, n \in T PROVE n + 1 \in T
  <2>1. PICK h : Fits(h, n)
    BY <1>4
  <2> DEFINE k == [s \in Small(n + 1) |-> Step(h, f, s)]
  <2>2. \A s \in Small(n) : s \in Small(n + 1) /\ k[s] = h[s]
    BY <1>1, <2>1
  <2>3. ASSUME NEW s \in Small(n + 1) PROVE k[s] = Step(k, f, s)
    <3>1. k[s] = Step(h, f, s)
      OBVIOUS
    <3> HIDE DEF k
    <3>2. CASE s = {}
      BY <3>1, <3>2 DEF Step
    <3>3. CASE s # {}
      <4> DEFINE x == CHOOSE y \in s : TRUE
      <4>1. s \ {x} \in Small(n)
        BY <1>2, <3>3
      <4>2. Step(h, f, s) = f[x] + h[s \ {x}] /\ Step(k, f, s) = f[x] + k[s \ {x}]
        BY <3>3, Zenon DEF Step
      <4> QED BY <2>2, <3>1, <4>1, <4>2, Zenon
    <3> QED BY <3>2, <3>3
  <2>4. k = [s \in Small(n + 1) |-> k[s]]
    OBVIOUS
  <2> HIDE DEF k, Small
  <2>5. Fits(k, n + 1)
    BY <2>3, <2>4
  <2> QED BY <2>5
<1> HIDE DEF T, Fits
<1>5. Nat \subseteq T
  BY <1>3, <1>4, AllNumbers
<1>6. PICK h : Fits(h, Cardinality(S))
  <2>1. Cardinality(S) \in T
    BY <1>5, FS_CardinalityType
  <2> QED BY <2>1 DEF T
<1>7. Small(Cardinality(S)) = SUBSET S
  BY FS_Subset
<1> HIDE DEF Small
<1>8. h = [s \in SUBSET S |-> Step(h, f, s)]
  BY <1>6, <1>7 DEF Fits
<1> QED BY <1>8 DEF Folding

\* Two foldings agree wherever both are defined.
LEMMA FoldingsAgree ==
    ASSUME NEW f, NEW S, NEW T, IsFiniteSet(S), IsFiniteSet(T), NEW g, NEW h, Folding(g, f, S), Folding(h, f, T),
           NEW s, s \in SUBSET S, s \in SUBSET T
    PROVE  g[s] = h[s]
<1> DEFINE C == {n \in Nat : \A a : a \subseteq s /\ Cardinality(a) = n => g[a] = h[a]}
<1>1. \A a \in SUBSET s : /\ a \in SUBSET S /\ a \in SUBSET T /\ IsFiniteSet(a) /\ Cardinality(a) \in Nat
                          /\ g[a] = Step(g, f, a) /\ h[a] = Step(h, f, a)
  <2>1. \A a \in SUBSET s : a \in SUBSET S /\ a \in SUBSET T
    OBVIOUS
  <2>2. \A a \in SUBSET S : IsFiniteSet(a) /\ Cardinality(a) \in Nat /\ g[a] = Step(g, f, a)
    BY FS_Subset, FS_CardinalityType DEF Folding
  <2>3. \A a \in SUBSET T : h[a] = Step(h, f, a)
    BY DEF Folding
  <2> QED BY <2>1, <2>2, <2>3
<1>2. 0 \in C
  <2>1. ASSUME NEW a, a \subseteq s, Cardinality(a) = 0 PROVE g[a] = h[a]
    <3>1. a = {}
      BY <1>1, <2>1, FS_EmptySet
    <3>2. Step(g, f, a) = 0 /\ Step(h, f, a) = 0
      BY <3>1 DEF Step
    <3> QED BY <1>1, <2>1, <3>2
  <2> QED BY <2>1
<1>3. ASSUME NEW n \in Nat, n \in C PROVE n + 1 \in C
  <2>1. ASSUME NEW a, a \subseteq s, Cardinality(a) = n + 1 PROVE g[a] = h[a]
    <3>1. a # {}
      BY <2>1, FS_EmptySet
    <3> DEFINE x == CHOOSE y \in a : TRUE
               b == a \ {x}
    <3>2. x \in a
      BY <3>1
    <3>3. Cardinality(b) = Cardinality(a) - 1
      BY <1>1, <2>1, <3>2, FS_RemoveElement, Zenon
    <3>4. b \subseteq s /\ Cardinality(b) = n
      BY <2>1, <3>3
    <3>5. Step(g, f, a) = f[x] + g[b] /\ Step(h, f, a) = f[x] + h[b]
      BY <3>1, Zenon DEF Step
    <3> HIDE DEF x, b
    <3>6. g[b] = h[b]
      BY <1>3, <3>4
    <3> QED BY <1>1, <2>1, <3>5, <3>6
  <2> QED BY <2>1
<1> HIDE DEF C
<1>4. Nat \subseteq C
  BY <1>2, <1>3, AllNumbers
<1>5. Cardinality(s) \in C
  BY <1>1, <1>4
<1> QED BY <1>5 DEF C

\* A folding computes the sum of each subset.
LEMMA FoldingSums ==
    ASSUME NEW f, NEW S, IsFiniteSet(S), NEW g, Folding(g, f, S), NEW s \in SUBSET S
    PROVE  g[s] = Sum(f, s)
<1> DEFINE h == CHOOSE h : Folding(h, f, s)
<1>1. IsFiniteSet(s)
  BY FS_Subset
<1>2. \E k : Folding(k, f, s)
  BY <1>1, FoldingExists
<1>3. Folding(h, f, s)
  BY <1>2, Zenon
<1>4. Sum(f, s) = h[s]
  BY Zenon DEF Sum
<1> HIDE DEF h
<1> QED BY <1>1, <1>3, <1>4, FoldingsAgree

LEMMA FoldingIsTheSum == \A f, S, g : IsFiniteSet(S) /\ Folding(g, f, S) => g[S] = Sum(f, S)
<1> SUFFICES ASSUME NEW f, NEW S, NEW g, IsFiniteSet(S), Folding(g, f, S) PROVE g[S] = Sum(f, S)
  OBVIOUS
<1> QED BY FoldingSums

LEMMA SumUnfolds ==
    ASSUME NEW f, NEW S, IsFiniteSet(S), S # {}
    PROVE  \E x \in S : Sum(f, S) = f[x] + Sum(f, S \ {x})
<1>1. PICK g : Folding(g, f, S)
  BY FoldingExists
<1> DEFINE x == CHOOSE y \in S : TRUE
<1>2. x \in S
  OBVIOUS
<1>3. g[S] = f[x] + g[S \ {x}]
  <2>1. g[S] = Step(g, f, S)
    BY <1>1 DEF Folding
  <2> QED BY <2>1, Zenon DEF Step
<1> HIDE DEF x
<1>4. g[S] = Sum(f, S) /\ g[S \ {x}] = Sum(f, S \ {x})
  BY <1>1, FoldingSums
<1> QED BY <1>2, <1>3, <1>4

LEMMA SumOfNothing == \A f : Sum(f, {}) = 0
<1> TAKE f
<1>1. IsFiniteSet({})
  BY FS_EmptySet
<1>2. PICK g : Folding(g, f, {})
  BY <1>1, FoldingExists
<1>3. g[{}] = Step(g, f, {})
  BY <1>2 DEF Folding
<1>4. Step(g, f, {}) = 0
  BY DEF Step
<1>5. g[{}] = Sum(f, {})
  BY <1>1, <1>2, FoldingSums
<1> QED BY <1>3, <1>4, <1>5

\* Sums of numbers are numbers, in whatever order they are added.
Numbers(f, S) == \A x \in S : f[x] \in Nat

LEMMA SumsAreNumbers ==
    ASSUME NEW f, NEW S, IsFiniteSet(S), Numbers(f, S)
    PROVE  Sum(f, S) \in Nat
<1> DEFINE C == {n \in Nat : \A s \in SUBSET S : Cardinality(s) = n => Sum(f, s) \in Nat}
<1>1. \A s \in SUBSET S : IsFiniteSet(s) /\ Cardinality(s) \in Nat
  BY FS_Subset, FS_CardinalityType
<1>2. 0 \in C
  <2>1. \A s \in SUBSET S : Cardinality(s) = 0 => s = {}
    BY <1>1, FS_EmptySet
  <2> QED BY <2>1, SumOfNothing
<1>3. ASSUME NEW n \in Nat, n \in C PROVE n + 1 \in C
  <2>1. ASSUME NEW s \in SUBSET S, Cardinality(s) = n + 1 PROVE Sum(f, s) \in Nat
    <3>1. s # {}
      BY <2>1, FS_EmptySet
    <3>2. PICK x \in s : Sum(f, s) = f[x] + Sum(f, s \ {x})
      BY <1>1, <3>1, SumUnfolds
    <3>3. Cardinality(s \ {x}) = Cardinality(s) - 1
      BY <1>1, FS_RemoveElement, Zenon
    <3>4. Sum(f, s \ {x}) \in Nat
      BY <1>3, <2>1, <3>3
    <3> QED BY <3>2, <3>4 DEF Numbers
  <2> QED BY <2>1
<1> HIDE DEF C
<1>4. Nat \subseteq C
  BY <1>2, <1>3, AllNumbers
<1>5. Cardinality(S) \in C
  BY <1>1, <1>4
<1> QED BY <1>5 DEF C

LEMMA SumsAddAnywhere ==
    ASSUME NEW f, NEW S, IsFiniteSet(S), Numbers(f, S), NEW x \in S
    PROVE  Sum(f, S) = f[x] + Sum(f, S \ {x})
<1> DEFINE Nice(s) == \A y \in s : Sum(f, s) = f[y] + Sum(f, s \ {y})
           C == {n \in Nat : \A s \in SUBSET S : Cardinality(s) = n => Nice(s)}
<1>1. \A s \in SUBSET S : IsFiniteSet(s) /\ Cardinality(s) \in Nat /\ Sum(f, s) \in Nat
  BY FS_Subset, FS_CardinalityType, SumsAreNumbers DEF Numbers
<1>2. 0 \in C
  <2>1. \A s \in SUBSET S : Cardinality(s) = 0 => s = {}
    BY <1>1, FS_EmptySet
  <2> QED BY <2>1
<1>3. ASSUME NEW n \in Nat, n \in C PROVE n + 1 \in C
  <2>1. ASSUME NEW s \in SUBSET S, Cardinality(s) = n + 1, NEW y \in s PROVE Sum(f, s) = f[y] + Sum(f, s \ {y})
    <3>1. PICK z \in s : Sum(f, s) = f[z] + Sum(f, s \ {z})
      BY <1>1, SumUnfolds
    <3>2. CASE y = z
      BY <3>1, <3>2
    <3>3. CASE y # z
      <4> DEFINE a == s \ {y}
                 b == s \ {z}
                 c == a \ {z}
      <4>1. c = b \ {y} /\ y \in b /\ z \in a /\ a \in SUBSET S /\ b \in SUBSET S /\ c \in SUBSET S
        BY <3>3
      <4>2. Cardinality(a) = Cardinality(s) - 1 /\ Cardinality(b) = Cardinality(s) - 1
        BY <1>1, FS_RemoveElement, Zenon
      <4> HIDE DEF a, b, c
      <4>3. Cardinality(a) = n /\ Cardinality(b) = n
        BY <2>1, <4>2
      <4>4. Nice(a) /\ Nice(b)
        BY <1>3, <4>1, <4>3
      <4>5. Sum(f, a) = f[z] + Sum(f, c)
        BY <4>1, <4>4 DEF c
      <4>6. Sum(f, b) = f[y] + Sum(f, c)
        BY <4>1, <4>4
      <4>7. Sum(f, s) = f[z] + Sum(f, b)
        BY <3>1 DEF b
      <4>8. f[y] \in Nat /\ f[z] \in Nat /\ Sum(f, c) \in Nat
        BY <1>1, <4>1 DEF Numbers
      <4> QED BY <4>5, <4>6, <4>7, <4>8 DEF a
    <3> QED BY <3>2, <3>3
  <2> QED BY <2>1
<1> HIDE DEF C
<1>4. Nat \subseteq C
  BY <1>2, <1>3, AllNumbers
<1>5. Cardinality(S) \in C
  BY <1>1, <1>4
<1> QED BY <1>5 DEF C

LEMMA SumsCompare ==
    ASSUME NEW f, NEW h, NEW S, IsFiniteSet(S), Numbers(f, S), Numbers(h, S), \A x \in S : f[x] =< h[x]
    PROVE  Sum(f, S) =< Sum(h, S)
<1> DEFINE C == {n \in Nat : \A s \in SUBSET S : Cardinality(s) = n => Sum(f, s) =< Sum(h, s)}
<1>1. \A s \in SUBSET S : /\ IsFiniteSet(s) /\ Cardinality(s) \in Nat
                          /\ Sum(f, s) \in Nat /\ Sum(h, s) \in Nat /\ Numbers(f, s) /\ Numbers(h, s)
  <2>1. \A s \in SUBSET S : Numbers(f, s) /\ Numbers(h, s)
    BY DEF Numbers
  <2> QED BY <2>1, FS_Subset, FS_CardinalityType, SumsAreNumbers
<1>2. 0 \in C
  <2>1. \A s \in SUBSET S : Cardinality(s) = 0 => s = {}
    BY <1>1, FS_EmptySet
  <2> QED BY <2>1, SumOfNothing
<1>3. ASSUME NEW n \in Nat, n \in C PROVE n + 1 \in C
  <2>1. ASSUME NEW s \in SUBSET S, Cardinality(s) = n + 1 PROVE Sum(f, s) =< Sum(h, s)
    <3>1. PICK x \in s : TRUE
      BY <2>1, FS_EmptySet
    <3>2. Sum(f, s) = f[x] + Sum(f, s \ {x}) /\ Sum(h, s) = h[x] + Sum(h, s \ {x})
      BY <1>1, SumsAddAnywhere
    <3>3. Cardinality(s \ {x}) = Cardinality(s) - 1
      BY <1>1, FS_RemoveElement, Zenon
    <3>4. Sum(f, s \ {x}) =< Sum(h, s \ {x})
      BY <1>3, <2>1, <3>3
    <3>5. f[x] \in Nat /\ h[x] \in Nat /\ f[x] =< h[x] /\ Sum(f, s \ {x}) \in Nat /\ Sum(h, s \ {x}) \in Nat
      BY <1>1 DEF Numbers
    <3> QED BY <3>2, <3>4, <3>5
  <2> QED BY <2>1
<1> HIDE DEF C
<1>4. Nat \subseteq C
  BY <1>2, <1>3, AllNumbers
<1>5. Cardinality(S) \in C
  BY <1>1, <1>4
<1> QED BY <1>5 DEF C

LEMMA PartsAddUpToLess ==
    ASSUME NEW f, NEW S, IsFiniteSet(S), Numbers(f, S), NEW T \in SUBSET S
    PROVE  Sum(f, T) =< Sum(f, S)
<1> DEFINE C == {n \in Nat : \A s \in SUBSET S : Cardinality(s) = n /\ T \subseteq s => Sum(f, T) =< Sum(f, s)}
<1>1. \A s \in SUBSET S : /\ IsFiniteSet(s) /\ Cardinality(s) \in Nat
                          /\ Sum(f, s) \in Nat /\ Numbers(f, s)
  <2>1. \A s \in SUBSET S : Numbers(f, s)
    BY DEF Numbers
  <2> QED BY <2>1, FS_Subset, FS_CardinalityType, SumsAreNumbers
<1>2. 0 \in C
  <2>1. ASSUME NEW s \in SUBSET S, Cardinality(s) = 0, T \subseteq s PROVE Sum(f, T) =< Sum(f, s)
    <3>1. s = {}
      BY <1>1, <2>1, FS_EmptySet
    <3>2. T = s
      BY <2>1, <3>1
    <3> QED BY <1>1, <3>2
  <2> QED BY <2>1
<1>3. ASSUME NEW n \in Nat, n \in C PROVE n + 1 \in C
  <2>1. ASSUME NEW s \in SUBSET S, Cardinality(s) = n + 1, T \subseteq s PROVE Sum(f, T) =< Sum(f, s)
    <3>1. CASE T = s
      BY <1>1, <3>1
    <3>2. CASE T # s
      <4>1. PICK x \in s : x \notin T
        BY <2>1, <3>2
      <4>2. Sum(f, s) = f[x] + Sum(f, s \ {x})
        BY <1>1, SumsAddAnywhere
      <4>3. Cardinality(s \ {x}) = Cardinality(s) - 1
        BY <1>1, FS_RemoveElement, Zenon
      <4>4. Sum(f, T) =< Sum(f, s \ {x})
        BY <1>3, <2>1, <4>1, <4>3
      <4>5. f[x] \in Nat /\ Sum(f, s \ {x}) \in Nat /\ Sum(f, T) \in Nat
        BY <1>1 DEF Numbers
      <4> QED BY <4>2, <4>4, <4>5
    <3> QED BY <3>1, <3>2
  <2> QED BY <2>1
<1> HIDE DEF C
<1>4. Nat \subseteq C
  BY <1>2, <1>3, AllNumbers
<1>5. Cardinality(S) \in C
  BY <1>1, <1>4
<1> QED BY <1>5 DEF C

LEMMA SumsScale ==
    ASSUME NEW f, NEW h, NEW k \in Nat, NEW S, IsFiniteSet(S), Numbers(f, S), \A x \in S : h[x] = k * f[x]
    PROVE  Sum(h, S) = k * Sum(f, S)
<1> DEFINE C == {n \in Nat : \A s \in SUBSET S : Cardinality(s) = n => Sum(h, s) = k * Sum(f, s)}
<1>1. \A s \in SUBSET S : /\ IsFiniteSet(s) /\ Cardinality(s) \in Nat
                          /\ Sum(f, s) \in Nat /\ Numbers(f, s) /\ Numbers(h, s)
  <2>1. \A s \in SUBSET S : Numbers(f, s)
    BY DEF Numbers
  <2>2. Numbers(h, S)
    <3>1. \A i, j \in Nat : i * j \in Nat
      OBVIOUS
    <3> QED BY <3>1 DEF Numbers
  <2>3. \A s \in SUBSET S : Numbers(h, s)
    BY <2>2 DEF Numbers
  <2> QED BY <2>1, <2>3, FS_Subset, FS_CardinalityType, SumsAreNumbers
<1>2. 0 \in C
  <2>1. \A s \in SUBSET S : Cardinality(s) = 0 => s = {}
    BY <1>1, FS_EmptySet
  <2>2. k * 0 = 0
    OBVIOUS
  <2> QED BY <2>1, <2>2, SumOfNothing
<1>3. ASSUME NEW n \in Nat, n \in C PROVE n + 1 \in C
  <2>1. ASSUME NEW s \in SUBSET S, Cardinality(s) = n + 1 PROVE Sum(h, s) = k * Sum(f, s)
    <3>1. PICK x \in s : TRUE
      BY <2>1, FS_EmptySet
    <3>2. Sum(f, s) = f[x] + Sum(f, s \ {x}) /\ Sum(h, s) = h[x] + Sum(h, s \ {x})
      BY <1>1, SumsAddAnywhere
    <3>3. Cardinality(s \ {x}) = Cardinality(s) - 1
      BY <1>1, FS_RemoveElement, Zenon
    <3>4. Sum(h, s \ {x}) = k * Sum(f, s \ {x})
      BY <1>3, <2>1, <3>3
    <3>5. f[x] \in Nat /\ h[x] = k * f[x] /\ Sum(f, s \ {x}) \in Nat
      BY <1>1 DEF Numbers
    <3>6. \A i, j \in Nat : k * i + k * j = k * (i + j)
      OBVIOUS
    <3> QED BY <3>2, <3>4, <3>5, <3>6
  <2> QED BY <2>1
<1> HIDE DEF C
<1>4. Nat \subseteq C
  BY <1>2, <1>3, AllNumbers
<1>5. Cardinality(S) \in C
  BY <1>1, <1>4
<1> QED BY <1>5 DEF C

LEMMA SumsAdd ==
    ASSUME NEW f, NEW g, NEW h, NEW S, IsFiniteSet(S), Numbers(f, S), Numbers(g, S),
           \A x \in S : h[x] = f[x] + g[x]
    PROVE  Sum(h, S) = Sum(f, S) + Sum(g, S)
<1> DEFINE C == {n \in Nat : \A s \in SUBSET S : Cardinality(s) = n => Sum(h, s) = Sum(f, s) + Sum(g, s)}
<1>1. \A s \in SUBSET S : /\ IsFiniteSet(s) /\ Cardinality(s) \in Nat
                          /\ Numbers(f, s) /\ Numbers(g, s) /\ Numbers(h, s)
                          /\ Sum(f, s) \in Nat /\ Sum(g, s) \in Nat
  <2>1. \A s \in SUBSET S : Numbers(f, s) /\ Numbers(g, s) /\ Numbers(h, s)
    BY DEF Numbers
  <2> QED BY <2>1, FS_Subset, FS_CardinalityType, SumsAreNumbers
<1>2. 0 \in C
  <2>1. \A s \in SUBSET S : Cardinality(s) = 0 => s = {}
    BY <1>1, FS_EmptySet
  <2> QED BY <2>1, SumOfNothing
<1>3. ASSUME NEW n \in Nat, n \in C PROVE n + 1 \in C
  <2>1. ASSUME NEW s \in SUBSET S, Cardinality(s) = n + 1 PROVE Sum(h, s) = Sum(f, s) + Sum(g, s)
    <3>1. PICK x \in s : TRUE
      BY <2>1, FS_EmptySet
    <3> DEFINE t == s \ {x}
    <3>2. /\ Sum(f, s) = f[x] + Sum(f, t) /\ Sum(g, s) = g[x] + Sum(g, t)
          /\ Sum(h, s) = h[x] + Sum(h, t)
      BY <1>1, SumsAddAnywhere
    <3>3. Cardinality(t) = Cardinality(s) - 1
      BY <1>1, FS_RemoveElement, Zenon
    <3>4. t \in SUBSET S
      OBVIOUS
    <3> HIDE DEF t
    <3>5. Sum(h, t) = Sum(f, t) + Sum(g, t)
      BY <1>3, <2>1, <3>3, <3>4
    <3>6. /\ f[x] \in Nat /\ g[x] \in Nat /\ h[x] = f[x] + g[x]
          /\ Sum(f, t) \in Nat /\ Sum(g, t) \in Nat
      BY <1>1, <3>4 DEF Numbers
    <3> QED BY <3>2, <3>5, <3>6
  <2> QED BY <2>1
<1> HIDE DEF C
<1>4. Nat \subseteq C
  BY <1>2, <1>3, AllNumbers
<1>5. Cardinality(S) \in C
  BY <1>1, <1>4
<1> QED BY <1>5 DEF C

LEMMA SumsAreBounded ==
    ASSUME NEW f, NEW k \in Nat, NEW S, IsFiniteSet(S), Numbers(f, S), \A x \in S : f[x] =< k
    PROVE  Sum(f, S) =< k * Cardinality(S)
<1> DEFINE C == {n \in Nat : \A s \in SUBSET S : Cardinality(s) = n => Sum(f, s) =< k * n}
<1>1. \A s \in SUBSET S : /\ IsFiniteSet(s) /\ Cardinality(s) \in Nat
                          /\ Numbers(f, s) /\ Sum(f, s) \in Nat
  <2>1. \A s \in SUBSET S : Numbers(f, s)
    BY DEF Numbers
  <2> QED BY <2>1, FS_Subset, FS_CardinalityType, SumsAreNumbers
<1>2. 0 \in C
  <2>1. \A s \in SUBSET S : Cardinality(s) = 0 => s = {}
    BY <1>1, FS_EmptySet
  <2>2. 0 =< k * 0
    OBVIOUS
  <2> QED BY <2>1, <2>2, SumOfNothing
<1>3. ASSUME NEW n \in Nat, n \in C PROVE n + 1 \in C
  <2>1. ASSUME NEW s \in SUBSET S, Cardinality(s) = n + 1 PROVE Sum(f, s) =< k * (n + 1)
    <3>1. PICK x \in s : TRUE
      BY <2>1, FS_EmptySet
    <3>2. Sum(f, s) = f[x] + Sum(f, s \ {x})
      BY <1>1, SumsAddAnywhere
    <3>3. Cardinality(s \ {x}) = Cardinality(s) - 1
      BY <1>1, FS_RemoveElement, Zenon
    <3>4. Sum(f, s \ {x}) =< k * n
      BY <1>3, <2>1, <3>3
    <3>5. f[x] \in Nat /\ f[x] =< k /\ Sum(f, s \ {x}) \in Nat
      BY <1>1 DEF Numbers
    <3>6. k * n \in Nat /\ k * (n + 1) = k * n + k
      OBVIOUS
    <3> QED BY <3>2, <3>4, <3>5, <3>6
  <2> QED BY <2>1
<1> HIDE DEF C
<1>4. Nat \subseteq C
  BY <1>2, <1>3, AllNumbers
<1>5. Cardinality(S) \in C
  BY <1>1, <1>4
<1> QED BY <1>5 DEF C

LEMMA SumsOfNoughts ==
    ASSUME NEW f, NEW S, IsFiniteSet(S), \A x \in S : f[x] = 0
    PROVE  Sum(f, S) = 0
<1>1. Numbers(f, S) /\ \A x \in S : f[x] =< 0
  BY DEF Numbers
<1>2. Sum(f, S) \in Nat /\ Sum(f, S) =< 0 * Cardinality(S) /\ Cardinality(S) \in Nat
  BY <1>1, SumsAreNumbers, SumsAreBounded, FS_CardinalityType
<1> QED BY <1>2

-----------------------------------------------------------------------------
(* NeedRanking                                                              *)

Assessed(need, c) == {l \in DOMAIN Weight[c] : need[l] # -1}
Weighted(need, c, A) == [l \in A |-> Weight[c][l] * need[l]]

LEMMA WeightsAreShares ==
    ASSUME NEW c \in Competencies
    PROVE  /\ IsFiniteSet(DOMAIN Weight[c]) /\ DOMAIN Weight[c] \subseteq Levers
           /\ Numbers(Weight[c], DOMAIN Weight[c]) /\ Sum(Weight[c], DOMAIN Weight[c]) = 100
<1> DEFINE A == DOMAIN Weight[c]
           Adds(g) == g = [s \in SUBSET A |-> IF s = {} THEN 0
                              ELSE Weight[c][CHOOSE x \in s : TRUE] + g[s \ {CHOOSE x \in s : TRUE}]]
           iter == CHOOSE g : Adds(g)
<1>1. IsFiniteSet(A) /\ A \subseteq Levers /\ Numbers(Weight[c], A)
  <2>1. A \subseteq Levers /\ IsFiniteSet(Levers) /\ \A l \in A : Weight[c][l] \in Nat
    BY RankingAssumption
  <2> HIDE DEF A
  <2>2. IsFiniteSet(A)
    BY <2>1, FS_Subset
  <2> QED BY <2>1, <2>2 DEF A, Numbers
<1>2. iter[A] = 100
  <2>1. ShareTotal(c) = 100
    BY RankingAssumption
  <2>2. ShareTotal(c) = iter[A]
    BY Zenon DEF ShareTotal, Ranking!MapThenSumSet, Ranking!MapThenFoldSet
  <2> QED BY <2>1, <2>2
<1>3. \A g : Folding(g, Weight[c], A) <=> Adds(g)
  BY Zenon DEF Folding, Step
<1> HIDE DEF Adds, A
<1>4. \E g : Adds(g)
  BY <1>1, <1>3, FoldingExists
<1>5. Folding(iter, Weight[c], A)
  BY <1>3, <1>4, Zenon
<1> HIDE DEF iter
<1>6. iter[A] = Sum(Weight[c], A)
  BY <1>1, <1>5, FoldingSums
<1> QED BY <1>1, <1>2, <1>6 DEF A

LEMMA SharesAreSums ==
    ASSUME NEW c \in Competencies, NEW need, NEW A \in SUBSET DOMAIN Weight[c]
    PROVE  Ranking!MapThenSumSet(LAMBDA l : Weight[c][l] * need[l], A) = Sum(Weighted(need, c, A), A)
<1> DEFINE F == Weighted(need, c, A)
           Adds(g) == g = [s \in SUBSET A |-> IF s = {} THEN 0
                              ELSE Weight[c][CHOOSE x \in s : TRUE] * need[CHOOSE x \in s : TRUE]
                                   + g[s \ {CHOOSE x \in s : TRUE}]]
           iter == CHOOSE g : Adds(g)
<1>1. IsFiniteSet(A)
  BY WeightsAreShares, FS_Subset
<1>2. Ranking!MapThenSumSet(LAMBDA l : Weight[c][l] * need[l], A) = iter[A]
  BY Zenon DEF Ranking!MapThenSumSet, Ranking!MapThenFoldSet
<1>3. ASSUME NEW g PROVE Folding(g, F, A) <=> Adds(g)
  <2>1. ASSUME NEW s \in SUBSET A
        PROVE  Step(g, F, s) = IF s = {} THEN 0
                               ELSE Weight[c][CHOOSE x \in s : TRUE] * need[CHOOSE x \in s : TRUE]
                                    + g[s \ {CHOOSE x \in s : TRUE}]
    <3>1. CASE s = {}
      BY <3>1 DEF Step
    <3>2. CASE s # {}
      <4> DEFINE x == CHOOSE y \in s : TRUE
      <4>1. x \in A
        BY <3>2
      <4>2. F[x] = Weight[c][x] * need[x]
        <5> HIDE DEF x
        <5> QED BY <4>1 DEF Weighted
      <4>3. Step(g, F, s) = F[x] + g[s \ {x}]
        BY <3>2, Zenon DEF Step
      <4> QED BY <3>2, <4>2, <4>3, Zenon
    <3> QED BY <3>1, <3>2
  <2> QED BY <2>1, Zenon DEF Folding
<1> HIDE DEF Adds
<1>4. \E g : Adds(g)
  BY <1>1, <1>3, FoldingExists
<1>5. Folding(iter, F, A)
  BY <1>3, <1>4, Zenon
<1> HIDE DEF iter
<1>6. iter[A] = Sum(F, A)
  <2> HIDE DEF F
  <2> QED BY <1>1, <1>5, FoldingIsTheSum
<1> QED BY <1>2, <1>6, Zenon

LEMMA PriorityIsASum ==
    ASSUME NEW c \in Competencies, NEW need
    PROVE  Ranking!ProtocolPriority(need, c) =
               (Sum(Weighted(need, c, Assessed(need, c)), Assessed(need, c)) + 50) \div 100
<1> DEFINE A == Assessed(need, c)
<1>1. Ranking!ProtocolPriority(need, c) =
          (Ranking!MapThenSumSet(LAMBDA l : Weight[c][l] * need[l], A) + 50) \div 100
  BY Zenon DEF Ranking!ProtocolPriority, Assessed
<1>2. A \in SUBSET DOMAIN Weight[c]
  BY DEF Assessed
<1> HIDE DEF A
<1>3. Ranking!MapThenSumSet(LAMBDA l : Weight[c][l] * need[l], A) = Sum(Weighted(need, c, A), A)
  BY <1>2, SharesAreSums
<1> QED BY <1>1, <1>3, Zenon DEF A

Before(value, x, y) == \/ value[x] > value[y]
                       \/ value[x] = value[y] /\ x < y

\* A list of all of S, from the highest value.
OrderedBy(order, S, value) ==
    /\ Cardinality(S) \in Nat /\ order \in [1 .. Cardinality(S) -> S]
    /\ \A i, j \in 1 .. Cardinality(S) : order[i] = order[j] => i = j
    /\ \A x \in S : \E i \in 1 .. Cardinality(S) : order[i] = x
    /\ \A i, j \in 1 .. Cardinality(S) : i < j => Before(value, order[i], order[j])

LEMMA OrdersExist ==
    ASSUME NEW S, IsFiniteSet(S), S \subseteq Int, NEW value, \A x \in S : value[x] \in Int
    PROVE  OrderedBy(Ranking!InOrder(S, value), S, value)
<1> DEFINE N == Cardinality(S)
           order == Ranking!InOrder(S, value)
           R == {pq \in S \X S : Before(value, pq[1], pq[2])}
           Good(g) == \A i, j \in DOMAIN g : i < j => Before(value, g[i], g[j])
<1>1. N \in Nat
  BY FS_CardinalityType
<1>2. \A x, y \in S : <<x, y>> \in R <=> Before(value, x, y)
  OBVIOUS
<1> HIDE DEF R
<1>3. Orders(R, S)
  <2>1. \A x, y \in S : x # y => Before(value, x, y) \/ Before(value, y, x)
    BY DEF Before
  <2>2. \A x, y, z \in S : Before(value, x, y) /\ Before(value, y, z) => Before(value, x, z)
    BY DEF Before
  <2> QED BY <1>2, <2>1, <2>2 DEF Orders
<1>4. PICK f : Sorted(f, N, S, R)
  BY <1>3, SortedExists
<1>5. Ranking!SetToSeqs(S) = {g \in [1 .. N -> S] : \A i, j \in 1 .. N : i # j => g[i] # g[j]}
  BY DEF Ranking!SetToSeqs, Ranking!Cardinality, Cardinality
<1>6. f \in Ranking!SetToSeqs(S) /\ Good(f)
  <2>1. f \in [1 .. N -> S] /\ \A i, j \in 1 .. N : i < j => f[i] # f[j] /\ Before(value, f[i], f[j])
    BY <1>2, <1>4 DEF Sorted
  <2>2. ASSUME NEW i \in 1 .. N, NEW j \in 1 .. N, i # j PROVE f[i] # f[j]
    <3>1. i < j \/ j < i
      BY <1>1, <2>2
    <3> QED BY <2>1, <3>1
  <2> QED BY <1>5, <2>1, <2>2
<1>7. order = CHOOSE g \in Ranking!SetToSeqs(S) : Good(g)
  BY Zenon DEF Ranking!InOrder, Before
<1> HIDE DEF Good
<1>8. order \in Ranking!SetToSeqs(S) /\ Good(order)
  <2> HIDE DEF order
  <2> QED BY <1>6, <1>7, Zenon
<1> HIDE DEF order
<1>9. order \in [1 .. N -> S] /\ \A i, j \in 1 .. N : i # j => order[i] # order[j]
  BY <1>5, <1>8
<1>10. \A x \in S : \E i \in 1 .. N : order[i] = x
  <2>1. order \in Injection(1 .. N, S)
    <3>1. \A i, j \in 1 .. N : order[i] = order[j] => i = j
      BY <1>9
    <3> QED BY <1>9, <3>1 DEF Injection, IsInjective
  <2>2. IsFiniteSet(1 .. N) /\ Cardinality(1 .. N) = N
    BY <1>1, FS_Interval
  <2>3. order \in Surjection(1 .. N, S)
    BY <1>1, <2>1, <2>2, FS_Injection, Zenon
  <2> QED BY <2>3 DEF Surjection
<1>11. \A i, j \in 1 .. N : i < j => Before(value, order[i], order[j])
  BY <1>8, <1>9 DEF Good
<1> QED BY <1>1, <1>9, <1>10, <1>11 DEF OrderedBy, order

\* A need or a share of it, in units of 0.0001; -1 says that it is not known.
NeedValue == Ranking!Amount \cup {-1}

LEMMA AmountBounds ==
    /\ \A x \in Ranking!Amount : x \in Nat /\ x =< 10000 /\ x # -1
    /\ \A x \in Nat : x =< 10000 => x \in Ranking!Amount
<1>1. \A x \in Ranking!Amount : x \in Nat /\ x =< 10000
  BY DEF Ranking!Amount
<1>2. \A x \in Nat : x # -1
  BY SMT
<1>3. \A x \in Nat : x =< 10000 => x \in Ranking!Amount
  BY SMT DEF Ranking!Amount
<1> QED BY <1>1, <1>2, <1>3

LEMMA ScoreBounds ==
    \A s \in Ranking!Score : (s.gap \in 0 .. 10 \/ s.gap = None) /\ s.confidence \in 0 .. 100
<1>1. \A s \in Ranking!Score : s.gap \in Gap /\ s.confidence \in Confidence
  BY DEF Ranking!Score
<1>2. Gap \subseteq (0 .. 10) \cup {None} /\ Confidence \subseteq 0 .. 100
  BY RankingAssumption
<1> QED BY <1>1, <1>2

LEMMA NeedBounds ==
    ASSUME NEW s \in Ranking!Score
    PROVE  Ranking!Need(s) \in NeedValue /\ (Ranking!Need(s) = -1 <=> s.gap = None)
<1> DEFINE g == s.gap * s.gap * s.gap
           w == 6000 + 40 * s.confidence
           v == (g * w + 500) \div 1000
<1>1. (s.gap \in 0 .. 10 \/ s.gap = None) /\ s.confidence \in 0 .. 100
  BY ScoreBounds
<1>2. CASE s.gap = None
  BY <1>2 DEF Ranking!Need, NeedValue
<1>3. CASE s.gap # None
  <2>1. s.gap \in 0 .. 10
    BY <1>1, <1>3
  <2>2. s.gap \in Nat /\ s.gap * s.gap \in Nat /\ s.gap * s.gap =< 10 * 10
    BY <2>1, ProductsAreMonotone
  <2>3. g \in Nat /\ g =< 1000
    <3>1. g \in Nat /\ g =< (10 * 10) * 10
      BY <2>1, <2>2, ProductsAreMonotone
    <3> HIDE DEF g
    <3> QED BY <3>1
  <2>4. w \in Nat /\ w =< 10000
    BY <1>1
  <2>5. Ranking!Need(s) = v
    BY <1>3 DEF Ranking!Need
  <2>6. g * w + 500 \in Nat /\ g * w + 500 < (10000 + 1) * 1000
    <3> HIDE DEF g, w
    <3> DEFINE y == g * w
    <3>1. y \in Nat /\ y =< 1000 * 10000
      BY <2>3, <2>4, ProductsAreMonotone
    <3> HIDE DEF y
    <3>2. y + 500 \in Nat /\ y + 500 < (10000 + 1) * 1000
      BY <3>1
    <3> QED BY <3>2 DEF y
  <2> HIDE DEF g, w
  <2>7. v \in Nat /\ v =< 10000
    BY <2>6, DivisionBounds
  <2> HIDE DEF v
  <2>8. v \in NeedValue /\ v # -1
    BY <2>7, AmountBounds DEF NeedValue
  <2> QED BY <1>3, <2>5, <2>8
<1> QED BY <1>2, <1>3

LEMMA NeedGrows ==
    ASSUME NEW s \in Ranking!Score, NEW t \in Ranking!Score, s.gap # None, t.gap # None,
           s.gap =< t.gap, s.confidence =< t.confidence
    PROVE  Ranking!Need(s) =< Ranking!Need(t)
<1>1. s.gap \in 0 .. 10 /\ t.gap \in 0 .. 10 /\ s.confidence \in 0 .. 100 /\ t.confidence \in 0 .. 100
  BY ScoreBounds
<1> DEFINE a == s.gap * s.gap * s.gap
           b == t.gap * t.gap * t.gap
           p == 6000 + 40 * s.confidence
           q == 6000 + 40 * t.confidence
<1>2. a \in Nat /\ b \in Nat /\ a =< b
  <2>1. s.gap \in Nat /\ t.gap \in Nat
    BY <1>1
  <2>2. s.gap * s.gap \in Nat /\ t.gap * t.gap \in Nat /\ s.gap * s.gap =< t.gap * t.gap
    BY <2>1, ProductsAreMonotone
  <2> QED BY <2>1, <2>2, ProductsAreMonotone
<1>3. p \in Nat /\ q \in Nat /\ p =< q
  <2> DEFINE i == s.confidence
             j == t.confidence
  <2>1. i \in 0 .. 100 /\ j \in 0 .. 100 /\ i =< j
    BY <1>1
  <2> HIDE DEF i, j
  <2>2. 6000 + 40 * i \in Nat /\ 6000 + 40 * j \in Nat /\ 6000 + 40 * i =< 6000 + 40 * j
    BY <2>1
  <2> QED BY <2>2 DEF i, j
<1>4. Ranking!Need(s) = (a * p + 500) \div 1000 /\ Ranking!Need(t) = (b * q + 500) \div 1000
  BY DEF Ranking!Need
<1> HIDE DEF a, b, p, q
<1>5. a * p \in Nat /\ b * q \in Nat /\ a * p =< b * q
  BY <1>2, <1>3, ProductsAreMonotone
<1> QED BY <1>4, <1>5


\* What the ledgers hold of each lever, and what is known of those that are assessed.
Needs == [Levers -> NeedValue]
AllKnown(need, c, A) ==
    /\ IsFiniteSet(A) /\ A \in SUBSET DOMAIN Weight[c]
    /\ \A l \in A : need[l] \in Ranking!Amount /\ Weight[c][l] \in Nat

LEMMA KnownNeeds == \A x \in NeedValue : x # -1 => x \in Ranking!Amount
BY DEF NeedValue

LEMMA AssessedNeeds ==
    ASSUME NEW need \in Needs, NEW c \in Competencies
    PROVE  AllKnown(need, c, Assessed(need, c))
<1> DEFINE A == Assessed(need, c)
<1>1. A \in SUBSET DOMAIN Weight[c] /\ \A l \in A : need[l] # -1
  BY DEF Assessed
<1>2. DOMAIN Weight[c] \subseteq Levers /\ IsFiniteSet(DOMAIN Weight[c]) /\ Numbers(Weight[c], DOMAIN Weight[c])
  BY WeightsAreShares
<1> HIDE DEF A
<1>3. IsFiniteSet(A)
  BY <1>1, <1>2, FS_Subset
<1>4. ASSUME NEW l \in A PROVE need[l] \in Ranking!Amount
  <2>1. need[l] \in NeedValue /\ need[l] # -1
    BY <1>1, <1>2 DEF Needs
  <2> QED BY <2>1, KnownNeeds
<1>5. \A l \in A : Weight[c][l] \in Nat
  BY <1>1, <1>2 DEF Numbers
<1>6. AllKnown(need, c, A)
  BY <1>1, <1>3, <1>4, <1>5, Zenon DEF AllKnown
<1> QED BY <1>6 DEF A

LEMMA PriorityBounds ==
    ASSUME NEW need \in Needs, NEW c \in Competencies
    PROVE  Ranking!ProtocolPriority(need, c) \in Ranking!Amount
<1> DEFINE A == Assessed(need, c)
           F == Weighted(need, c, A)
           G == [l \in A |-> 10000 * Weight[c][l]]
<1>1. IsFiniteSet(A) /\ A \in SUBSET DOMAIN Weight[c] /\ \A l \in A : need[l] \in Ranking!Amount /\ Weight[c][l] \in Nat
  BY AssessedNeeds, Zenon DEF AllKnown
<1>2. Ranking!ProtocolPriority(need, c) = (Sum(F, A) + 50) \div 100
  BY PriorityIsASum
<1>3. \A l \in A : F[l] = Weight[c][l] * need[l] /\ G[l] = 10000 * Weight[c][l]
  BY DEF Weighted
<1> HIDE DEF A, F, G
<1>4. ASSUME NEW l \in A PROVE F[l] \in Nat /\ G[l] \in Nat /\ F[l] =< G[l]
  <2>1. need[l] \in Nat /\ need[l] =< 10000 /\ Weight[c][l] \in Nat
    BY <1>1, AmountBounds
  <2>2. Weight[c][l] * need[l] \in Nat /\ Weight[c][l] * 10000 \in Nat
        /\ Weight[c][l] * need[l] =< Weight[c][l] * 10000
    BY <2>1, ProductsAreMonotone
  <2>3. 10000 * Weight[c][l] = Weight[c][l] * 10000
    BY <2>1
  <2> QED BY <1>3, <2>2, <2>3
<1>5. Sum(F, A) \in Nat /\ Sum(F, A) =< Sum(G, A)
  <2>1. Numbers(F, A) /\ Numbers(G, A)
    BY <1>4 DEF Numbers
  <2> QED BY <1>1, <1>4, <2>1, SumsAreNumbers, SumsCompare
<1>6. Sum(Weight[c], A) \in Nat /\ Sum(Weight[c], A) =< 100 /\ Numbers(Weight[c], A)
  <2>1. IsFiniteSet(DOMAIN Weight[c]) /\ Numbers(Weight[c], DOMAIN Weight[c]) /\ Sum(Weight[c], DOMAIN Weight[c]) = 100
    BY WeightsAreShares
  <2>2. Numbers(Weight[c], A)
    BY <1>1 DEF Numbers
  <2>3. Sum(Weight[c], A) =< Sum(Weight[c], DOMAIN Weight[c])
    BY <1>1, <2>1, PartsAddUpToLess
  <2>4. Sum(Weight[c], A) \in Nat
    BY <1>1, <2>2, SumsAreNumbers
  <2> QED BY <2>1, <2>2, <2>3, <2>4
<1>7. Sum(G, A) = 10000 * Sum(Weight[c], A)
  BY <1>1, <1>3, <1>6, SumsScale
<1> DEFINE x == Sum(F, A) + 50
<1>8. x \in Nat /\ x < (10000 + 1) * 100
  BY <1>5, <1>6, <1>7
<1> HIDE DEF x
<1>9. x \div 100 \in Ranking!Amount
  <2> DEFINE q == x \div 100
  <2>1. q \in Nat /\ q =< 10000
    BY <1>8, DivisionBounds
  <2> HIDE DEF q
  <2>2. q \in Ranking!Amount
    BY <2>1, AmountBounds
  <2> QED BY <2>2 DEF q
<1> QED BY <1>2, <1>9, Zenon DEF x

\* The part of UnassessedAddsNothing about one competency.
LEMMA PriorityIsNoMore ==
    ASSUME NEW need \in Needs, NEW c \in Competencies
    PROVE  LET more == [l \in Levers |-> need[l] + 1] IN
           100 * Ranking!ProtocolPriority(need, c) =<
               50 + Ranking!MapThenSumSet(LAMBDA l : Weight[c][l] * more[l], Assessed(need, c))
<1> DEFINE A == Assessed(need, c)
           more == [l \in Levers |-> need[l] + 1]
           F == Weighted(need, c, A)
           G == Weighted(more, c, A)
<1>1. IsFiniteSet(A) /\ A \in SUBSET DOMAIN Weight[c] /\ \A l \in A : need[l] \in Ranking!Amount /\ Weight[c][l] \in Nat
  BY AssessedNeeds, Zenon DEF AllKnown
<1>2. Ranking!ProtocolPriority(need, c) = (Sum(F, A) + 50) \div 100
  BY PriorityIsASum
<1>3. A \subseteq Levers
  BY <1>1, WeightsAreShares
<1> HIDE DEF A
<1>4. \A l \in A : more[l] = need[l] + 1
  BY <1>3
<1> HIDE DEF more
<1>5. Ranking!MapThenSumSet(LAMBDA l : Weight[c][l] * more[l], A) = Sum(G, A)
  BY <1>1, SharesAreSums
<1>6. \A l \in A : F[l] = Weight[c][l] * need[l] /\ G[l] = Weight[c][l] * more[l]
  BY DEF Weighted
<1> HIDE DEF F, G
<1>7. ASSUME NEW l \in A PROVE F[l] \in Nat /\ G[l] \in Nat /\ F[l] =< G[l]
  <2>1. need[l] \in Nat /\ Weight[c][l] \in Nat /\ more[l] = need[l] + 1
    BY <1>1, <1>4, AmountBounds
  <2>2. more[l] \in Nat /\ need[l] =< more[l]
    BY <2>1
  <2> QED BY <1>6, <2>1, <2>2, ProductsAreMonotone
<1>8. Sum(F, A) \in Nat /\ Sum(G, A) \in Nat /\ Sum(F, A) =< Sum(G, A)
  <2>1. Numbers(F, A) /\ Numbers(G, A)
    BY <1>7 DEF Numbers
  <2> QED BY <1>1, <1>7, <2>1, SumsAreNumbers, SumsCompare
<1>9. 100 * ((Sum(F, A) + 50) \div 100) =< Sum(F, A) + 50
  BY <1>8
<1>10. 100 * Ranking!ProtocolPriority(need, c) =< 50 + Sum(G, A)
  <2> DEFINE q == (Sum(F, A) + 50) \div 100
  <2>1. q \in Nat
    BY <1>8
  <2> HIDE DEF q
  <2> QED BY <1>2, <1>8, <1>9, <2>1 DEF q
<1> QED BY <1>5, <1>10, Zenon DEF A, more


\* The page as it is drawn from the ledgers.
Drawn ==
    [needs |-> Ranking!PageNeeds, order |-> Ranking!Ranked(Ranking!PageNeeds), failed |-> Ranking!Failed,
     priorities |-> Ranking!PagePriorities,
     recommended |-> IF Ranking!Failed THEN <<>>
                     ELSE Ranking!Recommended(Ranking!PagePriorities, IF composite = "verified" THEN 0 ELSE -1)]

LedgersOK ==
    /\ baseline \in [Levers -> Ranking!Score] /\ state \in [Levers -> Ranking!Score]
    /\ needs \in [Levers -> Ranking!Amount] /\ priorities \in [Competencies -> Ranking!Amount]
    /\ composite \in {"none", "verified", "corrupt"}

RankingInv ==
    /\ LedgersOK
    /\ page # None => page = Drawn
    /\ bases # None => /\ bases = Ranking!BasePriorities
                       /\ composite # "corrupt" /\ (composite # "verified" => legacy \in {"none", "verified"})

LEMMA ValuesAreKnown ==
    /\ Ranking!Amount \subseteq NeedValue /\ \A x \in Ranking!Amount : x # -1
    /\ \A x \in NeedValue : x \in Int
<1>1. Ranking!Amount \subseteq NeedValue
  BY DEF NeedValue
<1>2. \A x \in Ranking!Amount : x \in Int /\ x # -1
  BY AmountBounds
<1>3. -1 \in Int
  OBVIOUS
<1> QED BY <1>1, <1>2, <1>3 DEF NeedValue

LEMMA PageNeedsType == ASSUME LedgersOK PROVE Ranking!PageNeeds \in Needs
<1>1. ASSUME NEW l \in Levers
      PROVE  needs[l] \in NeedValue /\ Ranking!Need(state[l]) \in NeedValue /\ Ranking!Need(baseline[l]) \in NeedValue
  <2>1. needs[l] \in Ranking!Amount /\ state[l] \in Ranking!Score /\ baseline[l] \in Ranking!Score
    BY Zenon DEF LedgersOK
  <2> QED BY <2>1, NeedBounds, ValuesAreKnown, Zenon
<1>2. \A l \in Levers :
          (IF ~Ranking!Failed /\ composite = "verified" THEN needs[l]
           ELSE IF ~Ranking!Failed /\ legacy = "verified" THEN Ranking!Need(state[l])
           ELSE Ranking!Need(baseline[l])) \in NeedValue
  BY <1>1, Zenon
<1> QED BY <1>2, Zenon DEF Needs, Ranking!PageNeeds

LEMMA PagePrioritiesType == ASSUME LedgersOK PROVE Ranking!PagePriorities \in [Protocol -> Ranking!Amount]
<1>1. ASSUME NEW p \in Protocol
      PROVE  priorities[ParentOf[p]] \in Ranking!Amount /\ Ranking!ProtocolPriority(Ranking!PageNeeds, ParentOf[p]) \in Ranking!Amount
  <2>1. ParentOf[p] \in Competencies
    BY RankingAssumption
  <2>2. priorities[ParentOf[p]] \in Ranking!Amount
    BY <2>1, Zenon DEF LedgersOK
  <2> QED BY <2>1, <2>2, PageNeedsType, PriorityBounds, Zenon
<1> QED BY <1>1, Zenon DEF Ranking!PagePriorities

LEMMA BasePrioritiesType == ASSUME LedgersOK PROVE Ranking!BasePriorities \in [Protocol -> Ranking!Amount]
<1> DEFINE need == [l \in Levers |-> IF legacy = "none" THEN Ranking!Need(baseline[l]) ELSE Ranking!Need(state[l])]
<1>1. need \in Needs
  <2>1. ASSUME NEW l \in Levers
        PROVE  Ranking!Need(state[l]) \in NeedValue /\ Ranking!Need(baseline[l]) \in NeedValue
    <3>1. state[l] \in Ranking!Score /\ baseline[l] \in Ranking!Score
      BY Zenon DEF LedgersOK
    <3> QED BY <3>1, NeedBounds, Zenon
  <2>2. \A l \in Levers :
            (IF legacy = "none" THEN Ranking!Need(baseline[l]) ELSE Ranking!Need(state[l])) \in NeedValue
    BY <2>1, Zenon
  <2> QED BY <2>2, Zenon DEF Needs
<1> HIDE DEF need
<1>2. ASSUME NEW p \in Protocol
      PROVE  priorities[ParentOf[p]] \in Ranking!Amount /\ Ranking!ProtocolPriority(need, ParentOf[p]) \in Ranking!Amount
  <2>1. ParentOf[p] \in Competencies
    BY RankingAssumption
  <2>2. priorities[ParentOf[p]] \in Ranking!Amount
    BY <2>1, Zenon DEF LedgersOK
  <2> QED BY <1>1, <2>1, <2>2, PriorityBounds, Zenon
<1>3. Ranking!BasePriorities =
          IF composite = "verified" THEN [p \in Protocol |-> priorities[ParentOf[p]]]
          ELSE [p \in Protocol |-> Ranking!ProtocolPriority(need, ParentOf[p])]
  BY Zenon DEF Ranking!BasePriorities, need
<1> QED BY <1>2, <1>3, Zenon

LEMMA PageOrder ==
    ASSUME LedgersOK
    PROVE  OrderedBy(Ranking!Ranked(Ranking!PageNeeds), Levers, Ranking!PageNeeds)
<1>1. Ranking!PageNeeds \in Needs
  BY PageNeedsType
<1>2. DOMAIN Ranking!PageNeeds = Levers /\ \A l \in Levers : Ranking!PageNeeds[l] \in Int
  BY <1>1, ValuesAreKnown, Zenon DEF Needs
<1>3. IsFiniteSet(Levers) /\ Levers \subseteq Int
  BY RankingAssumption
<1>4. OrderedBy(Ranking!InOrder(Levers, Ranking!PageNeeds), Levers, Ranking!PageNeeds)
  BY <1>2, <1>3, OrdersExist
<1> QED BY <1>2, <1>4, Zenon DEF Ranking!Ranked


LEMMA RankingTypeOK == ASSUME RankingInv PROVE Ranking!TypeOK
<1>1. LedgersOK
  BY Zenon DEF RankingInv
<1>2. ASSUME page # None
      PROVE  /\ page.needs \in Needs /\ page.priorities \in [Protocol -> Ranking!Amount]
             /\ Ranking!Range(page.order) = Levers /\ Ranking!IsInjective(page.order)
  <2>1. page = Drawn
    BY <1>2, Zenon DEF RankingInv
  <2>2. /\ page.needs = Ranking!PageNeeds /\ page.priorities = Ranking!PagePriorities
        /\ page.order = Ranking!Ranked(Ranking!PageNeeds)
    BY <2>1 DEF Drawn
  <2> DEFINE order == Ranking!Ranked(Ranking!PageNeeds)
             N == Cardinality(Levers)
  <2>3. /\ order \in [1 .. N -> Levers]
        /\ \A i, j \in 1 .. N : order[i] = order[j] => i = j
        /\ \A x \in Levers : \E i \in 1 .. N : order[i] = x
    BY <1>1, PageOrder, Zenon DEF OrderedBy
  <2> HIDE DEF order, N
  <2>4. Ranking!Range(order) = Levers
    BY <2>3 DEF Ranking!Range
  <2>5. Ranking!IsInjective(order)
    BY <2>3, Zenon DEF Ranking!IsInjective
  <2> QED BY <1>1, <2>2, <2>4, <2>5, PageNeedsType, PagePrioritiesType, Zenon DEF order
<1>3. bases # None => bases \in [Protocol -> Ranking!Amount]
  BY <1>1, BasePrioritiesType, Zenon DEF RankingInv
<1> QED BY <1>2, <1>3 DEF Ranking!TypeOK, Needs, NeedValue

LEMMA NeedsFollowEvidence == ASSUME RankingInv PROVE Ranking!NeedFollowsEvidence
<1> DEFINE score == IF ~Ranking!Failed /\ legacy = "verified" THEN state ELSE baseline
<1>1. SUFFICES ASSUME page # None, Ranking!Failed \/ composite = "none",
                      NEW i \in DOMAIN page.order, NEW j \in DOMAIN page.order, i < j,
                      None \notin {score[page.order[i]].gap, score[page.order[j]].gap},
                      score[page.order[j]].gap >= score[page.order[i]].gap,
                      score[page.order[j]].confidence >= score[page.order[i]].confidence
               PROVE  /\ page.needs[page.order[i]] = page.needs[page.order[j]]
                      /\ page.order[i] < page.order[j]
  BY Zenon DEF Ranking!NeedFollowsEvidence
<1>2. LedgersOK /\ page = Drawn
  BY <1>1, Zenon DEF RankingInv
<1>3. page.needs = Ranking!PageNeeds /\ page.order = Ranking!Ranked(Ranking!PageNeeds)
  BY <1>2 DEF Drawn
<1> DEFINE k == page.order[i]
           l == page.order[j]
           need == Ranking!PageNeeds
<1>4. k \in Levers /\ l \in Levers /\ Before(need, k, l)
  <2> DEFINE order == Ranking!Ranked(Ranking!PageNeeds)
             N == Cardinality(Levers)
  <2>1. /\ order \in [1 .. N -> Levers]
        /\ \A m, n \in 1 .. N : m < n => Before(need, order[m], order[n])
    BY <1>2, PageOrder, Zenon DEF OrderedBy
  <2> HIDE DEF order, need
  <2>2. i \in 1 .. N /\ j \in 1 .. N
    BY <1>1, <1>3, <2>1 DEF order
  <2> QED BY <1>1, <1>3, <2>1, <2>2 DEF order
<1>5. \A x \in Levers : need[x] = Ranking!Need(score[x]) /\ score[x] \in Ranking!Score
  <2>1. \A x \in Levers : need[x] = Ranking!Need(score[x])
    BY <1>1, Zenon DEF Ranking!PageNeeds, Ranking!Failed
  <2>2. score \in [Levers -> Ranking!Score]
    BY <1>2, Zenon DEF LedgersOK
  <2> HIDE DEF score
  <2> QED BY <2>1, <2>2
<1>6. score[k].gap # None /\ score[l].gap # None /\ score[k].gap =< score[l].gap
      /\ score[k].confidence =< score[l].confidence
  <2>1. score[k] \in Ranking!Score /\ score[l] \in Ranking!Score
    BY <1>4, <1>5
  <2>2. score[k].gap # None /\ score[l].gap # None
    BY <1>1
  <2> HIDE DEF score
  <2>3. score[k].gap \in 0 .. 10 /\ score[l].gap \in 0 .. 10
        /\ score[k].confidence \in 0 .. 100 /\ score[l].confidence \in 0 .. 100
    BY <2>1, <2>2, ScoreBounds
  <2> QED BY <1>1, <2>2, <2>3
<1> HIDE DEF score, k, l, need
<1>7. need[k] =< need[l] /\ need[k] \in Int /\ need[l] \in Int
  <2>1. score[k] \in Ranking!Score /\ score[l] \in Ranking!Score
        /\ need[k] = Ranking!Need(score[k]) /\ need[l] = Ranking!Need(score[l])
    BY <1>4, <1>5
  <2>2. Ranking!Need(score[k]) =< Ranking!Need(score[l])
    BY <1>6, <2>1, NeedGrows
  <2> QED BY <2>1, <2>2, NeedBounds, ValuesAreKnown
<1>8. need[k] = need[l] /\ k < l
  BY <1>4, <1>7 DEF Before
<1> QED BY <1>3, <1>8 DEF k, l, need


LEMMA UnassessedLeversAddNothing == ASSUME RankingInv PROVE Ranking!UnassessedAddsNothing
<1> DEFINE need == Ranking!PageNeeds
           more == [l \in Levers |-> page.needs[l] + 1]
<1>1. SUFFICES ASSUME page # None, ~Ranking!Failed, composite = "none", NEW p \in Protocol
               PROVE  100 * page.priorities[p] =<
                          50 + Ranking!MapThenSumSet(LAMBDA l : Weight[ParentOf[p]][l] * more[l],
                                   {l \in DOMAIN Weight[ParentOf[p]] : page.needs[l] # -1})
  BY Zenon DEF Ranking!UnassessedAddsNothing
<1>2. LedgersOK /\ page = Drawn
  BY <1>1, Zenon DEF RankingInv
<1>3. page.needs = need /\ page.priorities = Ranking!PagePriorities
  BY <1>2 DEF Drawn
<1>4. page.needs \in Needs
  BY <1>2, <1>3, PageNeedsType
<1>5. page.priorities[p] = Ranking!ProtocolPriority(page.needs, ParentOf[p])
  <2>1. composite # "verified"
    BY <1>1
  <2>2. Ranking!PagePriorities = [q \in Protocol |-> Ranking!ProtocolPriority(need, ParentOf[q])]
    BY <2>1, Zenon DEF Ranking!PagePriorities
  <2> HIDE DEF need
  <2> QED BY <1>1, <1>3, <2>2
<1>6. ParentOf[p] \in Competencies
  BY <1>1, RankingAssumption
<1>7. 100 * Ranking!ProtocolPriority(page.needs, ParentOf[p]) =<
          50 + Ranking!MapThenSumSet(LAMBDA l : Weight[ParentOf[p]][l] * more[l], Assessed(page.needs, ParentOf[p]))
  BY <1>4, <1>6, PriorityIsNoMore, Zenon
<1> QED BY <1>5, <1>7, Zenon DEF Assessed

LEMMA RecommendedAre ==
    ASSUME NEW priority \in [Protocol -> Ranking!Amount], NEW floor \in Int
    PROVE  LET recommended == Ranking!Recommended(priority, floor) IN
           /\ Len(recommended) =< 3 /\ Ranking!Range(recommended) \subseteq Active
           /\ Len(recommended) = 3 =>
                \A p \in Active \ Ranking!Range(recommended) : \A q \in Ranking!Range(recommended) :
                    priority[p] =< priority[q]
<1> DEFINE S == {p \in Active : priority[p] > floor}
           order == Ranking!InOrder(S, priority)
           N == Cardinality(S)
           m == IF Len(order) < 3 THEN Len(order) ELSE 3
           recommended == SubSeq(order, 1, m)
<1>1. /\ IsFiniteSet(S) /\ S \subseteq Int /\ S \subseteq Active
      /\ \A p \in Active : priority[p] \in Int
  <2>1. Active \subseteq Protocol /\ IsFiniteSet(Protocol) /\ Protocol \subseteq Int
    BY RankingAssumption
  <2>2. S \subseteq Active
    OBVIOUS
  <2>3. \A p \in Active : priority[p] \in Int
    BY <2>1, AmountBounds
  <2> HIDE DEF S
  <2> QED BY <2>1, <2>2, <2>3, FS_Subset
<1>2. \A p \in Active : p \in S <=> priority[p] > floor
  OBVIOUS
<1> HIDE DEF S
<1>3. OrderedBy(order, S, priority)
  BY <1>1, OrdersExist
<1> HIDE DEF order
<1>4. /\ N \in Nat /\ order \in [1 .. N -> S]
      /\ \A x \in S : \E i \in 1 .. N : order[i] = x
      /\ \A i, j \in 1 .. N : i < j => Before(priority, order[i], order[j])
  BY <1>3, Zenon DEF OrderedBy
<1> HIDE DEF N
<1>5. order \in Seq(S) /\ Len(order) = N
  BY <1>4
<1>6. m \in Nat /\ m =< 3 /\ m =< N /\ (m = 3 \/ m = N)
  BY <1>4, <1>5
<1> HIDE DEF m
<1>7. Len(recommended) = m /\ DOMAIN recommended = 1 .. m /\ \A i \in 1 .. m : recommended[i] = order[i] /\ i \in 1 .. N
  BY <1>4, <1>5, <1>6
<1> HIDE DEF recommended
<1>8. Ranking!Range(recommended) \subseteq S
  BY <1>4, <1>7 DEF Ranking!Range
<1>9. ASSUME m = 3, NEW p \in Active \ Ranking!Range(recommended), NEW q \in Ranking!Range(recommended)
      PROVE  priority[p] =< priority[q]
  <2>1. PICK i \in 1 .. m : q = order[i]
    BY <1>7 DEF Ranking!Range
  <2>2. q \in S /\ priority[q] \in Int /\ priority[p] \in Int
    BY <1>1, <1>8
  <2>3. CASE p \notin S
    BY <1>1, <1>2, <2>2, <2>3
  <2>4. CASE p \in S
    <3>1. PICK j \in 1 .. N : p = order[j]
      BY <1>4, <2>4
    <3>2. j \notin 1 .. m
      BY <1>7, <1>9, <3>1 DEF Ranking!Range
    <3>3. i < j
      BY <1>4, <1>6, <3>1, <3>2
    <3>4. i \in 1 .. N
      BY <1>7
    <3> QED BY <1>4, <2>1, <2>2, <3>1, <3>3, <3>4 DEF Before
  <2> QED BY <2>3, <2>4
<1>10. Ranking!Recommended(priority, floor) = recommended
  BY Zenon DEF Ranking!Recommended, recommended, m, order, S
<1> QED BY <1>1, <1>6, <1>7, <1>8, <1>9, <1>10


LEMMA TheMostUrgentStay == ASSUME RankingInv PROVE Ranking!TheMostUrgentAreRecommended
<1>1. SUFFICES ASSUME page # None
               PROVE  /\ Len(page.recommended) =< 3 /\ Ranking!Range(page.recommended) \subseteq Active
                      /\ Len(page.recommended) = 3 =>
                           \A p \in Active \ Ranking!Range(page.recommended) :
                               \A q \in Ranking!Range(page.recommended) :
                                   page.priorities[p] =< page.priorities[q]
  BY Zenon DEF Ranking!TheMostUrgentAreRecommended
<1>2. LedgersOK /\ page = Drawn
  BY <1>1, Zenon DEF RankingInv
<1> DEFINE floor == IF composite = "verified" THEN 0 ELSE -1
<1>3. /\ page.priorities = Ranking!PagePriorities
      /\ page.recommended = IF Ranking!Failed THEN <<>> ELSE Ranking!Recommended(page.priorities, floor)
  BY <1>2 DEF Drawn
<1>4. floor \in Int
  OBVIOUS
<1> HIDE DEF floor
<1>5. CASE Ranking!Failed
  <2>1. page.recommended = <<>>
    BY <1>3, <1>5
  <2>2. Len(page.recommended) = 0 /\ Ranking!Range(page.recommended) = {}
    BY <2>1 DEF Ranking!Range
  <2> QED BY <2>2
<1>6. CASE ~Ranking!Failed
  <2>1. page.recommended = Ranking!Recommended(page.priorities, floor)
    BY <1>3, <1>6
  <2>2. page.priorities \in [Protocol -> Ranking!Amount]
    BY <1>2, <1>3, PagePrioritiesType
  <2> QED BY <1>4, <2>1, <2>2, RecommendedAre, Zenon
<1> QED BY <1>5, <1>6

LEMMA FailingCloses == ASSUME RankingInv PROVE Ranking!FailsClosed
<1>1. SUFFICES ASSUME page # None, Ranking!Failed
               PROVE  page.recommended = <<>> /\ page.needs = [l \in Levers |-> Ranking!Need(baseline[l])]
  BY Zenon DEF Ranking!FailsClosed
<1>2. page = Drawn
  BY <1>1, Zenon DEF RankingInv
<1>3. page.recommended = <<>> /\ page.needs = Ranking!PageNeeds
  BY <1>1, <1>2 DEF Drawn
<1>4. Ranking!PageNeeds = [l \in Levers |-> Ranking!Need(baseline[l])]
  <2>1. \A l \in Levers :
            (IF ~Ranking!Failed /\ composite = "verified" THEN needs[l]
             ELSE IF ~Ranking!Failed /\ legacy = "verified" THEN Ranking!Need(state[l])
             ELSE Ranking!Need(baseline[l])) = Ranking!Need(baseline[l])
    BY <1>1, Zenon
  <2> QED BY <2>1, Zenon DEF Ranking!PageNeeds
<1> QED BY <1>3, <1>4

LEMMA PrioritiesAreOne == ASSUME RankingInv PROVE Ranking!OnePriority
<1>1. SUFFICES ASSUME page # None, bases # None, ~Ranking!Failed PROVE page.priorities = bases
  BY Zenon DEF Ranking!OnePriority
<1>2. page = Drawn /\ bases = Ranking!BasePriorities /\ (composite # "verified" => legacy \in {"none", "verified"})
  BY <1>1, Zenon DEF RankingInv
<1>3. page.priorities = Ranking!PagePriorities
  BY <1>2 DEF Drawn
<1>4. CASE composite = "verified"
  <2>1. Ranking!PagePriorities = Ranking!BasePriorities
    BY <1>4, Zenon DEF Ranking!PagePriorities, Ranking!BasePriorities
  <2> QED BY <1>2, <1>3, <2>1
<1>5. CASE composite # "verified"
  <2>1. \A l \in Levers :
            (IF ~Ranking!Failed /\ composite = "verified" THEN needs[l]
             ELSE IF ~Ranking!Failed /\ legacy = "verified" THEN Ranking!Need(state[l])
             ELSE Ranking!Need(baseline[l])) =
            (IF legacy = "none" THEN Ranking!Need(baseline[l]) ELSE Ranking!Need(state[l]))
    <3>1. CASE legacy = "none"
      <4>1. legacy # "verified"
        BY <3>1
      <4> QED BY <1>5, <3>1, <4>1, Zenon
    <3>2. CASE legacy = "verified"
      <4>1. legacy # "none"
        BY <3>2
      <4> QED BY <1>1, <1>5, <3>2, <4>1, Zenon
    <3> QED BY <1>2, <1>5, <3>1, <3>2, Zenon
  <2> DEFINE need == [l \in Levers |->
                        IF legacy = "none" THEN Ranking!Need(baseline[l]) ELSE Ranking!Need(state[l])]
  <2>2. Ranking!PageNeeds = need
    BY <2>1, Zenon DEF Ranking!PageNeeds
  <2> HIDE DEF need
  <2>3. Ranking!PagePriorities = [p \in Protocol |-> Ranking!ProtocolPriority(Ranking!PageNeeds, ParentOf[p])]
    BY <1>5, Zenon DEF Ranking!PagePriorities
  <2>4. Ranking!BasePriorities = [p \in Protocol |-> Ranking!ProtocolPriority(need, ParentOf[p])]
    BY <1>5, Zenon DEF Ranking!BasePriorities, need
  <2> QED BY <1>2, <1>3, <2>2, <2>3, <2>4
<1> QED BY <1>4, <1>5

RankingHolds == component = "ranking" => RankingInv

LEMMA RankingInit == Init => RankingHolds
<1> SUFFICES ASSUME Init, component = "ranking" PROVE RankingInv
  BY DEF RankingHolds
<1>1. Ranking!Init
  BY Zenon DEF Init
<1>2. /\ baseline \in [Levers -> Ranking!Score]
      /\ state \in IF legacy = "verified" THEN [Levers -> Ranking!Score] ELSE {baseline}
      /\ needs \in IF composite = "verified" THEN [Levers -> Remaining] ELSE {[l \in Levers |-> 0]}
      /\ priorities \in IF composite = "verified" THEN [Competencies -> Remaining] ELSE {[c \in Competencies |-> 0]}
      /\ composite \in {"none", "verified", "corrupt"} /\ page = None /\ bases = None
  BY <1>1, Zenon DEF Ranking!Init
<1>3. state \in [Levers -> Ranking!Score]
  BY <1>2
<1>4. Remaining \subseteq Ranking!Amount /\ 0 \in Ranking!Amount
  BY RankingAssumption, AmountBounds
<1>5. needs \in [Levers -> Ranking!Amount] /\ priorities \in [Competencies -> Ranking!Amount]
  <2>1. [l \in Levers |-> 0] \in [Levers -> Ranking!Amount]
        /\ [c \in Competencies |-> 0] \in [Competencies -> Ranking!Amount]
    BY <1>4
  <2>2. [Levers -> Remaining] \subseteq [Levers -> Ranking!Amount]
        /\ [Competencies -> Remaining] \subseteq [Competencies -> Ranking!Amount]
    BY <1>4
  <2> QED BY <1>2, <2>1, <2>2
<1> QED BY <1>2, <1>3, <1>5, Zenon DEF RankingInv, LedgersOK


\* Nothing that is drawn changes while the ledgers do not.
LEMMA PagesStay ==
    ASSUME UNCHANGED <<baseline, legacy, state, composite, needs, priorities>>
    PROVE  Drawn' = Drawn /\ Ranking!BasePriorities' = Ranking!BasePriorities /\ (LedgersOK => LedgersOK')
<1>1. /\ baseline' = baseline /\ legacy' = legacy /\ state' = state /\ composite' = composite
      /\ needs' = needs /\ priorities' = priorities
  OBVIOUS
<1>2. Ranking!Failed' = Ranking!Failed
  BY <1>1, Zenon DEF Ranking!Failed
<1>3. Ranking!PageNeeds' = Ranking!PageNeeds
  BY <1>1, <1>2, Zenon DEF Ranking!PageNeeds
<1>4. Ranking!PagePriorities' = Ranking!PagePriorities
  BY <1>1, <1>3, Zenon DEF Ranking!PagePriorities
<1>5. Drawn' = Drawn
  BY <1>1, <1>2, <1>3, <1>4, Zenon DEF Drawn
<1>6. Ranking!BasePriorities' = Ranking!BasePriorities
  BY <1>1, Zenon DEF Ranking!BasePriorities
<1>7. LedgersOK => LedgersOK'
  BY <1>1, Zenon DEF LedgersOK
<1> QED BY <1>5, <1>6, <1>7

LEMMA DrawPageKeepsTheInvariant == ASSUME RankingInv, Ranking!DrawPage PROVE RankingInv'
<1>1. /\ page' = Drawn /\ bases' = bases
      /\ UNCHANGED <<baseline, legacy, state, composite, needs, priorities>>
  BY Zenon DEF Ranking!DrawPage, Drawn
<1>2. legacy' = legacy /\ composite' = composite
  BY <1>1
<1>3. Drawn' = Drawn /\ Ranking!BasePriorities' = Ranking!BasePriorities /\ (LedgersOK => LedgersOK')
  BY <1>1, PagesStay
<1> QED BY <1>1, <1>2, <1>3, Zenon DEF RankingInv

LEMMA AskBasesKeepsTheInvariant == ASSUME RankingInv, Ranking!AskBases PROVE RankingInv'
<1>1. /\ bases' = Ranking!BasePriorities /\ page' = page
      /\ composite # "corrupt" /\ (composite = "none" => legacy \in {"none", "verified"})
      /\ UNCHANGED <<baseline, legacy, state, composite, needs, priorities>>
  BY Zenon DEF Ranking!AskBases
<1>2. legacy' = legacy /\ composite' = composite
  BY <1>1
<1>3. Drawn' = Drawn /\ Ranking!BasePriorities' = Ranking!BasePriorities /\ (LedgersOK => LedgersOK')
  BY <1>1, PagesStay
<1>4. composite # "verified" => legacy \in {"none", "verified"}
  BY <1>1 DEF RankingInv, LedgersOK
<1> QED BY <1>1, <1>2, <1>3, <1>4, Zenon DEF RankingInv

LEMMA RankingStep == RankingHolds /\ [Next]_vars => RankingHolds'
<1> SUFFICES ASSUME RankingHolds, [Next]_vars PROVE RankingHolds'
  OBVIOUS
<1>1. CASE Next /\ component = "ranking"
  <2>1. Ranking!Next /\ RankingInv
    BY <1>1, Zenon DEF Next, RankingHolds
  <2>2. CASE Ranking!DrawPage
    BY <2>1, <2>2, DrawPageKeepsTheInvariant DEF RankingHolds
  <2>3. CASE Ranking!AskBases
    BY <2>1, <2>3, AskBasesKeepsTheInvariant DEF RankingHolds
  <2> QED BY <2>1, <2>2, <2>3, Zenon DEF Ranking!Next
<1>2. CASE Next /\ component # "ranking"
  BY <1>2, Zenon DEF Next, RankingHolds
<1>3. CASE UNCHANGED vars
  <2>1. component' = component /\ UNCHANGED rankingVars
    BY <1>3, Zenon DEF vars
  <2>2. /\ component' = component /\ page' = page /\ bases' = bases
        /\ UNCHANGED <<baseline, legacy, state, composite, needs, priorities>>
    BY <2>1, Zenon DEF rankingVars
  <2>3. legacy' = legacy /\ composite' = composite
    BY <2>2
  <2>4. Drawn' = Drawn /\ Ranking!BasePriorities' = Ranking!BasePriorities /\ (LedgersOK => LedgersOK')
    BY <2>2, PagesStay
  <2>5. RankingInv => RankingInv'
    BY <2>2, <2>3, <2>4, Zenon DEF RankingInv
  <2> QED BY <2>2, <2>5, Zenon DEF RankingHolds
<1> QED BY <1>1, <1>2, <1>3

LEMMA TheRankingIsTrue ==
    ASSUME RankingInv
    PROVE  /\ Ranking!TypeOK /\ Ranking!NeedFollowsEvidence /\ Ranking!UnassessedAddsNothing
           /\ Ranking!TheMostUrgentAreRecommended /\ Ranking!FailsClosed /\ Ranking!OnePriority
BY RankingTypeOK, NeedsFollowEvidence, UnassessedLeversAddNothing, TheMostUrgentStay, FailingCloses,
   PrioritiesAreOne

\* Every need and priority stays between nothing and the whole, whatever the ledgers hold and however
\* many levers and practices there are; better evidence of a gap never ranks behind; the three most
\* urgent practices are recommended; a ledger that does not verify recommends nothing; and the home
\* page and the context-aware order rest on the same priorities (growth/domain/ranking.py,
\* growth/services/profile.py, growth/services/context_priority.py).
THEOREM RankingStaysTrue == Spec => []RankingFollowsNeed
<1>1. Init => RankingHolds
  BY RankingInit
<1>2. RankingHolds /\ [Next]_vars => RankingHolds'
  BY RankingStep
<1>3. RankingHolds => RankingFollowsNeed
  BY TheRankingIsTrue, Zenon DEF RankingHolds, RankingFollowsNeed
<1> QED BY <1>1, <1>2, <1>3, PTL DEF Spec


-----------------------------------------------------------------------------
(* CalibrationAnalysis                                                      *)

LEMMA RunsHaveAnOrder ==
    ASSUME NEW runs, Contributed(runs)
    PROVE  \E o \in [DOMAIN runs -> DOMAIN runs] :
               \A j, k \in DOMAIN runs : j < k => Calibration!Earlier(runs, o[j], o[k])
<1> DEFINE n == Len(runs)
           S == 1 .. n
           day(k) == runs[k].day
           R == {p \in S \X S : Calibration!Earlier(runs, p[1], p[2])}
<1>1. n \in Nat /\ DOMAIN runs = S /\ \A k \in S : day(k) \in Nat
  BY DEF Contributed
<1>2. \A j, k \in S : <<j, k>> \in R <=> day(j) < day(k) \/ (day(j) = day(k) /\ j < k)
  BY DEF Calibration!Earlier
<1> HIDE DEF n, day
<1>3. IsFiniteSet(S) /\ Cardinality(S) = n
  BY <1>1, FS_Interval
<1>4. Orders(R, S)
  <2> HIDE DEF R
  <2>1. \A j, k \in S : j # k => <<j, k>> \in R \/ <<k, j>> \in R
    BY <1>1, <1>2
  <2>2. \A i, j, k \in S : <<i, j>> \in R /\ <<j, k>> \in R => <<i, k>> \in R
    BY <1>1, <1>2
  <2> QED BY <2>1, <2>2 DEF Orders
<1> HIDE DEF S, R
<1>5. PICK o : Sorted(o, n, S, R)
  BY <1>3, <1>4, SortedExists
<1>6. o \in [S -> S] /\ \A j, k \in S : j < k => <<o[j], o[k]>> \in R
  BY <1>5 DEF Sorted, S
<1>7. \A j, k \in S : j < k => Calibration!Earlier(runs, o[j], o[k])
  BY <1>6 DEF R
<1> QED BY <1>1, <1>6, <1>7

\* What the export makes of valid runs the analysis accepts, unless one of them repeats a flag.
LEMMA ExportsAreAccepted ==
    ASSUME NEW runs, Contributed(runs), \A k \in DOMAIN runs : Calibration!ValidPayload(runs[k])
    PROVE  /\ Calibration!Accepts(Calibration!Export(Calibration!Oldest(runs)))
                <=> \A k \in DOMAIN runs : ~Calibration!Repeats(runs[k].flags)
           /\ DOMAIN Calibration!Export(Calibration!Oldest(runs)) = DOMAIN runs
           /\ Len(Calibration!Export(Calibration!Oldest(runs))) = Len(runs)
<1> DEFINE IsOrder(o) == \A j, k \in DOMAIN runs : j < k => Calibration!Earlier(runs, o[j], o[k])
           order == CHOOSE o \in [DOMAIN runs -> DOMAIN runs] : IsOrder(o)
           old == Calibration!Oldest(runs)
           rows == Calibration!Export(old)
           D == DOMAIN runs
           n == Len(runs)
<1>1. order \in [D -> D] /\ IsOrder(order)
  <2>1. \E o \in [D -> D] : IsOrder(o)
    BY RunsHaveAnOrder
  <2> HIDE DEF IsOrder
  <2> QED BY <2>1, Zenon
<1>2. old = [k \in D |-> runs[order[k]]]
  BY Zenon DEF Calibration!Oldest
<1> HIDE DEF order
<1>3. \A j, k \in D : j < k => runs[order[j]].day =< runs[order[k]].day /\ order[j] # order[k]
  <2>1. \A k \in D : runs[order[k]].day \in Nat /\ order[k] \in Nat
    BY <1>1 DEF Contributed
  <2> QED BY <1>1, <2>1 DEF Calibration!Earlier
<1> HIDE DEF IsOrder, old
<1>4. rows = [k \in D |-> [run |-> old[k], sequence |-> k, day |-> old[k].day - old[1].day]]
  BY <1>2 DEF Calibration!Export
<1>5. \A k \in D : old[k] = runs[order[k]] /\ order[k] \in D
  BY <1>1, <1>2
<1>6. n \in Nat \ {0} /\ D = 1 .. n
  BY DEF Contributed
<1>7. \A m \in D : \E k \in D : order[k] = m
  <2> HIDE DEF D, n
  <2>1. \A j, k \in D : order[j] = order[k] => j = k
    BY <1>3, <1>6
  <2>2. order \in Injection(D, D)
    BY <1>1, <2>1 DEF Injection, IsInjective
  <2>3. IsFiniteSet(D)
    BY <1>6, FS_Interval
  <2>4. order \in Surjection(D, D)
    BY <2>2, <2>3, FS_Injection, Zenon
  <2> QED BY <2>4 DEF Surjection
<1> DEFINE day(k) == old[k].day
<1>8. \A k \in D : day(k) \in Nat /\ Calibration!ValidPayload(old[k])
  BY <1>5 DEF Contributed
<1>9. \A j, k \in D : j < k => day(j) =< day(k)
  BY <1>3, <1>5
<1>10. Len(rows) = n
  BY <1>4, <1>6
<1> HIDE DEF rows, D, n
<1>11. DOMAIN rows = D /\ \A k \in D : /\ rows[k].run = old[k] /\ rows[k].sequence = k
                                      /\ rows[k].day = day(k) - day(1)
  BY <1>4
<1> HIDE DEF day
<1>12. 1 \in D /\ rows # <<>>
  <2>1. 1 \in D
    BY <1>6
  <2> QED BY <1>11, <2>1
<1>13. rows[1].day = 0
  BY <1>8, <1>11, <1>12
<1>14. ASSUME NEW k \in D PROVE rows[k].day >= 0
  <2>1. k = 1 \/ 1 < k
    BY <1>6
  <2>2. day(1) =< day(k) /\ day(1) \in Nat /\ day(k) \in Nat
    BY <1>8, <1>9, <1>12, <2>1
  <2> QED BY <1>11, <2>2
<1>15. ASSUME NEW k \in D \ {1} PROVE rows[k].day >= rows[k - 1].day
  <2>1. k - 1 \in D /\ k - 1 < k
    BY <1>6
  <2>2. day(k - 1) =< day(k) /\ day(k - 1) \in Nat /\ day(k) \in Nat /\ day(1) \in Nat
    BY <1>8, <1>9, <1>12, <2>1
  <2> QED BY <1>11, <2>1, <2>2
<1>16. ASSUME NEW k \in D PROVE Calibration!AcceptsRun(rows[k], k) <=> ~Calibration!Repeats(old[k].flags)
  <2>1. rows[k].run = old[k] /\ rows[k].sequence = k
    BY <1>11
  <2>2. Calibration!ValidPayload(old[k])
    BY <1>8
  <2> QED BY <2>1, <2>2, Zenon DEF Calibration!ValidPayload, Calibration!AcceptsRun
<1>17. Calibration!Accepts(rows) <=> \A k \in D : Calibration!AcceptsRun(rows[k], k)
  BY <1>11, <1>12, <1>13, <1>14, <1>15, Zenon DEF Calibration!Accepts
<1>18. (\A k \in D : ~Calibration!Repeats(old[k].flags)) <=> \A k \in D : ~Calibration!Repeats(runs[k].flags)
  <2>1. ASSUME \A k \in D : ~Calibration!Repeats(old[k].flags), NEW m \in D
        PROVE  ~Calibration!Repeats(runs[m].flags)
    <3>1. PICK k \in D : order[k] = m
      BY <1>7
    <3>2. old[k].flags = runs[m].flags
      BY <1>5, <3>1
    <3> QED BY <2>1, <3>2, Zenon
  <2>2. ASSUME \A k \in D : ~Calibration!Repeats(runs[k].flags), NEW k \in D
        PROVE  ~Calibration!Repeats(old[k].flags)
    <3>1. old[k].flags = runs[order[k]].flags /\ order[k] \in D
      BY <1>5
    <3> QED BY <2>2, <3>1, Zenon
  <2> QED BY <2>1, <2>2, Zenon
<1>19. Calibration!Accepts(rows) <=> \A k \in D : ~Calibration!Repeats(runs[k].flags)
  BY <1>16, <1>17, <1>18, Zenon
<1> QED BY <1>10, <1>11, <1>19, Zenon DEF rows, old, D, n

-----------------------------------------------------------------------------
(* Counting the runs of a dataset                                           *)

\* A set in two parts, and in six.
LEMMA PartsAddUp ==
    ASSUME NEW T, IsFiniteSet(T), NEW A, NEW B, A \cup B = T, A \cap B = {}
    PROVE  /\ IsFiniteSet(A) /\ IsFiniteSet(B)
           /\ Cardinality(A) \in Nat /\ Cardinality(B) \in Nat /\ Cardinality(T) \in Nat
           /\ Cardinality(A) + Cardinality(B) = Cardinality(T)
<1>1. IsFiniteSet(A) /\ IsFiniteSet(B)
  <2>1. A \in SUBSET T /\ B \in SUBSET T
    OBVIOUS
  <2> QED BY <2>1, FS_Subset
<1>2. Cardinality(A) \in Nat /\ Cardinality(B) \in Nat /\ Cardinality(T) \in Nat
  BY <1>1, FS_CardinalityType
<1>3. Cardinality(A \cup B) = Cardinality(A) + Cardinality(B) - Cardinality(A \cap B)
  BY <1>1, FS_Union
<1>4. Cardinality(A \cap B) = 0
  BY FS_EmptySet
<1> QED BY <1>1, <1>2, <1>3, <1>4

InSix(T, A, B, C, D, E, F) ==
    /\ A \cup B \cup C \cup D \cup E \cup F = T
    /\ A \cap (B \cup C \cup D \cup E \cup F) = {} /\ B \cap (C \cup D \cup E \cup F) = {}
    /\ C \cap (D \cup E \cup F) = {} /\ D \cap (E \cup F) = {} /\ E \cap F = {}

LEMMA SixPartsAddUp ==
    ASSUME NEW T, IsFiniteSet(T), NEW A, NEW B, NEW C, NEW D, NEW E, NEW F, InSix(T, A, B, C, D, E, F)
    PROVE  /\ Cardinality(A) \in Nat /\ Cardinality(B) \in Nat /\ Cardinality(C) \in Nat
           /\ Cardinality(D) \in Nat /\ Cardinality(E) \in Nat /\ Cardinality(F) \in Nat
           /\ Cardinality(A) + Cardinality(B) + Cardinality(C) + Cardinality(D) + Cardinality(E)
                + Cardinality(F) = Cardinality(T)
<1> DEFINE R == B \cup C \cup D \cup E \cup F
           S == C \cup D \cup E \cup F
           U == D \cup E \cup F
           V == E \cup F
<1>1. A \cup R = T /\ A \cap R = {}
  BY DEF InSix
<1>2. B \cup S = R /\ B \cap S = {}
  BY DEF InSix
<1>3. C \cup U = S /\ C \cap U = {}
  BY DEF InSix
<1>4. D \cup V = U /\ D \cap V = {}
  BY DEF InSix
<1>5. E \cup F = V /\ E \cap F = {}
  BY DEF InSix
<1> HIDE DEF R, S, U, V
<1>6. /\ IsFiniteSet(R) /\ Cardinality(A) \in Nat /\ Cardinality(R) \in Nat
      /\ Cardinality(A) + Cardinality(R) = Cardinality(T)
  BY <1>1, PartsAddUp
<1>7. /\ IsFiniteSet(S) /\ Cardinality(B) \in Nat /\ Cardinality(S) \in Nat
      /\ Cardinality(B) + Cardinality(S) = Cardinality(R)
  BY <1>2, <1>6, PartsAddUp
<1>8. /\ IsFiniteSet(U) /\ Cardinality(C) \in Nat /\ Cardinality(U) \in Nat
      /\ Cardinality(C) + Cardinality(U) = Cardinality(S)
  BY <1>3, <1>7, PartsAddUp
<1>9. /\ IsFiniteSet(V) /\ Cardinality(D) \in Nat /\ Cardinality(V) \in Nat
      /\ Cardinality(D) + Cardinality(V) = Cardinality(U)
  BY <1>4, <1>8, PartsAddUp
<1>10. /\ IsFiniteSet(F) /\ Cardinality(E) \in Nat /\ Cardinality(F) \in Nat
      /\ Cardinality(E) + Cardinality(F) = Cardinality(V)
  BY <1>5, <1>9, PartsAddUp
<1> QED BY <1>6, <1>7, <1>8, <1>9, <1>10

\* The runs of participants who took n[p] each.
RunsOf(D, n) == UNION {{p} \X (1 .. n[p]) : p \in D}

LEMMA RunsOfType ==
    ASSUME NEW D, NEW n, NEW e
    PROVE  e \in RunsOf(D, n) <=> \E p \in D : \E k \in 1 .. n[p] : e = <<p, k>>
BY DEF RunsOf

LEMMA RunsAreFinite ==
    ASSUME NEW D, IsFiniteSet(D), NEW n, \A p \in D : n[p] \in Nat \ {0}
    PROVE  IsFiniteSet(RunsOf(D, n))
<1> DEFINE part == [p \in D |-> {p} \X (1 .. n[p])]
           S == {part[p] : p \in D}
<1>1. RunsOf(D, n) = UNION S
  BY Zenon DEF RunsOf
<1>2. \A p \in D : IsFiniteSet(part[p])
  <2> SUFFICES ASSUME NEW p \in D PROVE IsFiniteSet({p} \X (1 .. n[p]))
    BY Zenon
  <2>1. IsFiniteSet({p})
    BY FS_Singleton
  <2>2. IsFiniteSet(1 .. n[p])
    <3>1. n[p] \in Int
      OBVIOUS
    <3> QED BY <3>1, FS_Interval
  <2> QED BY <2>1, <2>2, FS_Product
<1>3. IsFiniteSet(S)
  <2> HIDE DEF S
  <2>1. part \in Surjection(D, S)
    BY Zenon DEF Surjection, S
  <2> HIDE DEF part
  <2> QED BY <2>1, FS_Surjection, Zenon
<1>4. \A T \in S : IsFiniteSet(T)
  BY <1>2, Zenon
<1> HIDE DEF S
<1> QED BY <1>1, <1>3, <1>4, FS_UNION, Zenon

\* The runs that are not a participant's first.
Later(D, n) == {e \in RunsOf(D, n) : e[2] > 1}

\* Each participant has one first run, and the others have an earlier one.
LEMMA FirstsAndLaterAddUp ==
    ASSUME NEW D, IsFiniteSet(D), NEW n, \A p \in D : n[p] \in Nat \ {0}
    PROVE  /\ Cardinality(D) \in Nat /\ IsFiniteSet(Later(D, n)) /\ Cardinality(Later(D, n)) \in Nat
           /\ Cardinality(RunsOf(D, n)) \in Nat
           /\ Cardinality(D) + Cardinality(Later(D, n)) = Cardinality(RunsOf(D, n))
           /\ Cardinality({p \in D : n[p] > 1}) =< Cardinality(Later(D, n))
<1> DEFINE first == [p \in D |-> <<p, 1>>]
           F == {<<p, 1>> : p \in D}
           L == Later(D, n)
           T == RunsOf(D, n)
<1>1. IsFiniteSet(T)
  BY RunsAreFinite
<1>2. F \cup L = T /\ F \cap L = {}
  <2>1. ASSUME NEW e \in T PROVE e \in F \/ e \in L
    <3>1. PICK p \in D : \E k \in 1 .. n[p] : e = <<p, k>>
      BY <2>1, RunsOfType
    <3>2. PICK k \in 1 .. n[p] : e = <<p, k>>
      BY <3>1
    <3>3. k = 1 \/ k > 1
      BY <3>1
    <3> QED BY <2>1, <3>2, <3>3 DEF Later
  <2>2. ASSUME NEW e \in F PROVE e \in T /\ e \notin L
    <3>1. PICK p \in D : e = <<p, 1>>
      BY <2>2
    <3>2. 1 \in 1 .. n[p]
      BY <3>1
    <3> QED BY <3>1, <3>2, RunsOfType DEF Later
  <2>3. L \subseteq T
    BY DEF Later
  <2> HIDE DEF F, L, T
  <2> QED BY <2>1, <2>2, <2>3
<1>3. Cardinality(F) = Cardinality(D)
  <2>1. first \in Bijection(D, F)
    BY DEF Bijection, Injection, Surjection, IsInjective
  <2>2. ExistsBijection(D, F)
    BY <2>1, Zenon DEF ExistsBijection
  <2> QED BY <2>2, FS_Bijection, Zenon
<1> HIDE DEF F, T
<1>4. IsFiniteSet(L) /\ Cardinality(L) \in Nat /\ Cardinality(T) \in Nat /\ Cardinality(F) + Cardinality(L) = Cardinality(T)
  BY <1>1, <1>2, PartsAddUp
<1>5. Cardinality({p \in D : n[p] > 1}) =< Cardinality(L)
  <2> DEFINE R == {p \in D : n[p] > 1}
             second == [p \in R |-> <<p, 2>>]
  <2>1. \A p \in R : <<p, 2>> \in L
    <3> SUFFICES ASSUME NEW p \in R PROVE <<p, 2>> \in L
      OBVIOUS
    <3>1. 2 \in 1 .. n[p] /\ p \in D
      OBVIOUS
    <3>2. <<p, 2>> \in RunsOf(D, n)
      BY <3>1, RunsOfType
    <3> QED BY <3>2 DEF Later
  <2> HIDE DEF L, R
  <2>2. second \in Injection(R, L)
    BY <2>1 DEF Injection, IsInjective
  <2> HIDE DEF second
  <2>3. Cardinality(R) =< Cardinality(L)
    BY <1>4, <2>2, FS_Injection, Zenon
  <2> QED BY <2>3 DEF R
<1>6. Cardinality(D) \in Nat
  BY FS_CardinalityType
<1> QED BY <1>3, <1>4, <1>5, <1>6 DEF T

-----------------------------------------------------------------------------
(* The report                                                               *)

LEMMA CalibrationCardinality == ASSUME NEW S PROVE Calibration!Cardinality(S) = Cardinality(S)
BY DEF Calibration!Cardinality, Cardinality

\* The answers to an item, held back or not, stand for at least and at most what they are.
LEMMA CellsBound ==
    ASSUME NEW c \in Nat
    PROVE  LET cell == Calibration!Cell(c)
           IN  /\ (IF cell = -1 THEN 1 ELSE cell) \in Int /\ (IF cell = -1 THEN 1 ELSE cell) =< c
               /\ (IF cell = -1 THEN SmallCell - 1 ELSE cell) \in Int
               /\ c =< (IF cell = -1 THEN SmallCell - 1 ELSE cell)
<1>1. SmallCell \in Nat
  BY CohortAssumption
<1>2. CASE c > 0 /\ c < SmallCell
  <2>1. Calibration!Cell(c) = -1
    BY <1>2 DEF Calibration!Cell
  <2> QED BY <1>1, <1>2, <2>1
<1>3. CASE ~(c > 0 /\ c < SmallCell)
  <2>1. Calibration!Cell(c) = c /\ c # -1
    BY <1>3 DEF Calibration!Cell
  <2> QED BY <2>1
<1> QED BY <1>2, <1>3

CellsOf(c) == [v \in {"1", "2", "3", "4", "5", "NA"} |-> Calibration!Cell(c[v])]

LEMMA TotalsBound ==
    ASSUME NEW c, NEW runs,
           c["1"] \in Nat, c["2"] \in Nat, c["3"] \in Nat, c["4"] \in Nat, c["5"] \in Nat, c["NA"] \in Nat,
           c["1"] + c["2"] + c["3"] + c["4"] + c["5"] + c["NA"] = runs
    PROVE  Calibration!Least(CellsOf(c)) =< runs /\ runs =< Calibration!Most(CellsOf(c))
<1> DEFINE least(v) == IF Calibration!Cell(c[v]) = -1 THEN 1 ELSE Calibration!Cell(c[v])
           most(v) == IF Calibration!Cell(c[v]) = -1 THEN SmallCell - 1 ELSE Calibration!Cell(c[v])
<1>1. /\ Calibration!Least(CellsOf(c)) = least("1") + least("2") + least("3") + least("4") + least("5") + least("NA")
      /\ Calibration!Most(CellsOf(c)) = most("1") + most("2") + most("3") + most("4") + most("5") + most("NA")
  BY DEF Calibration!Least, Calibration!Most, Calibration!Total, CellsOf
<1>2. \A v : c[v] \in Nat => /\ least(v) \in Int /\ least(v) =< c[v]
                             /\ most(v) \in Int /\ c[v] =< most(v)
  BY CellsBound
<1> HIDE DEF least, most
<1>3. /\ least("1") \in Int /\ least("1") =< c["1"] /\ most("1") \in Int /\ c["1"] =< most("1")
      /\ least("2") \in Int /\ least("2") =< c["2"] /\ most("2") \in Int /\ c["2"] =< most("2")
      /\ least("3") \in Int /\ least("3") =< c["3"] /\ most("3") \in Int /\ c["3"] =< most("3")
      /\ least("4") \in Int /\ least("4") =< c["4"] /\ most("4") \in Int /\ c["4"] =< most("4")
      /\ least("5") \in Int /\ least("5") =< c["5"] /\ most("5") \in Int /\ c["5"] =< most("5")
      /\ least("NA") \in Int /\ least("NA") =< c["NA"] /\ most("NA") \in Int /\ c["NA"] =< most("NA")
  BY <1>2
<1> QED BY <1>1, <1>3

CalibrationInv ==
    /\ contributed \in Inputs /\ analysis \in {"none", "not exported", "refused", "analysed"}
    /\ Calibration!OnlyRepeatedFlagsAreRefused
    /\ analysis = "analysed" =>
         \A p \in DOMAIN contributed : \A k \in DOMAIN contributed[p] : Calibration!ValidPayload(contributed[p][k])

\* What is known of a dataset that was analysed.
LEMMA DatasetIsWhole ==
    ASSUME CalibrationInv, analysis = "analysed"
    PROVE  /\ IsFiniteSet(DOMAIN Calibration!Dataset)
           /\ \A p \in DOMAIN Calibration!Dataset :
                 LET rows == Calibration!Dataset[p] IN
                 /\ Calibration!Accepts(rows)
                 /\ Len(rows) \in Nat \ {0} /\ DOMAIN rows = 1 .. Len(rows)
<1>1. contributed \in Inputs
  BY DEF CalibrationInv
<1>2. IsFiniteSet(DOMAIN contributed) /\ \A p \in DOMAIN contributed : Contributed(contributed[p])
  BY <1>1, CohortAssumption
<1>3. DOMAIN Calibration!Dataset = DOMAIN contributed
  BY DEF Calibration!Dataset
<1>4. ASSUME NEW p \in DOMAIN contributed
      PROVE  LET rows == Calibration!Dataset[p] IN
             /\ Calibration!Accepts(rows)
             /\ Len(rows) \in Nat \ {0} /\ DOMAIN rows = 1 .. Len(rows)
  <2> DEFINE runs == contributed[p]
             rows == Calibration!Dataset[p]
  <2>1. rows = Calibration!Export(Calibration!Oldest(runs))
    BY DEF Calibration!Dataset
  <2>2. Contributed(runs) /\ Len(runs) \in Nat \ {0} /\ DOMAIN runs = 1 .. Len(runs)
    BY <1>2 DEF Contributed
  <2>3. \A k \in DOMAIN runs : Calibration!ValidPayload(runs[k])
    BY Zenon DEF CalibrationInv
  <2>4. \A k \in DOMAIN runs : ~Calibration!Repeats(runs[k].flags)
    <3>1. analysis # "refused"
      OBVIOUS
    <3> QED BY <3>1, Zenon DEF CalibrationInv, Calibration!OnlyRepeatedFlagsAreRefused
  <2> HIDE DEF runs, rows
  <2>5. /\ Calibration!Accepts(rows) <=> \A k \in DOMAIN runs : ~Calibration!Repeats(runs[k].flags)
        /\ DOMAIN rows = DOMAIN runs /\ Len(rows) = Len(runs)
    BY <2>1, <2>2, <2>3, ExportsAreAccepted, Zenon
  <2> QED BY <2>2, <2>4, <2>5 DEF rows
<1> QED BY <1>2, <1>3, <1>4, Zenon

\* A run that was accepted has a source and an answer to each core item.
LEMMA AcceptedRunsAnswer ==
    ASSUME NEW rows, Calibration!Accepts(rows), NEW k \in DOMAIN rows
    PROVE  LET run == rows[k].run IN
           /\ run.source \in {"application", "share_code"}
           /\ \A i \in CoreItem :
                 i \in DOMAIN run.answers /\ run.answers[i] \in {"1", "2", "3", "4", "5", "NA"}
<1> DEFINE run == rows[k].run
<1>1. Calibration!AcceptsRun(rows[k], k)
  BY Zenon DEF Calibration!Accepts
<1>2. /\ run.source \in Calibration!Source /\ CoreItem \subseteq Calibration!Answered(run)
      /\ \A i \in Calibration!Answered(run) : Calibration!ValidResponse(i, run.answers[i])
  BY <1>1, Zenon DEF Calibration!AcceptsRun
<1> HIDE DEF run
<1>3. ASSUME NEW i \in CoreItem
      PROVE  i \in DOMAIN run.answers /\ run.answers[i] \in {"1", "2", "3", "4", "5", "NA"}
  <2>1. i \in DOMAIN run.answers /\ Calibration!ValidResponse(i, run.answers[i])
    BY <1>2 DEF Calibration!Answered
  <2> QED BY <2>1 DEF Calibration!ValidResponse, Calibration!Scale
<1>4. run.source \in {"application", "share_code"}
  BY <1>2 DEF Calibration!Source
<1> QED BY <1>3, <1>4 DEF run

LEMMA ReportsAddUp == ASSUME CalibrationInv PROVE Calibration!ReportAddsUp
<1> DEFINE data == Calibration!Dataset
           a == Calibration!Analysis(data)
           D == DOMAIN data
           n == [p \in D |-> Len(data[p])]
           T == Calibration!Taken(data)
           R == Calibration!Retested(data)
           P == Calibration!Pairs(data)
           run(e) == Calibration!RunAt(data, e)
<1> SUFFICES ASSUME analysis = "analysed"
             PROVE  /\ a.sources["application"] + a.sources["share_code"] = a.runs
                    /\ a.participants + a.pairs = a.runs
                    /\ a.retested =< a.pairs
                    /\ \A i \in CoreItem : Calibration!Least(a.cells[i]) =< a.runs /\ a.runs =< Calibration!Most(a.cells[i])
                    /\ a.agreements # {} => "retest" \in a.candidates /\ a.pairs >= MinRetest
  BY Zenon DEF Calibration!ReportAddsUp
<1>1. /\ IsFiniteSet(D)
      /\ \A p \in D : Calibration!Accepts(data[p]) /\ n[p] \in Nat \ {0} /\ DOMAIN data[p] = 1 .. n[p]
  BY DatasetIsWhole
<1>2. T = RunsOf(D, n)
  <2> HIDE DEF data, n
  <2>1. \A p \in D : {p} \X DOMAIN data[p] = {p} \X (1 .. n[p])
    BY <1>1
  <2> HIDE DEF D
  <2>2. {{p} \X DOMAIN data[p] : p \in D} = {{p} \X (1 .. n[p]) : p \in D}
    BY <2>1, Zenon
  <2> QED BY <2>2, Zenon DEF RunsOf, Calibration!Taken, D
<1>3. P = Later(D, n)
  BY <1>2, Zenon DEF Later, Calibration!Pairs
<1>4. R = {p \in D : n[p] > 1}
  BY DEF Calibration!Retested
<1>5. ASSUME NEW e \in T
      PROVE  /\ run(e).source \in {"application", "share_code"}
             /\ \A i \in CoreItem :
                   i \in DOMAIN run(e).answers /\ run(e).answers[i] \in {"1", "2", "3", "4", "5", "NA"}
  <2> HIDE DEF data, D, n, T, run
  <2>1. PICK p \in D : \E k \in 1 .. n[p] : e = <<p, k>>
    BY <1>2, <1>5, RunsOfType
  <2>2. PICK k \in 1 .. n[p] : e = <<p, k>>
    BY <2>1
  <2>3. Calibration!Accepts(data[p]) /\ k \in DOMAIN data[p]
    BY <1>1
  <2>4. run(e) = data[p][k].run
    BY <2>2 DEF run, Calibration!RunAt
  <2> QED BY <2>3, <2>4, AcceptedRunsAnswer, Zenon
<1> DEFINE Of(s) == {e \in T : run(e).source = s}
           Answering(i, v) == {e \in T : i \in DOMAIN run(e).answers /\ run(e).answers[i] = v}
<1>6. /\ a.participants = Cardinality(D) /\ a.runs = Cardinality(T) /\ a.pairs = Cardinality(P)
      /\ a.retested = Cardinality(R)
      /\ a.agreements = Calibration!Agreements(data) /\ a.candidates = Calibration!Candidates(data)
  BY CalibrationCardinality, Zenon DEF Calibration!Analysis
<1>7. a.sources["application"] = Cardinality(Of("application"))
      /\ a.sources["share_code"] = Cardinality(Of("share_code"))
  <2>1. a.sources = [s \in Calibration!Source |-> Calibration!Cardinality(Of(s))]
    BY Zenon DEF Calibration!Analysis, Calibration!Count
  <2> QED BY <2>1, CalibrationCardinality DEF Calibration!Source
<1>8. ASSUME NEW i \in CoreItem
      PROVE  a.cells[i] = CellsOf([v \in {"1", "2", "3", "4", "5", "NA"} |-> Cardinality(Answering(i, v))])
  <2>1. a.cells = Calibration!Distribution(data)
    BY Zenon DEF Calibration!Analysis
  <2>2. a.cells[i] = [v \in Calibration!Scale \cup {"NA"} |-> Calibration!Cell(Calibration!Observed(data, i, v))]
    BY <2>1 DEF Calibration!Distribution
  <2>3. \A v : Calibration!Observed(data, i, v) = Cardinality(Answering(i, v))
    BY CalibrationCardinality, Zenon
       DEF Calibration!Observed, Calibration!Count, Calibration!Answers, Calibration!Answered
  <2>4. Calibration!Scale \cup {"NA"} = {"1", "2", "3", "4", "5", "NA"}
    BY DEF Calibration!Scale
  <2> HIDE DEF a, Answering
  <2> QED BY <2>2, <2>3, <2>4 DEF CellsOf
<1> HIDE DEF a, data, D, n, T, R, P, run
<1>9. IsFiniteSet(T)
  BY <1>1, <1>2, RunsAreFinite
<1>10. /\ Cardinality(D) \in Nat /\ IsFiniteSet(P) /\ Cardinality(P) \in Nat /\ Cardinality(T) \in Nat
       /\ Cardinality(D) + Cardinality(P) = Cardinality(T)
       /\ Cardinality(R) =< Cardinality(P)
  BY <1>1, <1>2, <1>3, <1>4, FirstsAndLaterAddUp, Zenon
<1>11. a.sources["application"] + a.sources["share_code"] = a.runs
  <2>1. Of("application") \cup Of("share_code") = T /\ Of("application") \cap Of("share_code") = {}
    BY <1>5
  <2> HIDE DEF Of
  <2>2. Cardinality(Of("application")) + Cardinality(Of("share_code")) = Cardinality(T)
    BY <1>9, <2>1, PartsAddUp
  <2> QED BY <1>6, <1>7, <2>2
<1>12. ASSUME NEW i \in CoreItem
       PROVE  Calibration!Least(a.cells[i]) =< a.runs /\ a.runs =< Calibration!Most(a.cells[i])
  <2> DEFINE c == [v \in {"1", "2", "3", "4", "5", "NA"} |-> Cardinality(Answering(i, v))]
             part(v) == Answering(i, v)
  <2>1. InSix(T, part("1"), part("2"), part("3"), part("4"), part("5"), part("NA"))
    BY <1>5 DEF InSix
  <2>2. /\ c["1"] = Cardinality(part("1")) /\ c["2"] = Cardinality(part("2")) /\ c["3"] = Cardinality(part("3"))
        /\ c["4"] = Cardinality(part("4")) /\ c["5"] = Cardinality(part("5")) /\ c["NA"] = Cardinality(part("NA"))
    OBVIOUS
  <2>3. a.cells[i] = CellsOf(c)
    BY <1>8
  <2> HIDE DEF part, c
  <2>4. /\ Cardinality(part("1")) \in Nat /\ Cardinality(part("2")) \in Nat /\ Cardinality(part("3")) \in Nat
        /\ Cardinality(part("4")) \in Nat /\ Cardinality(part("5")) \in Nat /\ Cardinality(part("NA")) \in Nat
        /\ Cardinality(part("1")) + Cardinality(part("2")) + Cardinality(part("3")) + Cardinality(part("4"))
             + Cardinality(part("5")) + Cardinality(part("NA")) = Cardinality(T)
    BY <1>9, <2>1, SixPartsAddUp
  <2>5. Calibration!Least(CellsOf(c)) =< Cardinality(T) /\ Cardinality(T) =< Calibration!Most(CellsOf(c))
    BY <2>2, <2>4, TotalsBound
  <2> QED BY <1>6, <2>3, <2>5
<1>13. ASSUME a.agreements # {} PROVE "retest" \in a.candidates /\ a.pairs >= MinRetest
  <2>1. PICK i \in CoreItem : /\ ~(Cardinality(R) < MinRetest)
                              /\ Cardinality(Calibration!Paired(data, i)) >= MinRetest
    BY <1>6, <1>13, CalibrationCardinality DEF Calibration!Agreements, R
  <2>2. Calibration!Paired(data, i) \in SUBSET P
    BY DEF Calibration!Paired, P
  <2>3. MinRetest \in Nat /\ Cardinality(R) \in Nat
    <3>1. R \in SUBSET D
      BY <1>4
    <3> QED BY <1>1, <3>1, FS_Subset, FS_CardinalityType, CohortAssumption
  <2>4. /\ Cardinality(Calibration!Paired(data, i)) \in Nat
        /\ Cardinality(Calibration!Paired(data, i)) =< Cardinality(P)
    BY <1>10, <2>2, FS_Subset, FS_CardinalityType
  <2>5. "retest" \in Calibration!Candidates(data)
    BY <2>1, <2>3, CalibrationCardinality DEF Calibration!Candidates, R
  <2> QED BY <1>6, <1>10, <2>1, <2>3, <2>4, <2>5
<1> QED BY <1>6, <1>10, <1>11, <1>12, <1>13

CalibrationHolds == component = "calibration" => CalibrationInv

LEMMA CalibrationInit == Init => CalibrationHolds
<1>1. Calibration!Init => CalibrationInv
  BY DEF Calibration!Init, CalibrationInv, Calibration!OnlyRepeatedFlagsAreRefused
<1> QED BY <1>1, Zenon DEF Init, CalibrationHolds

LEMMA AnalyseKeepsTheInvariant == ASSUME CalibrationInv, Calibration!Next PROVE CalibrationInv'
<1> DEFINE valid == \A p \in DOMAIN contributed :
                        \A k \in DOMAIN contributed[p] : Calibration!ValidPayload(contributed[p][k])
           taken == \A p \in DOMAIN Calibration!Dataset : Calibration!Accepts(Calibration!Dataset[p])
           repeated == \E p \in DOMAIN contributed :
                           \E k \in DOMAIN contributed[p] : Calibration!Repeats(contributed[p][k].flags)
<1>1. /\ contributed' = contributed
      /\ ~valid => analysis' = "not exported"
      /\ valid /\ ~taken => analysis' = "refused"
      /\ valid /\ taken => analysis' = "analysed"
  BY Zenon DEF Calibration!Next, Calibration!Analyse
<1>2. \A p \in DOMAIN contributed : Contributed(contributed[p])
  <2>1. contributed \in Inputs
    BY DEF CalibrationInv
  <2> QED BY <2>1, CohortAssumption
<1>3. ASSUME valid PROVE taken <=> ~repeated
  <2>1. ASSUME NEW p \in DOMAIN contributed
        PROVE  Calibration!Accepts(Calibration!Dataset[p])
                 <=> \A k \in DOMAIN contributed[p] : ~Calibration!Repeats(contributed[p][k].flags)
    <3>1. Calibration!Dataset[p] = Calibration!Export(Calibration!Oldest(contributed[p]))
      BY DEF Calibration!Dataset
    <3>2. \A k \in DOMAIN contributed[p] : Calibration!ValidPayload(contributed[p][k])
      BY <1>3, Zenon
    <3> QED BY <1>2, <3>1, <3>2, ExportsAreAccepted, Zenon
  <2>2. DOMAIN Calibration!Dataset = DOMAIN contributed
    BY DEF Calibration!Dataset
  <2> QED BY <2>1, <2>2, Zenon
<1>4. /\ valid' <=> valid
      /\ repeated' <=> repeated
  BY <1>1, Zenon
<1> HIDE DEF valid, taken, repeated
<1>5. analysis' \in {"none", "not exported", "refused", "analysed"}
  BY <1>1
<1>6. analysis' \in {"refused", "analysed"} => (analysis' = "refused" <=> repeated')
  BY <1>1, <1>3, <1>4
<1>7. analysis' = "analysed" => valid'
  BY <1>1, <1>4
<1>8. Calibration!OnlyRepeatedFlagsAreRefused'
  BY <1>6, Zenon DEF Calibration!OnlyRepeatedFlagsAreRefused, repeated
<1>9. contributed' \in Inputs
  BY <1>1 DEF CalibrationInv
<1> QED BY <1>5, <1>7, <1>8, <1>9, Zenon DEF CalibrationInv, valid

LEMMA CalibrationStep == CalibrationHolds /\ [Next]_vars => CalibrationHolds'
<1> SUFFICES ASSUME CalibrationHolds, [Next]_vars PROVE CalibrationHolds'
  OBVIOUS
<1>1. CASE Next /\ component = "calibration"
  <2>1. Calibration!Next /\ CalibrationInv
    BY <1>1, Zenon DEF Next, CalibrationHolds
  <2> QED BY <2>1, AnalyseKeepsTheInvariant DEF CalibrationHolds
<1>2. CASE Next /\ component # "calibration"
  BY <1>2, Zenon DEF Next, CalibrationHolds
<1>3. CASE UNCHANGED vars
  <2>1. component' = component /\ UNCHANGED calibrationVars
    BY <1>3, Zenon DEF vars
  <2>2. component' = component /\ contributed' = contributed /\ analysis' = analysis
    BY <2>1 DEF calibrationVars
  <2>3. CalibrationInv' <=> CalibrationInv
    BY <2>2, Zenon DEF CalibrationInv, Calibration!OnlyRepeatedFlagsAreRefused
  <2> QED BY <2>2, <2>3, Zenon DEF CalibrationHolds
<1> QED BY <1>1, <1>2, <1>3

\* Whatever runs were stored and contributed, by however many participants: what the export writes
\* the analysis accepts, unless a run repeats a flag, which stops it for everybody; and the numbers
\* of its report fit each other: sources, first runs and pairs add up to the runs, the answers to
\* a core item do so within what is held back, and an agreement comes with enough retests
\* (growth/services/assessment_calibration.py, growth/services/assessment_calibration_analysis.py).
THEOREM ContributionsAreAccepted == Spec => []CalibrationIsSound
<1>1. Init => CalibrationHolds
  BY CalibrationInit
<1>2. CalibrationHolds /\ [Next]_vars => CalibrationHolds'
  BY CalibrationStep
<1>3. CalibrationHolds => CalibrationIsSound
  <2>1. CalibrationInv => Calibration!CalibrationIsSound
    BY ReportsAddUp, Zenon DEF CalibrationInv, Calibration!CalibrationIsSound
  <2> QED BY <2>1, Zenon DEF CalibrationHolds, CalibrationIsSound
<1> QED BY <1>1, <1>2, <1>3, PTL DEF Spec

=============================================================================
