------------------------ MODULE PracticeWorkflowProofs ------------------------
(***************************************************************************)
(* Theorems about the practice workflow, for any finite or infinite sets   *)
(* of sprints and check-ins, any protocols and any credit policy.          *)
(*                                                                         *)
(* The argument: submitted rows never change (RowsKept), a sprint that is  *)
(* not current gets no new ones, and everything a review records is a      *)
(* function of the submitted rows of its sprint (SameEvidence).  Readiness *)
(* and credit are monotone in those rows (MoreEvidence, CreditGrows).      *)
(***************************************************************************)
EXTENDS PracticeWorkflow, FiniteSetTheorems, TLAPS

-----------------------------------------------------------------------------
(* The credit of a closeout. *)

\* Integer division by a positive number.
LEMMA Quotient ==
    ASSUME NEW x \in Nat, NEW y \in Nat \ {0}
    PROVE  /\ x \div y \in Nat
           /\ y * (x \div y) =< x
           /\ x < y * ((x \div y) + 1)
OBVIOUS

\* Rounding a part of k yields no more than k.
LEMMA RoundBounds ==
    ASSUME NEW k \in Nat, NEW n \in Nat, NEW d \in Nat \ {0}, n =< d
    PROVE  RoundHalfUp(k * n, d) \in 0 .. k
<1> DEFINE q == RoundHalfUp(k * n, d)
<1>1. k * n \in Nat /\ 2 * d \in Nat \ {0} /\ 2 * (k * n) + d \in Nat
  OBVIOUS
<1>2. q \in Nat /\ (2 * d) * q =< 2 * (k * n) + d
  BY <1>1, Quotient DEF RoundHalfUp
<1>3. k * n =< k * d
  OBVIOUS
<1>4. (2 * d) * q =< (2 * d) * k + d
  BY <1>1, <1>2, <1>3
<1>5. SUFFICES ASSUME q >= k + 1 PROVE FALSE
  BY <1>2
<1>6. (2 * d) * (k + 1) =< (2 * d) * q
  BY <1>2, <1>5
<1> QED BY <1>2, <1>4, <1>6

\* Rounding is monotone.
LEMMA RoundGrows ==
    ASSUME NEW k \in Nat, NEW n \in Nat, NEW m \in Nat, NEW d \in Nat \ {0}, n =< m
    PROVE  RoundHalfUp(k * n, d) =< RoundHalfUp(k * m, d)
<1> DEFINE p == RoundHalfUp(k * n, d)
           q == RoundHalfUp(k * m, d)
<1>1. /\ k * n \in Nat /\ k * m \in Nat /\ 2 * d \in Nat \ {0}
      /\ 2 * (k * n) + d \in Nat /\ 2 * (k * m) + d \in Nat
  OBVIOUS
<1>2. p \in Nat /\ (2 * d) * p =< 2 * (k * n) + d
  BY <1>1, Quotient DEF RoundHalfUp
<1>3. q \in Nat /\ 2 * (k * m) + d < (2 * d) * (q + 1)
  BY <1>1, Quotient DEF RoundHalfUp
<1>4. k * n =< k * m
  OBVIOUS
<1>5. (2 * d) * p < (2 * d) * (q + 1)
  BY <1>1, <1>2, <1>3, <1>4
<1>6. SUFFICES ASSUME p >= q + 1 PROVE FALSE
  BY <1>2, <1>3
<1>7. (2 * d) * (q + 1) =< (2 * d) * p
  BY <1>2, <1>3, <1>6
<1> QED BY <1>1, <1>2, <1>3, <1>5, <1>7

\* A closeout earns at least the minimum and at most the full credit of the policy.
LEMMA CreditBounds ==
    ASSUME NEW n \in Nat, NEW total \in Nat, NEW minimum \in Nat, Accepted(n, total, minimum)
    PROVE  CreditFor(n, total, minimum) \in MinimumCredit .. FullCredit
<1>1. /\ MinimumCredit \in Nat /\ FullCredit \in Nat
      /\ FullCredit - MinimumCredit \in Nat
  BY PolicyAssumption
<1>2. CASE n = total \/ minimum = total
  BY <1>1, <1>2 DEF CreditFor
<1>3. CASE ~(n = total \/ minimum = total)
  <2>1. /\ n - minimum \in Nat /\ total - minimum \in Nat \ {0}
        /\ n - minimum =< total - minimum
    BY <1>3 DEF Accepted
  <2>2. RoundHalfUp((FullCredit - MinimumCredit) * (n - minimum), total - minimum)
          \in 0 .. (FullCredit - MinimumCredit)
    BY <1>1, <2>1, RoundBounds
  <2> QED BY <1>1, <1>3, <2>2 DEF CreditFor
<1> QED BY <1>2, <1>3

\* More completed actions never earn less.
LEMMA CreditGrows ==
    ASSUME NEW n \in Nat, NEW m \in Nat, NEW total \in Nat, NEW minimum \in Nat,
           Accepted(n, total, minimum), Accepted(m, total, minimum), n =< m
    PROVE  CreditFor(n, total, minimum) =< CreditFor(m, total, minimum)
<1>1. /\ MinimumCredit \in Nat /\ FullCredit \in Nat
      /\ FullCredit - MinimumCredit \in Nat
  BY PolicyAssumption
<1>2. CASE m = total \/ minimum = total
  <2>1. CreditFor(m, total, minimum) = FullCredit
    BY <1>2 DEF CreditFor
  <2> QED BY <1>1, <2>1, CreditBounds
<1>3. CASE ~(m = total \/ minimum = total)
  <2>1. /\ n - minimum \in Nat /\ m - minimum \in Nat /\ n - minimum =< m - minimum
        /\ total - minimum \in Nat \ {0} /\ n # total /\ m =< total
    BY <1>3 DEF Accepted
  <2>2. m - minimum =< total - minimum /\ n - minimum =< total - minimum
    BY <2>1
  <2>3. /\ RoundHalfUp((FullCredit - MinimumCredit) * (n - minimum), total - minimum)
             \in 0 .. (FullCredit - MinimumCredit)
        /\ RoundHalfUp((FullCredit - MinimumCredit) * (m - minimum), total - minimum)
             \in 0 .. (FullCredit - MinimumCredit)
    BY <1>1, <2>1, <2>2, RoundBounds
  <2>4. RoundHalfUp((FullCredit - MinimumCredit) * (n - minimum), total - minimum)
          =< RoundHalfUp((FullCredit - MinimumCredit) * (m - minimum), total - minimum)
    BY <1>1, <2>1, RoundGrows
  <2> QED BY <1>1, <1>3, <2>1, <2>3, <2>4 DEF CreditFor
<1> QED BY <1>2, <1>3

-----------------------------------------------------------------------------
(* What is computed from the check-ins of one sprint. *)

\* Every submitted row of T is evidence of an action of its sprint's protocol.
Fits(T) == \A s \in Sprint, c \in CheckIn :
               c \in Submitted(T, s) => T[c].action \in ActionsOf[ProtocolOf[s]]

\* A review and its credit are functions of the submitted rows of the sprint.
LEMMA SameEvidence ==
    ASSUME NEW T, NEW U, NEW s \in Sprint,
           Submitted(U, s) = Submitted(T, s),
           \A c \in Submitted(T, s) : U[c] = T[c]
    PROVE  /\ Ready(U, s) <=> Ready(T, s)
           /\ Totals(U, s) = Totals(T, s)
           /\ CloseoutCredit(U, s) = CloseoutCredit(T, s)
<1>1. Attempted(U, s) = Attempted(T, s) /\ Completed(U, s) = Completed(T, s)
  BY DEF Attempted, Completed
<1>2. Substantive(U, s) <=> Substantive(T, s)
  BY DEF Substantive
<1> QED BY <1>1, <1>2 DEF Ready, Totals, CloseoutCredit

\* The actions completed in a sprint are finitely many, at most those of its protocol.
LEMMA CompletedBounds ==
    ASSUME NEW T, Fits(T), NEW s \in Sprint
    PROVE  /\ Attempted(T, s) \subseteq ActionsOf[ProtocolOf[s]]
           /\ Completed(T, s) \subseteq ActionsOf[ProtocolOf[s]]
           /\ Cardinality(Completed(T, s)) \in Nat
           /\ Cardinality(Attempted(T, s)) \in Nat
           /\ Cardinality(ActionsOf[ProtocolOf[s]]) \in Nat
           /\ Cardinality(Completed(T, s)) =< Cardinality(ActionsOf[ProtocolOf[s]])
<1>1. ProtocolOf[s] \in Protocol
  BY WorkflowAssumption
<1>2. IsFiniteSet(ActionsOf[ProtocolOf[s]])
  BY <1>1, WorkflowAssumption
<1>3. \A c \in Submitted(T, s) : c \in CheckIn /\ T[c].action \in ActionsOf[ProtocolOf[s]]
  BY DEF Submitted, Fits
<1>4. /\ Attempted(T, s) \subseteq ActionsOf[ProtocolOf[s]]
      /\ Completed(T, s) \subseteq ActionsOf[ProtocolOf[s]]
  BY <1>3 DEF Attempted, Completed
<1> QED BY <1>2, <1>4, FS_Subset, FS_CardinalityType

\* A practice that is ready gives closeout_credit arguments it accepts: the closeout never
\* fails there, and earns between the minimum and the full credit.
LEMMA ReadyIsAccepted ==
    ASSUME NEW T, Fits(T), NEW s \in Sprint, Ready(T, s)
    PROVE  /\ Accepted(Cardinality(Completed(T, s)), Cardinality(ActionsOf[ProtocolOf[s]]),
                       MinimumOf[ProtocolOf[s]])
           /\ CloseoutCredit(T, s) \in MinimumCredit .. FullCredit
<1>1. /\ ProtocolOf[s] \in Protocol
      /\ MinimumOf[ProtocolOf[s]] \in Nat \ {0}
      /\ MinimumOf[ProtocolOf[s]] =< Cardinality(ActionsOf[ProtocolOf[s]])
  BY WorkflowAssumption
<1>2. Accepted(Cardinality(Completed(T, s)), Cardinality(ActionsOf[ProtocolOf[s]]),
               MinimumOf[ProtocolOf[s]])
  BY <1>1, CompletedBounds DEF Ready, Accepted
<1> QED BY <1>1, <1>2, CompletedBounds, CreditBounds DEF CloseoutCredit

\* More submitted rows keep a practice ready and its credit at least as high.
LEMMA MoreEvidence ==
    ASSUME NEW T, NEW U, Fits(T), Fits(U), NEW s \in Sprint,
           Submitted(T, s) \subseteq Submitted(U, s),
           \A c \in Submitted(T, s) : U[c] = T[c],
           Ready(T, s)
    PROVE  Ready(U, s) /\ CloseoutCredit(T, s) =< CloseoutCredit(U, s)
<1>1. Attempted(T, s) \subseteq Attempted(U, s) /\ Completed(T, s) \subseteq Completed(U, s)
  BY DEF Attempted, Completed
<1>2. Substantive(T, s) => Substantive(U, s)
  BY DEF Substantive
<1>3. ProtocolOf[s] \in Protocol /\ IsFiniteSet(ActionsOf[ProtocolOf[s]])
        /\ MinimumOf[ProtocolOf[s]] \in Nat \ {0}
  BY WorkflowAssumption
<1>4. Cardinality(Completed(T, s)) =< Cardinality(Completed(U, s))
  BY <1>1, <1>3, CompletedBounds, FS_Subset
<1>5. Ready(U, s)
  BY <1>1, <1>2, <1>3, <1>4, CompletedBounds DEF Ready
<1> QED BY <1>3, <1>4, <1>5, ReadyIsAccepted, CompletedBounds, CreditGrows DEF CloseoutCredit

-----------------------------------------------------------------------------
(* Steps. *)

RowsKept == \A c \in CheckIn : checkIn[c].status = "submitted" => checkIn'[c] = checkIn[c]

\* A submission adds its row to one sprint and changes no other submitted row.
LEMMA SubmissionAdds ==
    ASSUME TypeOK, NEW s \in Sprint, NEW c \in CheckIn, NEW a, NEW done, NEW seen, NEW isFirst,
           SubmitCheckIn(c, s, a, done, seen, isFirst)
    PROVE  /\ RowsKept
           /\ c \notin Submitted(checkIn, s)
           /\ Submitted(checkIn', s) = Submitted(checkIn, s) \cup {c}
           /\ \A t \in Sprint \ {s} : Submitted(checkIn', t) = Submitted(checkIn, t)
           /\ checkIn'[c] = SubmittedRow(checkIn, s, a, done, seen, isFirst)
<1>1. /\ checkIn[c].status # "submitted"
      /\ checkIn' = [checkIn EXCEPT ![c] = SubmittedRow(checkIn, s, a, done, seen, isFirst)]
      /\ checkIn \in [CheckIn -> Row]
  BY DEF SubmitCheckIn, DraftRow, NoRow, TypeOK
<1>2. /\ checkIn'[c] = SubmittedRow(checkIn, s, a, done, seen, isFirst)
      /\ checkIn'[c].status = "submitted" /\ checkIn'[c].sprint = s
      /\ \A d \in CheckIn \ {c} : checkIn'[d] = checkIn[d]
  BY <1>1 DEF SubmittedRow
<1> QED BY <1>1, <1>2 DEF RowsKept, Submitted

\* A draft adds nothing to any sprint.
LEMMA DraftAddsNothing ==
    ASSUME TypeOK, NEW s \in Sprint, NEW c \in CheckIn, SaveDraft(c, s)
    PROVE  RowsKept /\ \A t \in Sprint : Submitted(checkIn', t) = Submitted(checkIn, t)
<1>1. /\ checkIn[c].status = "none" /\ checkIn' = [checkIn EXCEPT ![c] = DraftRow(s)]
      /\ checkIn \in [CheckIn -> Row]
  BY DEF SaveDraft, TypeOK
<1>2. /\ checkIn'[c].status = "draft"
      /\ \A d \in CheckIn \ {c} : checkIn'[d] = checkIn[d]
  BY <1>1 DEF DraftRow, NoRow
<1> QED BY <1>1, <1>2 DEF RowsKept, Submitted

\* Only an active sprint gets new evidence, and no evidence is changed.
LEMMA EvidenceStep ==
    ASSUME TypeOK, [Next]_vars
    PROVE  /\ Freezes
           /\ \A s \in Sprint : Submitted(checkIn, s) \subseteq Submitted(checkIn', s)
           /\ \A s \in Sprint : status[s] # "active" => Submitted(checkIn', s) = Submitted(checkIn, s)
           /\ \A s \in Sprint, c \in CheckIn : c \in Submitted(checkIn, s) => checkIn'[c] = checkIn[c]
<1>1. /\ RowsKept
      /\ \A s \in Sprint : Submitted(checkIn, s) \subseteq Submitted(checkIn', s)
      /\ \A s \in Sprint : status[s] # "active" => Submitted(checkIn', s) = Submitted(checkIn, s)
  <2>1. CASE checkIn' = checkIn
    BY <2>1 DEF RowsKept, Submitted
  <2>2. CASE \E s \in Sprint, c \in CheckIn : SaveDraft(c, s)
    BY <2>2, DraftAddsNothing
  <2>3. CASE \E s \in Sprint, c \in CheckIn, a \in Action, done, isFirst \in BOOLEAN,
                seen \in SUBSET Marker : SubmitCheckIn(c, s, a, done, seen, isFirst)
    <3>1. PICK s \in Sprint, c \in CheckIn, a \in Action, done \in BOOLEAN,
               isFirst \in BOOLEAN, seen \in SUBSET Marker :
                 SubmitCheckIn(c, s, a, done, seen, isFirst)
      BY <2>3
    <3>2. status[s] = "active"
      BY <3>1 DEF SubmitCheckIn
    <3> QED BY <3>1, <3>2, SubmissionAdds
  <2> QED BY <2>1, <2>2, <2>3 DEF Next, vars, TakeAssessment, StartPractice, TransitionSprint,
             CompleteWithReview
<1> QED BY <1>1 DEF Freezes, RowsKept, Submitted, Current

-----------------------------------------------------------------------------
(* The inductive invariant. *)

Finite == \A s \in Sprint : IsFiniteSet(Submitted(checkIn, s))

IInv ==
    /\ TypeOK
    /\ Finite
    /\ Fits(checkIn)
    /\ OneCurrentPractice
    /\ ReviewsStayTrue
    /\ CreditMatchesEvidence
    /\ OneFirstRecord
    /\ RepetitionsAreNumbered

\* Before any evidence there is none to disagree about.
LEMMA InitIInv == Init => IInv
<1> SUFFICES ASSUME Init PROVE IInv
  OBVIOUS
<1>1. \A s \in Sprint : Submitted(checkIn, s) = {}
  BY DEF Init, NoRow, Submitted
<1>2. NoRow \in Row
  BY DEF NoRow, Row
<1>3. TypeOK
  BY <1>2 DEF Init, TypeOK
<1>4. Finite /\ Fits(checkIn) /\ OneFirstRecord
  BY <1>1, FS_EmptySet DEF Finite, Fits, OneFirstRecord
<1>5. OneCurrentPractice /\ ReviewsStayTrue /\ CreditMatchesEvidence
  BY DEF Init, OneCurrentPractice, ReviewsStayTrue, CreditMatchesEvidence, Current
<1>6. RepetitionsAreNumbered
  <2> SUFFICES ASSUME NEW s \in Sprint, NEW a \in Action
               PROVE  LET mine == {c \in Submitted(checkIn, s) : checkIn[c].action = a}
                      IN  {checkIn[c].repetition : c \in mine} = 1 .. Cardinality(mine)
    BY DEF RepetitionsAreNumbered
  <2> DEFINE mine == {c \in Submitted(checkIn, s) : checkIn[c].action = a}
  <2>1. mine = {}
    BY <1>1
  <2>2. {checkIn[c].repetition : c \in mine} = {}
    BY <2>1
  <2>3. Cardinality(mine) = 0
    BY <2>1, FS_EmptySet
  <2>4. 1 .. Cardinality(mine) = {}
    BY <2>3
  <2> QED BY <2>2, <2>4
<1> QED BY <1>3, <1>4, <1>5, <1>6 DEF IInv

\* What depends on the check-ins alone survives a step that submits nothing.
LEMMA NoSubmissionKeeps ==
    ASSUME IInv, TypeOK', RowsKept,
           \A s \in Sprint : Submitted(checkIn', s) = Submitted(checkIn, s)
    PROVE  Finite' /\ Fits(checkIn)' /\ OneFirstRecord' /\ RepetitionsAreNumbered'
<1>1. \A s \in Sprint, c \in CheckIn : c \in Submitted(checkIn, s) => checkIn'[c] = checkIn[c]
  BY DEF RowsKept, Submitted
<1>2. \A s \in Sprint : Submitted(checkIn, s) \subseteq CheckIn
  BY DEF Submitted
<1>3. Finite' /\ Fits(checkIn)'
  BY <1>1, <1>2 DEF IInv, Finite, Fits
<1>4. OneFirstRecord'
  BY <1>1, <1>2 DEF IInv, OneFirstRecord
<1>5. RepetitionsAreNumbered'
  <2> SUFFICES ASSUME NEW s \in Sprint, NEW a \in Action
               PROVE  {checkIn'[c].repetition :
                         c \in {d \in Submitted(checkIn', s) : checkIn'[d].action = a}}
                      = 1 .. Cardinality({d \in Submitted(checkIn', s) : checkIn'[d].action = a})
    BY DEF RepetitionsAreNumbered
  <2>1. {d \in Submitted(checkIn', s) : checkIn'[d].action = a}
          = {d \in Submitted(checkIn, s) : checkIn[d].action = a}
    BY <1>1, <1>2
  <2>2. {checkIn'[c].repetition : c \in {d \in Submitted(checkIn, s) : checkIn[d].action = a}}
          = {checkIn[c].repetition : c \in {d \in Submitted(checkIn, s) : checkIn[d].action = a}}
    BY <1>1, <1>2
  <2> QED BY <2>1, <2>2 DEF IInv, RepetitionsAreNumbered
<1> QED BY <1>3, <1>4, <1>5

\* A submission takes the next number, and is the first record exactly if it is the first.
LEMMA SubmissionKeeps ==
    ASSUME IInv, NEW s \in Sprint, NEW c \in CheckIn, NEW a \in Action, NEW done \in BOOLEAN,
           NEW seen \in SUBSET Marker, NEW isFirst \in BOOLEAN,
           SubmitCheckIn(c, s, a, done, seen, isFirst)
    PROVE  TypeOK' /\ Finite' /\ Fits(checkIn)' /\ OneFirstRecord' /\ RepetitionsAreNumbered'
<1> DEFINE old == {d \in Submitted(checkIn, s) : checkIn[d].action = a}
           n   == Cardinality(old)
<1>1. /\ RowsKept
      /\ c \notin Submitted(checkIn, s)
      /\ Submitted(checkIn', s) = Submitted(checkIn, s) \cup {c}
      /\ \A t \in Sprint \ {s} : Submitted(checkIn', t) = Submitted(checkIn, t)
      /\ checkIn'[c] = SubmittedRow(checkIn, s, a, done, seen, isFirst)
  BY SubmissionAdds DEF IInv
<1>2. \A t \in Sprint, d \in CheckIn : d \in Submitted(checkIn, t) => checkIn'[d] = checkIn[d]
  BY <1>1 DEF RowsKept, Submitted
<1>3. IsFiniteSet(old) /\ n \in Nat
  BY FS_Subset, FS_CardinalityType DEF IInv, Finite
<1>4. /\ checkIn'[c].action = a /\ checkIn'[c].first = isFirst
      /\ checkIn'[c].repetition = 1 + n
  BY <1>1 DEF SubmittedRow, NextRepetition
<1>5. TypeOK'
  <2>1. SubmittedRow(checkIn, s, a, done, seen, isFirst) \in Row
    BY <1>3 DEF SubmittedRow, NextRepetition, Row
  <2> QED BY <2>1 DEF SubmitCheckIn, TypeOK, IInv
<1>6. Finite'
  <2>1. IsFiniteSet(Submitted(checkIn, s) \cup {c})
    BY FS_AddElement DEF IInv, Finite
  <2> QED BY <1>1, <2>1 DEF IInv, Finite
<1>7. Fits(checkIn)'
  <2>1. a \in ActionsOf[ProtocolOf[s]]
    BY DEF SubmitCheckIn
  <2>2. Fits(checkIn)
    BY DEF IInv
  <2>3. \A t \in Sprint, d \in CheckIn :
          d \in Submitted(checkIn', t) => checkIn'[d].action \in ActionsOf[ProtocolOf[t]]
    BY <1>1, <1>2, <1>4, <2>1, <2>2 DEF Fits
  <2> QED BY <2>3 DEF Fits
<1>8. OneFirstRecord'
  <2> SUFFICES ASSUME NEW t \in Sprint, Submitted(checkIn', t) # {}
               PROVE  \E e \in Submitted(checkIn', t) :
                        \A d \in Submitted(checkIn', t) : checkIn'[d].first <=> d = e
    BY DEF OneFirstRecord
  <2>1. \A u \in Sprint : Submitted(checkIn, u) \subseteq CheckIn
    BY DEF Submitted
  <2>2. CASE t # s
    BY <1>1, <1>2, <2>1, <2>2 DEF IInv, OneFirstRecord
  <2>3. CASE t = s /\ Submitted(checkIn, s) = {}
    <3>1. isFirst
      BY <2>3 DEF SubmitCheckIn
    <3> QED BY <1>1, <1>4, <2>3, <3>1
  <2>4. CASE t = s /\ Submitted(checkIn, s) # {}
    <3>1. ~isFirst
      BY <2>4 DEF SubmitCheckIn
    <3>2. PICK e \in Submitted(checkIn, s) :
             \A d \in Submitted(checkIn, s) : checkIn[d].first <=> d = e
      BY <2>4 DEF IInv, OneFirstRecord
    <3> QED BY <1>1, <1>2, <1>4, <2>1, <2>4, <3>1, <3>2
  <2> QED BY <2>2, <2>3, <2>4
<1>9. RepetitionsAreNumbered'
  <2> SUFFICES ASSUME NEW t \in Sprint, NEW b \in Action
               PROVE  {checkIn'[d].repetition :
                         d \in {e \in Submitted(checkIn', t) : checkIn'[e].action = b}}
                      = 1 .. Cardinality({e \in Submitted(checkIn', t) : checkIn'[e].action = b})
    BY DEF RepetitionsAreNumbered
  <2> DEFINE before == {e \in Submitted(checkIn, t) : checkIn[e].action = b}
             after  == {e \in Submitted(checkIn', t) : checkIn'[e].action = b}
  <2>1. Submitted(checkIn, t) \subseteq CheckIn /\ before \subseteq CheckIn
    BY DEF Submitted
  <2>2. {checkIn[d].repetition : d \in before} = 1 .. Cardinality(before)
    BY DEF IInv, RepetitionsAreNumbered
  <2>3. {checkIn'[d].repetition : d \in before} = 1 .. Cardinality(before)
    <3>1. {checkIn'[d].repetition : d \in before} = {checkIn[d].repetition : d \in before}
      BY <1>2, <2>1
    <3> QED BY <2>2, <3>1
  <2>4. CASE t = s /\ b = a
    <3>1. before = old /\ after = before \cup {c} /\ c \notin before
      BY <1>1, <1>2, <1>4, <2>1, <2>4
    <3>2. Cardinality(after) = n + 1
      <4>1. after = old \cup {c} /\ c \notin old
        BY <3>1
      <4>2. Cardinality(old \cup {c}) = Cardinality(old) + 1
        <5> HIDE DEF old
        <5> QED BY <1>3, <4>1, FS_AddElement
      <4> QED BY <4>1, <4>2
    <3>3. {checkIn'[d].repetition : d \in after} = (1 .. n) \cup {1 + n}
      <4>1. {checkIn'[d].repetition : d \in after}
              = {checkIn'[d].repetition : d \in before} \cup {checkIn'[c].repetition}
        <5> HIDE DEF before, after
        <5> QED BY <3>1
      <4> QED BY <1>4, <2>3, <3>1, <4>1
    <3>4. (1 .. n) \cup {1 + n} = 1 .. (n + 1)
      BY <1>3
    <3> HIDE DEF n
    <3> QED BY <3>2, <3>3, <3>4
  <2>5. CASE ~(t = s /\ b = a)
    <3>1. after = before
      BY <1>1, <1>2, <1>4, <2>1, <2>5
    <3> QED BY <2>3, <3>1
  <2> QED BY <2>4, <2>5
<1> QED BY <1>5, <1>6, <1>7, <1>8, <1>9

\* The reviews of closed sprints stand as long as no evidence of theirs is added.
LEMMA ReviewsKept ==
    ASSUME IInv, [Next]_vars, UNCHANGED <<status, review, event>>
    PROVE  ReviewsStayTrue' /\ CreditMatchesEvidence' /\ OneCurrentPractice'
<1>1. \A s \in Sprint : status[s] = "completed" => Submitted(checkIn', s) = Submitted(checkIn, s)
  BY EvidenceStep DEF IInv
<1>2. \A s \in Sprint, c \in CheckIn : c \in Submitted(checkIn, s) => checkIn'[c] = checkIn[c]
  BY EvidenceStep DEF IInv
<1>3. \A s \in Sprint : status[s] = "completed" =>
        /\ Ready(checkIn', s) <=> Ready(checkIn, s)
        /\ Totals(checkIn', s) = Totals(checkIn, s)
        /\ CloseoutCredit(checkIn', s) = CloseoutCredit(checkIn, s)
  <2> SUFFICES ASSUME NEW s \in Sprint, status[s] = "completed"
               PROVE  /\ Ready(checkIn', s) <=> Ready(checkIn, s)
                      /\ Totals(checkIn', s) = Totals(checkIn, s)
                      /\ CloseoutCredit(checkIn', s) = CloseoutCredit(checkIn, s)
    OBVIOUS
  <2>1. \A c \in Submitted(checkIn, s) : checkIn'[c] = checkIn[c]
    BY <1>2 DEF Submitted
  <2> QED BY <1>1, <2>1, SameEvidence
<1>4. ReviewsStayTrue'
  BY <1>3 DEF IInv, ReviewsStayTrue
<1>5. CreditMatchesEvidence'
  BY <1>3 DEF IInv, CreditMatchesEvidence
<1> QED BY <1>4, <1>5 DEF IInv, OneCurrentPractice

\* No step of the owner breaks the invariant.
LEMMA NextIInv == IInv /\ [Next]_vars => IInv'
<1> SUFFICES ASSUME IInv, [Next]_vars PROVE IInv'
  OBVIOUS
<1>0. TypeOK
  BY DEF IInv
<1>1. CASE TakeAssessment \/ UNCHANGED vars
  <2>1. UNCHANGED <<status, checkIn, review, event>> /\ newest' \in Nat
    BY <1>0, <1>1 DEF TakeAssessment, vars, TypeOK
  <2>2. TypeOK' /\ RowsKept /\ \A s \in Sprint : Submitted(checkIn', s) = Submitted(checkIn, s)
    BY <1>0, <2>1 DEF TypeOK, RowsKept, Submitted
  <2> QED BY <2>1, <2>2, NoSubmissionKeeps, ReviewsKept DEF IInv
<1>2. ASSUME NEW s \in Sprint, NEW c \in CheckIn, SaveDraft(c, s) PROVE IInv'
  <2>1. UNCHANGED <<status, review, event, newest>>
    BY <1>2 DEF SaveDraft
  <2>2. TypeOK'
    <3>1. DraftRow(s) \in Row
      BY DEF DraftRow, NoRow, Row
    <3> QED BY <1>0, <1>2, <3>1 DEF SaveDraft, TypeOK
  <2> QED BY <1>0, <1>2, <2>1, <2>2, DraftAddsNothing, NoSubmissionKeeps, ReviewsKept DEF IInv
<1>3. ASSUME NEW s \in Sprint, NEW c \in CheckIn, NEW a \in Action, NEW done \in BOOLEAN,
             NEW isFirst \in BOOLEAN, NEW seen \in SUBSET Marker,
             SubmitCheckIn(c, s, a, done, seen, isFirst)
      PROVE  IInv'
  <2>1. UNCHANGED <<status, review, event, newest>>
    BY <1>3 DEF SubmitCheckIn
  <2> QED BY <1>3, <2>1, SubmissionKeeps, ReviewsKept DEF IInv
<1>4. ASSUME NEW s \in Sprint, StartPractice(s) PROVE IInv'
  <2>1. /\ UNCHANGED <<checkIn, review, event, newest>>
        /\ status' = [status EXCEPT ![s] = "active"] /\ status[s] = "none"
        /\ \A t \in Sprint : ~Current(status[t])
    BY <1>4 DEF StartPractice
  <2>2. TypeOK' /\ RowsKept /\ \A t \in Sprint : Submitted(checkIn', t) = Submitted(checkIn, t)
    BY <1>0, <2>1 DEF TypeOK, RowsKept
  <2>3. OneCurrentPractice' /\ ReviewsStayTrue' /\ CreditMatchesEvidence'
    BY <1>0, <2>1 DEF IInv, TypeOK, OneCurrentPractice, ReviewsStayTrue, CreditMatchesEvidence
  <2> QED BY <2>2, <2>3, NoSubmissionKeeps DEF IInv
<1>5. ASSUME NEW s \in Sprint, NEW target \in {"active", "paused", "stopped"},
             TransitionSprint(s, target)
      PROVE  IInv'
  <2>1. /\ UNCHANGED <<checkIn, review, event, newest>>
        /\ status' = [status EXCEPT ![s] = target] /\ Current(status[s])
    BY <1>5 DEF TransitionSprint, AllowedTransitions, Current
  <2>2. TypeOK' /\ RowsKept /\ \A t \in Sprint : Submitted(checkIn', t) = Submitted(checkIn, t)
    BY <1>0, <2>1 DEF TypeOK, RowsKept
  <2>3. OneCurrentPractice' /\ ReviewsStayTrue' /\ CreditMatchesEvidence'
    BY <1>0, <2>1
       DEF IInv, TypeOK, OneCurrentPractice, ReviewsStayTrue, CreditMatchesEvidence, Current
  <2> QED BY <2>2, <2>3, NoSubmissionKeeps DEF IInv
<1>6. ASSUME NEW s \in Sprint, CompleteWithReview(s) PROVE IInv'
  <2>1. /\ UNCHANGED <<checkIn, newest>>
        /\ Current(status[s]) /\ Ready(checkIn, s)
        /\ status' = [status EXCEPT ![s] = "completed"]
        /\ review' = [review EXCEPT ![s] = Totals(checkIn, s)]
        /\ event' = [event EXCEPT ![s] = IF s \in Composite THEN CloseoutCredit(checkIn, s)
                                                            ELSE @]
    BY <1>6 DEF CompleteWithReview
  <2>2. Totals(checkIn, s) \in Review /\ CloseoutCredit(checkIn, s) \in Nat
    BY <2>1, ReadyIsAccepted, CompletedBounds, PolicyAssumption DEF IInv, Totals, Review
  <2>3. TypeOK'
    BY <1>0, <2>1, <2>2 DEF TypeOK
  <2>4. RowsKept /\ \A t \in Sprint : Submitted(checkIn', t) = Submitted(checkIn, t)
    BY <2>1 DEF RowsKept
  <2>5. OneCurrentPractice'
    BY <1>0, <2>1 DEF IInv, TypeOK, OneCurrentPractice, Current
  <2>6. ReviewsStayTrue'
    <3>1. Totals(checkIn, s) # NoReview
      BY WorkflowAssumption, <2>2 DEF Review
    <3> QED BY <1>0, <2>1, <3>1 DEF IInv, TypeOK, ReviewsStayTrue, Current
  <2>7. CreditMatchesEvidence'
    BY <1>0, <2>1 DEF IInv, TypeOK, CreditMatchesEvidence, Current
  <2> QED BY <2>3, <2>4, <2>5, <2>6, <2>7, NoSubmissionKeeps DEF IInv
<1> QED BY <1>1, <1>2, <1>3, <1>4, <1>5, <1>6 DEF Next

\* The invariant holds in every reachable state.
THEOREM Invariance == Spec => []IInv
BY InitIInv, NextIInv, PTL DEF Spec

\* Rows hold values of their columns' types; in particular every credit is a number.
THEOREM TypeCorrect == Spec => []TypeOK
<1>1. IInv => TypeOK
  BY DEF IInv
<1> QED BY <1>1, Invariance, PTL

\* The owner never has two current practices.
THEOREM OneAtATime == Spec => []OneCurrentPractice
<1>1. IInv => OneCurrentPractice
  BY DEF IInv
<1> QED BY <1>1, Invariance, PTL

\* A review verifies for good: what it was made of does not change under it.
THEOREM ReviewsHold == Spec => []ReviewsStayTrue
<1>1. IInv => ReviewsStayTrue
  BY DEF IInv
<1> QED BY <1>1, Invariance, PTL

\* The credit of each closed practice can be recomputed from its check-ins.
THEOREM ClosedPracticesAddUp == Spec => []CreditMatchesEvidence
<1>1. IInv => CreditMatchesEvidence
  BY DEF IInv
<1> QED BY <1>1, Invariance, PTL

\* The evidence of a practice has one first record and gapless repetition numbers.
THEOREM EvidenceIsNumbered == Spec => [](OneFirstRecord /\ RepetitionsAreNumbered)
<1>1. IInv => OneFirstRecord /\ RepetitionsAreNumbered
  BY DEF IInv
<1> QED BY <1>1, Invariance, PTL

\* Submitted evidence is never changed, and a closed practice gets none.
THEOREM EvidenceIsFrozen == Spec => EvidenceFreezes
<1>1. IInv /\ [Next]_vars => [Freezes]_vars
  BY EvidenceStep DEF IInv
<1> QED BY <1>1, Invariance, PTL DEF Spec, EvidenceFreezes

\* Readiness is never lost and the credit of a closeout never shrinks while evidence arrives.
THEOREM ReadinessNeverShrinks == Spec => ReadinessIsKept
<1>1. IInv /\ [Next]_vars => [KeepsReadiness]_vars
  <2> SUFFICES ASSUME IInv, [Next]_vars, NEW s \in Sprint, Ready(checkIn, s)
               PROVE  Ready(checkIn', s) /\ CloseoutCredit(checkIn, s) =< CloseoutCredit(checkIn', s)
    BY DEF KeepsReadiness
  <2>1. Fits(checkIn) /\ Fits(checkIn')
    BY NextIInv DEF IInv, Fits
  <2>2. /\ Submitted(checkIn, s) \subseteq Submitted(checkIn', s)
        /\ \A c \in Submitted(checkIn, s) : checkIn'[c] = checkIn[c]
    BY EvidenceStep DEF IInv, Submitted
  <2> QED BY <2>1, <2>2, MoreEvidence
<1> QED BY <1>1, Invariance, PTL DEF Spec, ReadinessIsKept
=============================================================================
