------------------------ MODULE ScoredPracticeProofs ------------------------
(***************************************************************************)
(* Theorems about practices and scores together: what is published for an  *)
(* assessment run is what its practices have earned, and a closeout only   *)
(* ever raises the credit of its own competency and run.                   *)
(*                                                                         *)
(* The ledger speaks of recorded events, the theorems of check-ins.  The   *)
(* invariant of PracticeWorkflowProofs relates the two: exactly the        *)
(* completed composite sprints have an event, it can be recomputed from    *)
(* their check-ins, and it is positive, since they were ready.             *)
(***************************************************************************)
EXTENDS ScoredPractice, PracticeWorkflowProofs

Run == 1 .. MaxRuns
Scores == Ledger!State

\* Every credit the policy yields is a positive number.
LEMMA EarnableIsPositive == Earnable \subseteq Nat \ {0}
<1> SUFFICES ASSUME NEW p \in Protocol, NEW n \in MinimumOf[p] .. Cardinality(ActionsOf[p])
             PROVE  CreditFor(n, Cardinality(ActionsOf[p]), MinimumOf[p]) \in Nat \ {0}
  BY DEF Earnable
<1>1. /\ MinimumOf[p] \in Nat \ {0} /\ Cardinality(ActionsOf[p]) \in Nat
      /\ MinimumOf[p] =< Cardinality(ActionsOf[p])
  BY WorkflowAssumption, FS_CardinalityType
<1>2. n \in Nat /\ Accepted(n, Cardinality(ActionsOf[p]), MinimumOf[p])
  BY <1>1 DEF Accepted
<1>3. CreditFor(n, Cardinality(ActionsOf[p]), MinimumOf[p]) \in MinimumCredit .. FullCredit
  BY <1>1, <1>2, CreditBounds
<1> QED BY <1>3, PolicyAssumption

\* Scores are functions to numbers, so NoState is none of them.
LEMMA ScoresAreNumbers ==
    /\ Scores \subseteq [Competency -> Nat]
    /\ NoState \notin Scores
<1>1. Scores = [Competency -> Earnable \cup {0}]
  BY DEF Scores, Ledger!State, Ledger!Level
<1>2. Scores \subseteq [Competency -> Nat]
  <2>1. Earnable \cup {0} \subseteq Nat
    BY EarnableIsPositive
  <2>2. \A f \in Scores : f \in [Competency -> Nat]
    BY <1>1, <2>1
  <2> QED BY <2>2
<1> QED BY <1>2, ScoringAssumption

\* The best standing credits are what the practices of the run have earned, if the events E
\* are those of the practices with states S and check-ins T.
LEMMA BestIsEarned ==
    ASSUME NEW T, NEW S, NEW E, NEW R, NEW r, NEW p, Fits(T),
           \A s \in Sprint : S[s] = "completed" => Ready(T, s),
           \A s \in Sprint : E[s] = IF s \in Composite /\ S[s] = "completed"
                                      THEN CloseoutCredit(T, s) ELSE 0,
           Ledger!IsBest(p, E, R, r)
    PROVE  IsEarned(p, T, S, R, r)
<1>1. \A s \in Sprint : S[s] = "completed" => CloseoutCredit(T, s) \in Nat \ {0}
  BY ReadyIsAccepted, PolicyAssumption
<1>2. p \in [Competency -> Nat]
  BY ScoresAreNumbers DEF Ledger!IsBest, Scores
<1>3. SUFFICES ASSUME NEW c \in Competency
               PROVE  /\ p[c] \in EarnedIn(T, S, R, r, c)
                      /\ \A credit \in EarnedIn(T, S, R, r, c) : credit =< p[c]
  BY DEF IsEarned
<1> DEFINE mine == {s \in Composite \ R : RunOf[s] = r /\ CompetencyOf[s] = c /\ S[s] = "completed"}
<1>4. mine = {s \in Ledger!Standing(E, R, r) : CompetencyOf[s] = c}
  BY <1>1, WorkflowAssumption DEF Ledger!Standing
<1>5. /\ \A s \in mine : E[s] =< p[c]
      /\ p[c] = 0 \/ \E s \in mine : E[s] = p[c]
  BY <1>4 DEF Ledger!IsBest
<1>6. \A s \in mine : E[s] = CloseoutCredit(T, s)
  BY WorkflowAssumption
<1>7. EarnedIn(T, S, R, r, c) = {0} \cup {CloseoutCredit(T, s) : s \in mine}
  BY DEF EarnedIn
<1> HIDE DEF mine
<1> QED BY <1>2, <1>5, <1>6, <1>7

-----------------------------------------------------------------------------
(* Steps. *)

\* A step of the services publishes for at most one run, and what it publishes is the best.
LEMMA ServesBest ==
    ASSUME TypeOK, Serve
    PROVE  \/ published' = published
           \/ \E r \in Run, st \in Scores :
                Ledger!IsBest(st, event', reversed', r) /\ published' = [published EXCEPT ![r] = st]
<1> DEFINE Best(r) == \E st \in Scores : /\ Ledger!IsBest(st, event', reversed', r)
                                         /\ published' = [published EXCEPT ![r] = st]
<1>1. ASSUME NEW r \in Run, NEW E, NEW R, E = event', R = reversed', Ledger!Publish(r, E, R)
      PROVE  Best(r)
  BY <1>1 DEF Ledger!Publish, Scores, Run
<1>2. ASSUME NEW r \in Run, Ledger!Restore(r) PROVE Best(r)
  <2>1. Ledger!Publish(r, event, reversed) /\ event' = event /\ reversed' = reversed
    BY <1>2 DEF Ledger!Restore
  <2> QED BY <1>1, <2>1
<1>3. CASE Assess
  <2>1. newest + 1 \in Run
    BY <1>3, WorkflowAssumption DEF Assess, TakeAssessment, TypeOK, Run
  <2> QED BY <1>2, <1>3, <2>1 DEF Assess
<1>4. CASE Practise
  BY <1>4 DEF Practise, ledgerVars
<1>5. ASSUME NEW s \in Sprint, Start(s) PROVE Best(RunOf[s])
  BY <1>2, <1>5, ScoringAssumption DEF Start, Run
<1>6. ASSUME NEW s \in Sprint, Complete(s) PROVE published' = published \/ Best(RunOf[s])
  <2>1. CASE s \in Composite
    <3>1. Ledger!Award(s, CloseoutCredit(checkIn, s))
      BY <1>6, <2>1 DEF Complete
    <3>2. Ledger!Publish(RunOf[s], event', reversed) /\ reversed' = reversed
      BY <3>1 DEF Ledger!Award
    <3> QED BY <1>1, <3>2, ScoringAssumption DEF Run
  <2>2. CASE s \notin Composite
    BY <1>6, <2>2 DEF Complete, ledgerVars
  <2> QED BY <2>1, <2>2
<1>7. ASSUME NEW s \in Sprint, WithdrawCredit(s) PROVE Best(RunOf[s])
  <2>1. Ledger!Publish(RunOf[s], event, reversed') /\ event' = event
    BY <1>7 DEF WithdrawCredit, Ledger!Withdraw
  <2> QED BY <1>1, <2>1, ScoringAssumption DEF Run
<1>8. ASSUME NEW r \in Run, Rebuild(r) PROVE Best(r)
  BY <1>2, <1>8 DEF Rebuild
<1> QED
  <2>1. \A s \in Sprint : RunOf[s] \in Run
    BY ScoringAssumption DEF Run
  <2> QED BY <1>3, <1>4, <1>5, <1>6, <1>7, <1>8, <2>1 DEF Serve, Run

\* Every step is one of the practice workflow, or leaves it alone.
LEMMA ScoredStepIsPracticeStep == [ScoredNext]_scoredVars => [Next]_vars
<1> SUFFICES ASSUME [ScoredNext]_scoredVars PROVE [Next]_vars
  OBVIOUS
<1>1. CASE UNCHANGED scoredVars
  BY <1>1 DEF scoredVars, vars
<1>2. CASE Assess
  BY <1>2 DEF Assess, Next
<1>3. CASE Practise
  BY <1>3 DEF Practise, Next
<1>4. CASE \E s \in Sprint : Start(s) \/ Complete(s) \/ WithdrawCredit(s)
  BY <1>4 DEF Start, Complete, WithdrawCredit, Next, practiceVars, vars
<1>5. CASE \E r \in Run : Rebuild(r) \/ Damage(r)
  BY <1>5 DEF Rebuild, Damage, practiceVars, vars
<1> QED BY <1>1, <1>2, <1>3, <1>4, <1>5 DEF ScoredNext, Serve, Run

\* Only start_practice begins a practice.
LEMMA OnlyStartsBegin ==
    ASSUME TypeOK, [ScoredNext]_scoredVars, NEW s \in Sprint,
           status[s] = "none", status'[s] # "none"
    PROVE  Start(s)
<1>1. ASSUME NEW t \in Sprint, Start(t) PROVE Start(s)
  BY <1>1 DEF Start, StartPractice, TypeOK
<1>2. Practise => FALSE
  BY DEF Practise, TransitionSprint, AllowedTransitions, SaveDraft, SubmitCheckIn, TypeOK
<1>3. ASSUME NEW t \in Sprint, Complete(t) PROVE FALSE
  BY <1>3 DEF Complete, CompleteWithReview, Current, TypeOK
<1> QED BY <1>1, <1>2, <1>3 DEF ScoredNext, Serve, Assess, TakeAssessment, WithdrawCredit,
           Rebuild, Damage, practiceVars, scoredVars

\* Only complete_with_review closes a practice.
LEMMA OnlyCompletionCloses ==
    ASSUME TypeOK, [ScoredNext]_scoredVars, NEW s \in Sprint, Closes(s)
    PROVE  Complete(s)
<1>1. ASSUME NEW t \in Sprint, Complete(t) PROVE Complete(s)
  BY <1>1 DEF Complete, CompleteWithReview, TypeOK, Closes
<1>2. Practise => FALSE
  BY DEF Practise, TransitionSprint, AllowedTransitions, SaveDraft, SubmitCheckIn, TypeOK, Closes
<1>3. ASSUME NEW t \in Sprint, Start(t) PROVE FALSE
  BY <1>3 DEF Start, StartPractice, TypeOK, Closes
<1> QED BY <1>1, <1>2, <1>3 DEF ScoredNext, Serve, Assess, TakeAssessment, WithdrawCredit,
           Rebuild, Damage, practiceVars, scoredVars, Closes

-----------------------------------------------------------------------------
(* The invariant. *)

HasScore(r) == published[r] \in Scores \/ r \in blocked

\* The run of a composite practice has had scores since the practice started, unless somebody
\* took them away.
HasScores ==
    \A s \in Composite : status[s] # "none" => HasScore(RunOf[s])

ScoredIInv == IInv /\ ScoredTypeOK /\ HasScores

\* Scores are replaced by scores, by the services and by damage.
LEMMA ScoresStay ==
    ASSUME ScoredTypeOK, [ScoredNext]_scoredVars
    PROVE  /\ published' \in [Run -> Scores \cup {NoState}]
           /\ reversed' \subseteq Sprint /\ blocked' \subseteq Run
           /\ \A r \in Run : HasScore(r) => published'[r] \in Scores \/ r \in blocked'
<1>1. /\ published \in [Run -> Scores \cup {NoState}]
      /\ reversed \subseteq Sprint /\ blocked \subseteq Run
  BY DEF ScoredTypeOK, Run, Scores
<1>2. CASE Serve
  <2>1. reversed' \subseteq Sprint /\ blocked' = blocked
    BY <1>1, <1>2 DEF Serve, Assess, Practise, Start, Complete, WithdrawCredit, Rebuild,
         Ledger!Restore, Ledger!Award, Ledger!Withdraw, ledgerVars
  <2>2. \/ published' = published
        \/ \E r \in Run, st \in Scores : published' = [published EXCEPT ![r] = st]
    BY <1>2, ServesBest DEF ScoredTypeOK
  <2> QED BY <1>1, <2>1, <2>2 DEF HasScore
<1>3. CASE \E r \in Run : Damage(r)
  <2>1. PICK r \in Run :
          /\ reversed' = reversed
          /\ \/ /\ \E st \in Scores : published' = [published EXCEPT ![r] = st]
                /\ blocked' = blocked \ {r}
             \/ /\ published' = [published EXCEPT ![r] = NoState]
                /\ blocked' = blocked \cup {r}
    BY <1>3 DEF Damage, Ledger!Damage, Scores
  <2> QED BY <1>1, <2>1 DEF HasScore
<1>4. CASE UNCHANGED scoredVars
  BY <1>1, <1>4 DEF scoredVars, HasScore
<1> QED BY <1>2, <1>3, <1>4 DEF ScoredNext, Run

LEMMA ScoredInitIInv == ScoredInit => ScoredIInv
<1> SUFFICES ASSUME ScoredInit PROVE ScoredIInv
  OBVIOUS
<1>1. IInv
  BY InitIInv DEF ScoredInit
<1>2. reversed = {} /\ blocked = {} /\ published = [r \in Run |-> NoState]
  BY DEF ScoredInit, Ledger!Init, Run
<1>3. \A s \in Composite : status[s] = "none"
  BY WorkflowAssumption DEF ScoredInit, Init
<1> QED BY <1>1, <1>2, <1>3 DEF ScoredIInv, ScoredTypeOK, HasScores, IInv, Run

LEMMA ScoredNextIInv == ScoredIInv /\ [ScoredNext]_scoredVars => ScoredIInv'
<1> SUFFICES ASSUME ScoredIInv, [ScoredNext]_scoredVars PROVE ScoredIInv'
  OBVIOUS
<1>1. IInv /\ IInv'
  BY ScoredStepIsPracticeStep, NextIInv DEF ScoredIInv
<1>2. /\ published' \in [Run -> Scores \cup {NoState}]
      /\ reversed' \subseteq Sprint /\ blocked' \subseteq Run
      /\ \A r \in Run : HasScore(r) => published'[r] \in Scores \/ r \in blocked'
  BY ScoresStay DEF ScoredIInv
<1>3. ScoredTypeOK'
  BY <1>1, <1>2 DEF ScoredTypeOK, IInv, Run, Scores, Ledger!State, Ledger!Level
<1>4. HasScores'
  <2> SUFFICES ASSUME NEW s \in Composite, status'[s] # "none"
               PROVE  published'[RunOf[s]] \in Scores \/ RunOf[s] \in blocked'
    BY DEF HasScores, HasScore, Scores, Ledger!State, Ledger!Level
  <2>1. s \in Sprint /\ RunOf[s] \in Run
    BY WorkflowAssumption, ScoringAssumption DEF Run
  <2>2. CASE status[s] # "none"
    BY <1>2, <2>1, <2>2 DEF ScoredIInv, HasScores
  <2>3. CASE status[s] = "none"
    <3>1. Start(s)
      BY <2>1, <2>3, OnlyStartsBegin DEF ScoredIInv, IInv
    <3>2. PICK st \in Scores : published' = [published EXCEPT ![RunOf[s]] = st]
      BY <3>1 DEF Start, Ledger!Restore, Ledger!Publish, Scores
    <3> QED BY <2>1, <3>2 DEF ScoredIInv, ScoredTypeOK, Run
  <2> QED BY <2>2, <2>3
<1> QED BY <1>1, <1>3, <1>4 DEF ScoredIInv

\* The invariant holds in every reachable state.
THEOREM ScoredInvariance == ScoredSpec => []ScoredIInv
BY ScoredInitIInv, ScoredNextIInv, PTL DEF ScoredSpec

\* Every row holds a value of its type, and the workflow's invariants hold beside the ledger.
THEOREM ScoredTypeCorrect == ScoredSpec => []ScoredTypeOK
<1>1. ScoredIInv => ScoredTypeOK
  BY DEF ScoredIInv
<1> QED BY <1>1, ScoredInvariance, PTL

-----------------------------------------------------------------------------
(* What is published. *)

Publishes ==
    Serve => \A r \in Run :
       published'[r] # published[r] => IsEarned(published'[r], checkIn', status', reversed', r)

\* Whatever is published is what the practices of the run have earned.
LEMMA ServicesPublishWhatIsEarned == ScoredIInv /\ [ScoredNext]_scoredVars => Publishes
<1> SUFFICES ASSUME ScoredIInv, [ScoredNext]_scoredVars, Serve, NEW r \in Run,
                    published'[r] # published[r]
             PROVE  IsEarned(published'[r], checkIn', status', reversed', r)
  BY DEF Publishes
<1>1. IInv'
  BY ScoredNextIInv DEF ScoredIInv
<1>2. Ledger!IsBest(published'[r], event', reversed', r)
  <2>1. TypeOK /\ published \in [Run -> Scores \cup {NoState}]
    BY DEF ScoredIInv, ScoredTypeOK, Run, Scores
  <2>2. PICK q \in Run, st \in Scores :
          Ledger!IsBest(st, event', reversed', q) /\ published' = [published EXCEPT ![q] = st]
    BY <2>1, ServesBest
  <2>3. q = r /\ published'[r] = st
    BY <2>1, <2>2
  <2> QED BY <2>2, <2>3
<1>3. Fits(checkIn')
  BY <1>1 DEF IInv, Fits
<1>4. \A s \in Sprint : status'[s] = "completed" => Ready(checkIn', s)
  BY <1>1 DEF IInv, ReviewsStayTrue
<1>5. \A s \in Sprint : event'[s] = IF s \in Composite /\ status'[s] = "completed"
                                      THEN CloseoutCredit(checkIn', s) ELSE 0
  BY <1>1 DEF IInv, CreditMatchesEvidence
<1> QED BY <1>2, <1>3, <1>4, <1>5, BestIsEarned

\* Whatever the services publish is what the practices of that run have earned, for any
\* protocols, runs and policy, and however the rows were damaged before.
THEOREM PublishedIsEarned == ScoredSpec => PublishesWhatIsEarned
<1>1. ScoredIInv /\ [ScoredNext]_scoredVars
        => [Serve => \A r \in 1 .. MaxRuns : published'[r] # published[r]
                       => IsEarned(published'[r], checkIn', status', reversed', r)]_scoredVars
  BY ServicesPublishWhatIsEarned DEF Publishes, Run
<1> QED BY <1>1, ScoredInvariance, PTL DEF ScoredSpec, PublishesWhatIsEarned

-----------------------------------------------------------------------------
(* What a closeout does. *)

\* A new event raises the best credit of its competency, and no other.
LEMMA NewEventRaises ==
    ASSUME NEW E \in [Sprint -> Nat], NEW F \in [Sprint -> Nat], NEW R, NEW r, NEW s \in Sprint,
           NEW p, NEW q, E[s] = 0, \A t \in Sprint \ {s} : F[t] = E[t],
           Ledger!IsBest(p, E, R, r), Ledger!IsBest(q, F, R, r)
    PROVE  \A c \in Competency : IF c = CompetencyOf[s] THEN q[c] >= p[c] ELSE q[c] = p[c]
<1>1. p \in [Competency -> Nat] /\ q \in [Competency -> Nat]
  BY ScoresAreNumbers DEF Ledger!IsBest, Scores
<1> SUFFICES ASSUME NEW c \in Competency
             PROVE  IF c = CompetencyOf[s] THEN q[c] >= p[c] ELSE q[c] = p[c]
  OBVIOUS
<1> DEFINE mineE == {t \in Ledger!Standing(E, R, r) : CompetencyOf[t] = c}
           mineF == {t \in Ledger!Standing(F, R, r) : CompetencyOf[t] = c}
<1>2. /\ \A t \in mineE : E[t] =< p[c]
      /\ p[c] = 0 \/ \E t \in mineE : E[t] = p[c]
  BY DEF Ledger!IsBest
<1>3. /\ \A t \in mineF : F[t] =< q[c]
      /\ q[c] = 0 \/ \E t \in mineF : F[t] = q[c]
  BY DEF Ledger!IsBest
<1>4. \A t \in mineE : t \in mineF /\ F[t] = E[t]
  BY DEF Ledger!Standing
<1>5. q[c] >= p[c]
  <2> HIDE DEF mineE, mineF
  <2> QED BY <1>1, <1>2, <1>3, <1>4
<1>6. ASSUME c # CompetencyOf[s] PROVE p[c] >= q[c]
  <2>1. \A t \in mineF : t \in mineE /\ F[t] = E[t]
    BY <1>6 DEF Ledger!Standing
  <2> HIDE DEF mineE, mineF
  <2> QED BY <1>1, <1>2, <1>3, <2>1
<1> QED BY <1>1, <1>5, <1>6

Raises ==
    \A s \in Sprint : Closes(s) =>
       \A r \in Run :
          IF r = RunOf[s] /\ s \in Composite
            THEN \A c \in Competency :
                   IF c = CompetencyOf[s] THEN published'[r][c] >= published[r][c]
                                          ELSE published'[r][c] = published[r][c]
            ELSE published'[r] = published[r]

\* A closeout raises the credit of its competency and run and leaves all others.
LEMMA CloseoutsRaise == ScoredIInv /\ [ScoredNext]_scoredVars => Raises
<1> SUFFICES ASSUME ScoredIInv, [ScoredNext]_scoredVars, NEW s \in Sprint, Closes(s)
             PROVE  \A r \in Run :
                      IF r = RunOf[s] /\ s \in Composite
                        THEN \A c \in Competency :
                               IF c = CompetencyOf[s] THEN published'[r][c] >= published[r][c]
                                                      ELSE published'[r][c] = published[r][c]
                        ELSE published'[r] = published[r]
  BY DEF Raises
<1>1. /\ TypeOK /\ event \in [Sprint -> Nat] /\ event' \in [Sprint -> Nat]
      /\ published \in [Run -> Scores \cup {NoState}]
      /\ RunOf[s] \in Run
  BY ScoredNextIInv, ScoringAssumption
     DEF ScoredIInv, ScoredTypeOK, IInv, TypeOK, Run, Scores
<1>2. Complete(s)
  BY <1>1, OnlyCompletionCloses
<1>3. CASE s \notin Composite
  BY <1>2, <1>3 DEF Complete, ledgerVars
<1>4. CASE s \in Composite
  <2>1. Ledger!Award(s, CloseoutCredit(checkIn, s))
    BY <1>2, <1>4 DEF Complete
  <2>2. published[RunOf[s]] \in Scores
    <3>1. RunOf[s] \notin blocked
      BY <2>1 DEF Ledger!Award
    <3> QED BY <1>2, <1>4, <3>1
            DEF Complete, CompleteWithReview, Current, ScoredIInv, HasScores, HasScore
  <2>3. Ledger!IsBest(published[RunOf[s]], event, reversed, RunOf[s])
    BY <2>1, <2>2, ScoresAreNumbers DEF Ledger!Award, Ledger!Intact
  <2>4. PICK st : /\ Ledger!IsBest(st, event', reversed, RunOf[s])
                  /\ published' = [published EXCEPT ![RunOf[s]] = st]
    BY <2>1 DEF Ledger!Award, Ledger!Publish
  <2>5. event[s] = 0 /\ \A t \in Sprint \ {s} : event'[t] = event[t]
    BY <1>1, <2>1 DEF Ledger!Award
  <2>6. \A c \in Competency : IF c = CompetencyOf[s] THEN st[c] >= published[RunOf[s]][c]
                                                     ELSE st[c] = published[RunOf[s]][c]
    <3> DEFINE E == event
               F == event'
               p == published[RunOf[s]]
    <3>1. /\ E \in [Sprint -> Nat] /\ F \in [Sprint -> Nat]
          /\ E[s] = 0 /\ \A t \in Sprint \ {s} : F[t] = E[t]
          /\ Ledger!IsBest(p, E, reversed, RunOf[s]) /\ Ledger!IsBest(st, F, reversed, RunOf[s])
      BY <1>1, <2>3, <2>4, <2>5
    <3> HIDE DEF E, F, p
    <3>2. \A c \in Competency : IF c = CompetencyOf[s] THEN st[c] >= p[c] ELSE st[c] = p[c]
      BY <3>1, NewEventRaises
    <3> QED BY <3>2 DEF p
  <2>7. /\ published'[RunOf[s]] = st
        /\ \A r \in Run \ {RunOf[s]} : published'[r] = published[r]
    BY <1>1, <2>4
  <2> QED BY <1>4, <2>6, <2>7
<1> QED BY <1>3, <1>4

\* A closeout never lowers a published credit and touches no other competency or run.
THEOREM CloseoutsOnlyRaise == ScoredSpec => CloseoutOnlyRaises
<1>1. ScoredIInv /\ [ScoredNext]_scoredVars
        => [\A s \in Sprint : Closes(s) =>
              \A r \in 1 .. MaxRuns :
                IF r = RunOf[s] /\ s \in Composite
                  THEN \A c \in Competency :
                         IF c = CompetencyOf[s] THEN published'[r][c] >= published[r][c]
                                                ELSE published'[r][c] = published[r][c]
                  ELSE published'[r] = published[r]]_scoredVars
  BY CloseoutsRaise DEF Raises, Run
<1> QED BY <1>1, ScoredInvariance, PTL DEF ScoredSpec, CloseoutOnlyRaises
=============================================================================
