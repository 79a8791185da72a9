---------------------------- MODULE ScoredPractice ----------------------------
(***************************************************************************)
(* The practice workflow together with the composite score ledger it calls *)
(* (growth/services/practice.py calling composite_score_state.py and the   *)
(* two maintenance paths, the startup rebuild and the reversal command).   *)
(*                                                                         *)
(* The ledger is taken by what it promises: CreditLedger, which            *)
(* CompositeScoreState implements (its property KeepsPromise).  The events *)
(* of the ledger are those of the workflow.                                *)
(***************************************************************************)
EXTENDS PracticeWorkflow

CONSTANTS
    Competency,
    ParentOf,     \* the parent competency each protocol is scored under
    NoState

ASSUME ScoringAssumption ==
    /\ ParentOf \in [Protocol -> Competency]
    /\ \A s \in Sprint : RunOf[s] \in 1 .. MaxRuns
    /\ NoState \notin [Competency -> Nat]

VARIABLES
    reversed,     \* sprints whose credit was withdrawn
    published,    \* credits in the current score state of each assessment run
    blocked       \* runs whose score state was deleted or carries another user or version

scoredVars == <<status, checkIn, review, event, newest, reversed, published, blocked>>
ledgerVars == <<reversed, published, blocked>>
practiceVars == <<status, checkIn, review, event, newest>>

CompetencyOf == [s \in Sprint |-> ParentOf[ProtocolOf[s]]]

\* The credits the closeout policy can yield.
Earnable == UNION {{CreditFor(n, Cardinality(ActionsOf[p]), MinimumOf[p]) :
                      n \in MinimumOf[p] .. Cardinality(ActionsOf[p])} : p \in Protocol}

Ledger == INSTANCE CreditLedger WITH Run <- 1 .. MaxRuns, Credit <- Earnable

ScoredInit == Init /\ Ledger!Init

\* An assessment is persisted together with the initial score state of its run.
Assess ==
    /\ TakeAssessment
    /\ Ledger!Restore(newest + 1)

\* start_practice: synchronising the run of the new sprint repairs its score state.
Start(s) ==
    /\ StartPractice(s)
    /\ Ledger!Restore(RunOf[s])

\* The steps of a practice that involve no scores.
Practise ==
    /\ \E s \in Sprint :
        \/ \E target \in {"active", "paused", "stopped"} : TransitionSprint(s, target)
        \/ \E c \in CheckIn :
            \/ SaveDraft(c, s)
            \/ \E a \in Action, done, isFirst \in BOOLEAN, seen \in SUBSET Marker :
                 SubmitCheckIn(c, s, a, done, seen, isFirst)
    /\ UNCHANGED ledgerVars

\* complete_with_review: review, status, credit and score state in one transaction.
Complete(s) ==
    /\ CompleteWithReview(s)
    /\ IF s \in Composite THEN Ledger!Award(s, CloseoutCredit(checkIn, s))
                          ELSE UNCHANGED ledgerVars

\* rebuild_composite_score_state --reverse-event
WithdrawCredit(s) ==
    /\ Ledger!Withdraw(s)
    /\ UNCHANGED practiceVars

\* Mutants of Rebuild: withdrawn credits come back, or only runs without a state get one.
RebuildAllCredits(r) ==
    /\ r =< newest
    /\ r \notin blocked
    /\ Ledger!Publish(r, event, {})
    /\ UNCHANGED <<practiceVars, reversed, blocked>>

RebuildMissing(r) ==
    /\ r =< newest
    /\ published[r] = NoState
    /\ Ledger!Restore(r)
    /\ UNCHANGED practiceVars

\* rebuild_composite_score_state, which the container runs on every start, and the submission
\* of an assessment that is already stored.
Rebuild(r) ==
    /\ r =< newest
    /\ Ledger!Restore(r)
    /\ UNCHANGED practiceVars

\* The row of a run is edited, deleted or put back outside the services.
Damage(r) ==
    /\ Ledger!Damage(r)
    /\ UNCHANGED practiceVars

Serve ==
    \/ Assess
    \/ Practise
    \/ \E s \in Sprint : Start(s) \/ Complete(s) \/ WithdrawCredit(s)
    \/ \E r \in 1 .. MaxRuns : Rebuild(r)

ScoredNext == Serve \/ \E r \in 1 .. MaxRuns : Damage(r)

ScoredSpec == ScoredInit /\ [][ScoredNext]_scoredVars

\* An owner who keeps trying to close a practice, and a container that is restarted now and then.
PersistentSpec ==
    /\ ScoredSpec
    /\ \A s \in Sprint : SF_scoredVars(Complete(s))
    /\ \A r \in 1 .. MaxRuns : SF_scoredVars(Rebuild(r))

-----------------------------------------------------------------------------
ScoredTypeOK ==
    /\ TypeOK
    /\ reversed \subseteq Sprint
    /\ published \in [1 .. MaxRuns -> Ledger!State \cup {NoState}]
    /\ blocked \subseteq 1 .. MaxRuns

\* What the practices of a run have earned: for each competency the best credit its
\* check-ins justify, over the completed sprints whose credit was not withdrawn.
EarnedIn(T, st, R, r, c) ==
    LET mine == {s \in Composite \ R : RunOf[s] = r /\ CompetencyOf[s] = c /\ st[s] = "completed"}
    IN  {0} \cup {CloseoutCredit(T, s) : s \in mine}

IsEarned(p, T, st, R, r) ==
    \A c \in Competency :
        LET earned == EarnedIn(T, st, R, r, c)
        IN  p[c] \in earned /\ \A credit \in earned : credit =< p[c]

\* Whatever the services publish for a run is what the practices of that run have earned,
\* recomputed from their check-ins, however badly the row was damaged before.
PublishesWhatIsEarned ==
    [][Serve => \A r \in 1 .. MaxRuns :
          published'[r] # published[r] => IsEarned(published'[r], checkIn', status', reversed', r)]_scoredVars

Closes(s) == status[s] # "completed" /\ status'[s] = "completed"

\* A closeout never lowers a published credit, and touches no other competency and no other
\* assessment run: after a new assessment it still counts for the run it was started under.
CloseoutOnlyRaises ==
    [][\A s \in Sprint : Closes(s) =>
          \A r \in 1 .. MaxRuns :
              IF r = RunOf[s] /\ s \in Composite
                THEN \A c \in Competency :
                       IF c = CompetencyOf[s] THEN published'[r][c] >= published[r][c]
                                              ELSE published'[r][c] = published[r][c]
                ELSE published'[r] = published[r]]_scoredVars

\* A practice that is ready does not get stuck, in spite of pauses, further check-ins, new
\* assessments and damaged score states: in the end it is completed or the owner stops it,
\* unless the score state of its run stays deleted, or under another user or version, for ever.
ReadyPracticesClose ==
    \A s \in Sprint :
        []<>(RunOf[s] \notin blocked) =>
            ((Current(status[s]) /\ Ready(checkIn, s)) ~> status[s] \in {"completed", "stopped"})
=============================================================================
