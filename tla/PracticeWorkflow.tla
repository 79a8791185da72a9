-------------------------- MODULE PracticeWorkflow --------------------------
(***************************************************************************)
(* One owner's practice sprints: growth/services/practice.py.              *)
(*                                                                         *)
(* Each service function is one database transaction and one action here;  *)
(* PracticeConcurrency.tla shows that transactions of several workers do   *)
(* behave like these actions.  Every query of the code is restricted to    *)
(* one user, so one owner is modelled.                                     *)
(*                                                                         *)
(* A sprint is a name whose protocol, assessment run and scoring contract  *)
(* are constants: starting a practice picks a name that fits.  The         *)
(* contents of a draft are left out: submitting or saving it replaces      *)
(* every field with the form's.                                            *)
(***************************************************************************)
EXTENDS CloseoutCredit, FiniteSets

CONSTANTS
    Sprint, CheckIn, Protocol, Action, Marker,
    ProtocolOf,      \* protocol of each sprint
    RunOf,           \* number of the assessment run each sprint is linked to, oldest first
    Composite,       \* sprints under the composite contract; the others predate it
    Available,       \* protocols whose availability is "active"
    ActionsOf,       \* actions of each protocol
    MinimumOf,       \* completion_rules.minimum_completed
    MarkersOf,       \* completion_rules.substantive_markers
    AllMarkers,      \* protocols whose marker_mode is "all"
    Observable,      \* markers the evidence rules of each action allow to be observed
    NoSprint, NoAction, NoReview,
    MaxRuns          \* bound: assessments taken

ASSUME WorkflowAssumption ==
    /\ ProtocolOf \in [Sprint -> Protocol]
    /\ RunOf \in [Sprint -> Nat \ {0}]
    /\ Composite \subseteq Sprint
    /\ ActionsOf \in [Protocol -> SUBSET Action]
    /\ MinimumOf \in [Protocol -> Nat \ {0}]
    /\ MarkersOf \in [Protocol -> SUBSET Marker]
    /\ Observable \in [Action -> SUBSET Marker]
    /\ \A p \in Protocol : IsFiniteSet(ActionsOf[p]) /\ MinimumOf[p] =< Cardinality(ActionsOf[p])
    /\ NoSprint \notin Sprint /\ NoAction \notin Action
    /\ NoReview \notin [attempted : Nat, completed : Nat]
    /\ MaxRuns \in Nat

VARIABLES
    status,    \* PracticeSprint.status, "none" before the sprint exists
    checkIn,   \* PracticeCheckIn rows, with the repetition index of their evidence event
    review,    \* PracticeReview of a sprint: its totals
    event,     \* CompletionCreditEvent of a sprint: its credit, 0 when there is none
    newest     \* number of the newest assessment run, 0 before the first

vars == <<status, checkIn, review, event, newest>>

Review == [attempted : Nat, completed : Nat]

Row == [status     : {"none", "draft", "submitted"},
        sprint     : Sprint \cup {NoSprint},
        action     : Action \cup {NoAction},
        completed  : BOOLEAN,
        observed   : SUBSET Marker,
        first      : BOOLEAN,         \* context_comparison is "first_record"
        repetition : Nat]             \* EvidenceEvent.repetition_index, 0 without an event

NoRow == [status |-> "none", sprint |-> NoSprint, action |-> NoAction, completed |-> FALSE,
          observed |-> {}, first |-> FALSE, repetition |-> 0]

\* Type correctness: rows hold values of their columns' types and choices.
TypeOK ==
    /\ status \in [Sprint -> {"none", "active", "paused", "stopped", "completed"}]
    /\ checkIn \in [CheckIn -> Row]
    /\ review \in [Sprint -> Review \cup {NoReview}]
    /\ event \in [Sprint -> Nat]
    /\ newest \in Nat

-----------------------------------------------------------------------------
(* What the services compute from the check-in table T. *)

Current(st) == st \in {"active", "paused"}

Submitted(T, s) == {c \in CheckIn : T[c].status = "submitted" /\ T[c].sprint = s}

Attempted(T, s) == {T[c].action : c \in Submitted(T, s)}

Completed(T, s) == {T[c].action : c \in {d \in Submitted(T, s) : T[d].completed}}

Substantive(T, s) ==
    LET seen(m) == \E c \in Submitted(T, s) : m \in T[c].observed
        markers == MarkersOf[ProtocolOf[s]]
    IN  IF ProtocolOf[s] \in AllMarkers THEN \A m \in markers : seen(m)
                                        ELSE \E m \in markers : seen(m)

\* Mutant of Ready: exactly the minimum must be completed.
ReadyAtMinimum(T, s) ==
    /\ s \in Composite \/ ActionsOf[ProtocolOf[s]] \subseteq Attempted(T, s)
    /\ Cardinality(Completed(T, s)) = MinimumOf[ProtocolOf[s]]
    /\ Substantive(T, s)

\* completion_evidence(...).ready_for_review
Ready(T, s) ==
    /\ s \in Composite \/ ActionsOf[ProtocolOf[s]] \subseteq Attempted(T, s)
    /\ Cardinality(Completed(T, s)) >= MinimumOf[ProtocolOf[s]]
    /\ Substantive(T, s)

Totals(T, s) == [attempted |-> Cardinality(Attempted(T, s)),
                 completed |-> Cardinality(Completed(T, s))]

CloseoutCredit(T, s) ==
    CreditFor(Cardinality(Completed(T, s)), Cardinality(ActionsOf[ProtocolOf[s]]),
              MinimumOf[ProtocolOf[s]])

\* Mutant of NextRepetition: the actions of a sprint are not told apart.
NextOfSprint(T, s, a) == 1 + Cardinality(Submitted(T, s))

\* repetition_index_for: the place of a new submission among those of its sprint and action.
\* Submission times are taken from a clock that does not go back.
NextRepetition(T, s, a) == 1 + Cardinality({c \in Submitted(T, s) : T[c].action = a})

DraftRow(s) == [NoRow EXCEPT !.status = "draft", !.sprint = s]

SubmittedRow(T, s, a, done, seen, isFirst) ==
    [status |-> "submitted", sprint |-> s, action |-> a, completed |-> done,
     observed |-> seen, first |-> isFirst, repetition |-> NextRepetition(T, s, a)]

-----------------------------------------------------------------------------
\* A sprint of the legacy contract may be under way when composite scoring is installed.
Init ==
    /\ newest \in {0, 1}
    /\ status \in [Sprint -> {"none", "active"}]
    /\ \A s \in Sprint : status[s] = "active" => s \notin Composite /\ RunOf[s] =< newest
    /\ \A s, t \in Sprint : status[s] = "active" /\ status[t] = "active" => s = t
    /\ checkIn = [c \in CheckIn |-> NoRow]
    /\ review = [s \in Sprint |-> NoReview]
    /\ event = [s \in Sprint |-> 0]

\* A new assessment becomes the newest run of the owner (persist_assessment_submission).
TakeAssessment ==
    /\ newest < MaxRuns
    /\ newest' = newest + 1
    /\ UNCHANGED <<status, checkIn, review, event>>

\* Mutant of StartPractice: a paused practice does not count as current.
StartBesidePaused(s) ==
    /\ ProtocolOf[s] \in Available
    /\ \A t \in Sprint : status[t] # "active"
    /\ newest # 0
    /\ status[s] = "none" /\ s \in Composite /\ RunOf[s] = newest
    /\ status' = [status EXCEPT ![s] = "active"]
    /\ UNCHANGED <<checkIn, review, event, newest>>

\* start_practice, without the synchronisation of the run's score state, see ScoredPractice.tla
StartPractice(s) ==
    /\ ProtocolOf[s] \in Available
    /\ \A t \in Sprint : ~Current(status[t])
    /\ newest # 0
    /\ status[s] = "none" /\ s \in Composite /\ RunOf[s] = newest
    /\ status' = [status EXCEPT ![s] = "active"]
    /\ UNCHANGED <<checkIn, review, event, newest>>

AllowedTransitions ==
    {<<"active", "paused">>, <<"active", "stopped">>, <<"paused", "active">>, <<"paused", "stopped">>}

TransitionSprint(s, target) ==
    /\ <<status[s], target>> \in AllowedTransitions
    /\ status' = [status EXCEPT ![s] = target]
    /\ UNCHANGED <<checkIn, review, event, newest>>

\* save_check_in without submission, for a new draft; saving a draft again keeps it a draft.
SaveDraft(c, s) ==
    /\ status[s] = "active"
    /\ checkIn[c].status = "none"
    /\ checkIn' = [checkIn EXCEPT ![c] = DraftRow(s)]
    /\ UNCHANGED <<status, review, event, newest>>

\* Mutants of SubmitCheckIn: the sprint may be closed already, or the check-in may be submitted
\* already.
SubmitToClosed(c, s, a, done, seen, isFirst) ==
    /\ status[s] \notin {"none", "stopped"}
    /\ a \in ActionsOf[ProtocolOf[s]] /\ seen \subseteq Observable[a]
    /\ checkIn[c].status = "none" \/ checkIn[c] = DraftRow(s)
    /\ isFirst <=> Submitted(checkIn, s) = {}
    /\ checkIn' = [checkIn EXCEPT ![c] = SubmittedRow(checkIn, s, a, done, seen, isFirst)]
    /\ UNCHANGED <<status, review, event, newest>>

SubmitAgain(c, s, a, done, seen, isFirst) ==
    /\ status[s] = "active"
    /\ a \in ActionsOf[ProtocolOf[s]] /\ seen \subseteq Observable[a]
    /\ checkIn[c].sprint \in {s, NoSprint}
    /\ isFirst <=> Submitted(checkIn, s) = {}
    /\ checkIn' = [checkIn EXCEPT ![c] = SubmittedRow(checkIn, s, a, done, seen, isFirst)]
    /\ UNCHANGED <<status, review, event, newest>>

\* save_check_in with submission, of a new check-in or of a draft of this sprint, together
\* with the evidence event.
SubmitCheckIn(c, s, a, done, seen, isFirst) ==
    /\ status[s] = "active"
    /\ a \in ActionsOf[ProtocolOf[s]] /\ seen \subseteq Observable[a]
    /\ checkIn[c].status = "none" \/ checkIn[c] = DraftRow(s)
    /\ isFirst <=> Submitted(checkIn, s) = {}
    /\ checkIn' = [checkIn EXCEPT ![c] = SubmittedRow(checkIn, s, a, done, seen, isFirst)]
    /\ UNCHANGED <<status, review, event, newest>>

\* Mutant of CompleteWithReview: sprints of the legacy contract get a credit as well.
CompleteWithCredit(s) ==
    /\ Current(status[s])
    /\ review[s] = NoReview
    /\ Ready(checkIn, s)
    /\ review' = [review EXCEPT ![s] = Totals(checkIn, s)]
    /\ status' = [status EXCEPT ![s] = "completed"]
    /\ event' = [event EXCEPT ![s] = CloseoutCredit(checkIn, s)]
    /\ UNCHANGED <<checkIn, newest>>

\* complete_with_review, with create_completion_credit_event for a composite sprint.
CompleteWithReview(s) ==
    /\ Current(status[s])
    /\ review[s] = NoReview
    /\ Ready(checkIn, s)
    /\ review' = [review EXCEPT ![s] = Totals(checkIn, s)]
    /\ status' = [status EXCEPT ![s] = "completed"]
    /\ event' = [event EXCEPT ![s] = IF s \in Composite THEN CloseoutCredit(checkIn, s) ELSE @]
    /\ UNCHANGED <<checkIn, newest>>

Next ==
    \/ TakeAssessment
    \/ \E s \in Sprint :
        \/ StartPractice(s)
        \/ \E target \in {"active", "paused", "stopped"} : TransitionSprint(s, target)
        \/ CompleteWithReview(s)
        \/ \E c \in CheckIn :
            \/ SaveDraft(c, s)
            \/ \E a \in Action, done, isFirst \in BOOLEAN, seen \in SUBSET Marker :
                 SubmitCheckIn(c, s, a, done, seen, isFirst)

Spec == Init /\ [][Next]_vars

-----------------------------------------------------------------------------
\* The owner never has two current practices.
OneCurrentPractice ==
    \A s, t \in Sprint : Current(status[s]) /\ Current(status[t]) => s = t

\* A review stays true: long after the closeout, the check-ins of the sprint still add up to
\* the totals it recorded and still justify it, and exactly the completed sprints have one.
ReviewsStayTrue ==
    \A s \in Sprint :
        /\ review[s] # NoReview <=> status[s] = "completed"
        /\ review[s] # NoReview => review[s] = Totals(checkIn, s) /\ Ready(checkIn, s)

\* Credit is earned by closeouts only: exactly the completed composite sprints have an event,
\* and it can be recomputed from the check-ins.
CreditMatchesEvidence ==
    \A s \in Sprint :
        event[s] = IF s \in Composite /\ status[s] = "completed" THEN CloseoutCredit(checkIn, s)
                                                                 ELSE 0

\* A sprint with evidence has exactly one check-in that calls itself the first record.
OneFirstRecord ==
    \A s \in Sprint : Submitted(checkIn, s) # {} =>
        \E c \in Submitted(checkIn, s) :
            \A d \in Submitted(checkIn, s) : checkIn[d].first <=> d = c

\* The evidence of a sprint and action is numbered 1, 2, ... without gap or repetition.
RepetitionsAreNumbered ==
    \A s \in Sprint, a \in Action :
        LET mine == {c \in Submitted(checkIn, s) : checkIn[c].action = a}
        IN  {checkIn[c].repetition : c \in mine} = 1 .. Cardinality(mine)

Freezes ==
    /\ \A c \in CheckIn : checkIn[c].status = "submitted" => checkIn'[c] = checkIn[c]
    /\ \A s \in Sprint : ~Current(status[s]) => Submitted(checkIn', s) = Submitted(checkIn, s)

\* Submitted evidence never changes, and a sprint gets none once it is closed.
EvidenceFreezes == [][Freezes]_vars

KeepsReadiness ==
    \A s \in Sprint : Ready(checkIn, s) =>
        Ready(checkIn', s) /\ CloseoutCredit(checkIn, s) =< CloseoutCredit(checkIn', s)

\* A practice that can be completed does not lose that by anything the owner does short of
\* stopping it, and the credit it would be closed out with never goes down: check-ins that
\* show little or contradict, pauses and new assessments take nothing away.
ReadinessIsKept == [][KeepsReadiness]_vars
=============================================================================
