-------------------------------- MODULE Records --------------------------------
(***************************************************************************)
(* The components that keep a history of what the owner did, each from its *)
(* own initial state; one of them moves in a behaviour, the others stay    *)
(* where they start, in one of their initial states.  The components share *)
(* no variable, so each keeps the constants of its own.                    *)
(***************************************************************************)
EXTENDS Naturals, Sequences, FiniteSets

CONSTANTS
    Moves,        \* the components that move
    None,         \* no event, no sprint, no request, no review, no task
    Worker,
    MaxRequests,  \* bound on the forms that are sent
    \* LegacyScoreState
    Run, LegacyProtocol, LegacyCheckIn, RunOf, ProtocolOf, Counts, NoBaseline, RunOrder, MaxHistory,
    \* Evidence
    CheckIn, Group, GroupOf, MaxWall, ClockMayGoBack,
    \* WeeklyExecution
    Sprint, Action, SprintOf, Day, Decision, WeekLength, MaxTime, MaxPlans, MaxEvents, ReviewsFirst,
    \* ContextRevisions
    Protocol, Value, Unknown, MaxEpoch, MaxRevisions,
    \* SetupWizard
    Tab, Label, MaxDay

VARIABLES
    component,                                                \* the one that moves
    submitted, recorded, eligible, history, rows, astray, stage,  \* of LegacyScoreState
    wall, at, index, recording, container, order,             \* of Evidence
    clock, steady, active, plans, reviews, events, busy,  \* of WeeklyExecution
    epoch, series, posted, task, acknowledged,                 \* of ContextRevisions
    session, request, today, sprint, given                    \* of SetupWizard

Legacy == INSTANCE LegacyScoreState WITH
    Protocol <- LegacyProtocol, CheckIn <- LegacyCheckIn, NoEvent <- None
Evidence == INSTANCE Evidence WITH MaxTime <- MaxWall
Weekly == INSTANCE WeeklyExecution WITH NoSprint <- None, NoRequest <- None, NoReview <- None
Contexts == INSTANCE ContextRevisions WITH NoTask <- None
Wizard == INSTANCE SetupWizard

-----------------------------------------------------------------------------
\* Every check-in is of a run, and the command that rebuilds the scores takes every run.
ASSUME LegacyAssumption ==
    /\ RunOf \in [LegacyCheckIn -> Run]
    /\ Counts \subseteq LegacyCheckIn /\ None \notin LegacyCheckIn
    /\ RunOrder \in Seq(Run)
    /\ \A r \in Run : \E i \in DOMAIN RunOrder : RunOrder[i] = r

\* Check-ins are named by the ids that break ties, and there are finitely many.
ASSUME EvidenceAssumption ==
    /\ CheckIn \subseteq Nat /\ IsFiniteSet(CheckIn)
    /\ MaxWall \in Nat

\* A week has a length; the bounds are numbers.
ASSUME WeeklyAssumption ==
    /\ WeekLength \in Nat \ {0}
    /\ MaxTime \in Nat /\ MaxPlans \in Nat /\ MaxEvents \in Nat

\* A context of the practice is none of the other two; a form can leave every field unknown.
ASSUME ContextsAssumption ==
    /\ Protocol \cap {"personal_os", "assessment"} = {}
    /\ Unknown \in Value
    /\ MaxEpoch \in Nat \ {0}

-----------------------------------------------------------------------------
legacyVars == <<submitted, recorded, eligible, history, rows, astray, stage>>
evidenceVars == <<wall, at, index, recording, container, order>>
weeklyVars == <<clock, steady, active, plans, reviews, events, busy>>
contextVars == <<epoch, series, posted, task, acknowledged>>
wizardVars == <<session, request, today, sprint, given>>
vars == <<component, legacyVars, evidenceVars, weeklyVars, contextVars, wizardVars>>

Init ==
    /\ component \in Moves
    /\ Legacy!Init /\ Evidence!Init /\ Weekly!Init /\ Contexts!Init /\ Wizard!Init
    /\ component # "legacy" => submitted = <<>> /\ eligible = {}
    /\ component # "evidence" => recording

Next ==
    /\ UNCHANGED component
    /\ \/ component = "legacy" /\ Legacy!Next
          /\ UNCHANGED <<evidenceVars, weeklyVars, contextVars, wizardVars>>
       \/ component = "evidence" /\ Evidence!Next
          /\ UNCHANGED <<legacyVars, weeklyVars, contextVars, wizardVars>>
       \/ component = "weekly" /\ Weekly!Next
          /\ UNCHANGED <<legacyVars, evidenceVars, contextVars, wizardVars>>
       \/ component = "contexts" /\ Contexts!Next
          /\ UNCHANGED <<legacyVars, evidenceVars, weeklyVars, wizardVars>>
       \/ component = "wizard" /\ Wizard!Next
          /\ UNCHANGED <<legacyVars, evidenceVars, weeklyVars, contextVars>>

Spec == Init /\ [][Next]_vars

-----------------------------------------------------------------------------
\* While nobody edits the rows, the levers of a serving container are what its evidence implies,
\* the audit trail replays, and no accepted check-in is left out, release after release.
LegacyScoresAreVerified ==
    component = "legacy" => Legacy!TypeOK /\ Legacy!ServesVerifiedScores /\ Legacy!NothingLeftOver

\* A serving container has an event for every submitted check-in, and only a clock that was set
\* back puts them in an order that stops the start.
EvidenceIsComplete ==
    component = "evidence" =>
        Evidence!TypeOK /\ Evidence!EveryCheckInHasItsEvent /\ Evidence!OnlyReorderingStopsStart

\* A weekly review is of the plan that was in force.  While the clock is not set back it verifies
\* for good, with the evidence of its own week and action, which proves no other plan, whatever
\* arrives late or twice; a clock that is set back undoes it only by an event that came after the
\* review and is stamped before it.
WeeklyReviewsStayTrue ==
    component = "weekly" =>
        /\ Weekly!TypeOK /\ Weekly!ReviewsStayValid
        /\ Weekly!NoEvidenceProvesTwoPlans /\ Weekly!NoReplacedPlanIsReviewed

\* A form that was answered as saved is in the history of its run, also when two workers raced
\* for a revision number; no run takes over what was written for another; and a practice has a
\* context only where the assessment has one.
RevisionsAreTrue ==
    component = "contexts" =>
        /\ Contexts!TypeOK /\ Contexts!AcknowledgedIsStored
        /\ Contexts!NothingIsCarriedOver /\ Contexts!PracticeComesWithAssessment

\* However two tabs overwrite one another's answers, a practice starts with all six of them, each
\* one given by the owner, and not in the past.
StartsOnlyWhatWasReviewed == Wizard!StartsOnlyWhatWasReviewed

\* No step rewrites a record: numbers of events, plans, reviews and revisions stay, revisions
\* are numbered without a gap and say something new.  A start of the container only fails for a
\* run with lever rows that nothing repairs or with an event that cannot be processed.
RecordsAreKept ==
    /\ Evidence!NumbersStay /\ Weekly!HistoryIsKept /\ Contexts!HistoryIsKept
    /\ Legacy!OnlyPendingEventsStopStart

-----------------------------------------------------------------------------
(* What the documentation says and the code does not keep. *)

\* docs/scoring-model.md: after a rebuild the state of a run is the replay of its events.
RebuildRepairsDrift == Legacy!RebuildRepairsDrift

=============================================================================
