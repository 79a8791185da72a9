------------------------------ MODULE DataLifecycle ------------------------------
(***************************************************************************)
(* Retention and account deletion: growth/views_data.py and                *)
(* growth/services/data_lifecycle.py.  A page shows what would be removed  *)
(* and carries a signed preview of it; what the owner confirms is compared *)
(* with the state at that time.  The history that retention never touches  *)
(* is the set of the tables that hold rows of the owner; drafts and        *)
(* feedback have the day they were last changed.                           *)
(***************************************************************************)
EXTENDS Integers, Sequences, FiniteSets

CONSTANTS
    Histories,       \* the sets of tables an owner may have rows in
    Draft, Feedback, \* draft check-ins and pilot feedback the owner may come to have
    RetentionDays,  \* OWNER_RETENTION_DAYS; the code allows 30 .. 3650
    MaxDay,         \* bound on the calendar
    MaxSessions,    \* bound on the sessions of the owner
    MaxPages        \* bound on the pages the owner has open

VARIABLES
    today,
    enabled,   \* OWNER_RETENTION_ENABLED of the running container
    account,   \* the account exists
    history,   \* tables with rows of the owner, other than drafts and feedback
    changed,   \* by item: the day of its last change; 0: there is none; -1: submitted
    sessions,  \* how many sessions the owner is signed in with
    pages      \* the signed previews of open pages

vars == <<today, enabled, account, history, changed, sessions, pages>>

Item == Draft \cup Feedback

-----------------------------------------------------------------------------
\* Foreign keys with on_delete=PROTECT between rows of an owner: table and the table it protects.
Protects ==
    {<<"lever_states", "assessment_runs">>, <<"lever_states", "lever_baselines">>,
     <<"practice_sprints", "assessment_runs">>, <<"score_snapshots", "assessment_runs">>,
     <<"score_snapshots", "evidence_events">>,
     <<"composite_assessment_snapshots", "assessment_runs">>,
     <<"completion_credit_events", "assessment_runs">>,
     <<"completion_credit_events", "practice_sprints">>,
     <<"completion_credit_events", "practice_reviews">>,
     <<"composite_score_snapshots", "assessment_runs">>,
     <<"composite_score_snapshots", "completion_credit_events">>,
     <<"assessment_context", "assessment_runs">>, <<"practice_context", "assessment_runs">>}

\* Foreign keys with on_delete=CASCADE: deleting the second deletes the first.
Cascades ==
    {<<"assessment_calibration_consents", "assessment_runs">>,
     <<"orientation_results", "assessment_runs">>, <<"archetype_results", "assessment_runs">>,
     <<"lever_baselines", "assessment_runs">>, <<"practice_check_ins", "practice_sprints">>,
     <<"evidence_events", "practice_check_ins">>, <<"practice_reviews", "practice_sprints">>,
     <<"composite_score_states", "assessment_runs">>,
     <<"personal_os_revisions", "assessment_runs">>,
     <<"weekly_execution_plans", "practice_sprints">>,
     <<"weekly_execution_reviews", "weekly_execution_plans">>}

Table == {e[1] : e \in Protects \cup Cascades} \cup {"assessment_runs", "pilot_feedback"}

\* The rows that go with a row of t, of those that are left; no chain of these keys is longer than two.
Cascaded(tables, left) == tables \cup {e[1] : e \in {x \in Cascades : x[2] \in tables /\ x[1] \in left}}
GoWith(t, left) == Cascaded(Cascaded({t}, left), left)

\* Mutant of DeletionOrder: the evidence goes before the scores that were computed from it.
DeletionOrderByTime ==
    <<"composite_score_snapshots", "completion_credit_events", "composite_assessment_snapshots",
      "assessment_calibration_consents", "composite_score_states", "weekly_execution_reviews",
      "weekly_execution_plans", "practice_reviews", "evidence_events", "practice_check_ins",
      "score_snapshots", "practice_sprints", "lever_states", "lever_baselines",
      "personal_os_revisions", "practice_context", "assessment_context", "orientation_results",
      "archetype_results", "assessment_runs", "pilot_feedback">>

\* delete_owner_account: the order of its deletions.
DeletionOrder ==
    <<"composite_score_snapshots", "completion_credit_events", "composite_assessment_snapshots",
      "assessment_calibration_consents", "composite_score_states", "score_snapshots",
      "weekly_execution_reviews", "weekly_execution_plans", "practice_reviews",
      "evidence_events", "practice_check_ins", "practice_sprints", "lever_states",
      "lever_baselines", "personal_os_revisions", "practice_context", "assessment_context",
      "orientation_results", "archetype_results", "assessment_runs", "pilot_feedback">>

\* What the deletion from one table leaves; {"refused"} when a PROTECT key stops it.
Delete(left, t) ==
    LET gone == GoWith(t, left) IN
    IF t \notin left THEN left
    ELSE IF \E e \in Protects : e[2] \in gone /\ e[1] \in left \ gone THEN {"refused"}
    ELSE left \ gone

\* What all of them leave of the rows in these tables.
Remaining(tables) ==
    LET Left[n \in 0 .. Len(DeletionOrder)] ==
          IF n = 0 THEN tables ELSE Delete(Left[n - 1], DeletionOrder[n])
    IN  Left[Len(DeletionOrder)]

-----------------------------------------------------------------------------
Old(day) == {i \in Item : changed[i] > 0 /\ changed[i] < day - RetentionDays}

\* build_retention_preview: the policy, the days and the counts go into the hash.
RetentionPreview(day) ==
    [kind |-> "retention", enabled |-> enabled, as_of |-> day,
     count |-> IF enabled THEN Cardinality(Old(day)) ELSE 0]

\* build_deletion_preview: the counts of every owned table, of the account and its sessions.
DeletionPreview ==
    [kind |-> "delete", history |-> history, sessions |-> sessions,
     items |-> Cardinality({i \in Item : changed[i] # 0})]

-----------------------------------------------------------------------------
Init ==
    /\ today = 1 /\ enabled \in BOOLEAN /\ account = TRUE
    /\ history \in Histories
    /\ changed = [i \in Item |-> 0] /\ sessions = 1 /\ pages = {}

Others(unchanged) == account /\ UNCHANGED unchanged

\* Midnight; a signed preview is good for fifteen minutes, of this day or across midnight.
NextDay ==
    /\ today < MaxDay /\ today' = today + 1
    /\ pages' = {p \in pages : p.day = today}
    /\ UNCHANGED <<enabled, account, history, changed, sessions>>

\* The container is restarted with another setting.
Configure ==
    /\ enabled' = ~enabled /\ UNCHANGED <<today, account, history, changed, sessions, pages>>

\* A draft is saved, or feedback is sent.
Change(i) ==
    /\ changed[i] # -1 /\ (i \in Feedback => changed[i] = 0)
    /\ changed' = [changed EXCEPT ![i] = today]
    /\ Others(<<today, enabled, account, history, sessions, pages>>)

\* A draft is submitted: it belongs to the history from then on.
Submit(i) ==
    /\ changed[i] > 0 /\ changed' = [changed EXCEPT ![i] = -1]
    /\ Others(<<today, enabled, account, history, sessions, pages>>)

\* The owner signs in elsewhere, or out there.
SignIn ==
    /\ sessions' \in {sessions - 1, sessions + 1} \cap (1 .. MaxSessions)
    /\ Others(<<today, enabled, account, history, changed, pages>>)

\* data_management, GET: both previews, and what they show (a history variable).
Open ==
    /\ Cardinality(pages) < MaxPages
    /\ pages' = pages \cup {[day |-> today, retention |-> RetentionPreview(today),
                             deletion |-> DeletionPreview, shown |-> IF enabled THEN Old(today) ELSE {}]}
    /\ Others(<<today, enabled, account, history, changed, sessions>>)

\* Mutant of ApplyRetention: what is old by now is removed.
ApplyRetentionToday(p) ==
    /\ enabled
    /\ changed' = [i \in Item |-> IF i \in Old(today) THEN 0 ELSE changed[i]]
    /\ pages' = pages \ {p}
    /\ Others(<<today, enabled, account, history, sessions>>)

\* apply_retention: with the day of the preview, and only when its hash is still the same.
ApplyRetention(p) ==
    /\ enabled /\ RetentionPreview(p.day) = p.retention
    /\ changed' = [i \in Item |-> IF i \in Old(p.day) THEN 0 ELSE changed[i]]
    /\ pages' = pages \ {p}
    /\ Others(<<today, enabled, account, history, sessions>>)

\* delete_owner_account: everything or, when the database refuses a step, nothing.
DeleteAccount(p) ==
    /\ DeletionPreview = p.deletion
    /\ Remaining(history) # {"refused"}
    /\ account' = FALSE /\ sessions' = 0 /\ pages' = {}
    /\ history' = Remaining(history) /\ changed' = [i \in Item |-> 0]
    /\ account /\ UNCHANGED <<today, enabled>>

Next ==
    \/ NextDay \/ Configure \/ SignIn \/ Open
    \/ (\E i \in Item : Change(i)) \/ (\E i \in Draft : Submit(i))
    \/ \E p \in pages : ApplyRetention(p) \/ DeleteAccount(p)

Spec == Init /\ [][Next]_vars

-----------------------------------------------------------------------------
\* Retention removes exactly the drafts and feedback a page showed as old, although the page
\* carries only their number: nothing that was touched since, and never a part of the history.
RetentionRemovesWhatWasShown ==
    [][LET removed == {i \in Item : changed[i] # 0 /\ changed'[i] = 0} IN
       account' => /\ history' = history
                   /\ removed # {} => \E p \in pages : removed = p.shown]_vars

\* Whatever an owner has recorded, the deletion of the account is not refused by a PROTECT key and
\* leaves no row.
DeletionIsComplete ==
    IF account THEN Remaining(history) = {}
    ELSE history = {} /\ sessions = 0 /\ \A i \in Item : changed[i] = 0
=============================================================================
