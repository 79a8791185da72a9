------------------------------ MODULE OwnerArchive ------------------------------
(***************************************************************************)
(* The owner's private archive (build_owner_archive of                     *)
(* growth/services/data_lifecycle.py), drawn by one worker while the other *)
(* serves the owner's next requests.  Nothing opens a transaction around   *)
(* the twenty queries, so each one sees what is committed when it runs.    *)
(* A row is known by its table and the request that wrote it; what it says *)
(* is left out, what it refers to is kept.                                 *)
(***************************************************************************)
EXTENDS Naturals, Sequences

CONSTANTS
    MaxRequests  \* bound on the owner's requests

VARIABLES
    db,      \* the committed rows of each table
    clock,   \* requests carried out
    asked,   \* the rows that were committed when the archive was asked for
    read,    \* the rows the archive holds
    at       \* the next table to read; 0: not asked for

vars == <<db, clock, asked, read, at>>

\* The tables in the order of the queries.
ReadOrder ==
    <<"assessment_runs", "practice_sprints", "practice_check_ins", "evidence_events",
      "practice_reviews", "completion_credit_events", "weekly_execution_plans",
      "assessment_results", "score_snapshots", "composite_score_snapshots",
      "owner_revisions", "weekly_execution_reviews">>

\* The archive numbers the rows of the first ones and reads them into lists; the others are read
\* while it is put together.
Listed == 7

Done == Len(ReadOrder) + 1
Failed == Done + 1
Table == {ReadOrder[i] : i \in DOMAIN ReadOrder}

Latest(t) == CHOOSE r \in db[t] : \A q \in db[t] : q.id =< r.id
Ref(t) == [table |-> t, id |-> Latest(t).id]
New(t) == [table |-> t, id |-> clock + 1]

-----------------------------------------------------------------------------
(* What the owner's requests write, by table: the references of the new row. *)

\* persist_assessment: the run with its results, baselines, states and snapshots.
Assessment == [assessment_runs |-> {}, assessment_results |-> {New("assessment_runs")}]

\* start_composite_practice.
Start == [practice_sprints |-> {Ref("assessment_runs")}]

\* submit_check_in: the check-in, its evidence event and the score snapshot of that event.
CheckIn ==
    [practice_check_ins |-> {Ref("practice_sprints")},
     evidence_events |-> {New("practice_check_ins")},
     score_snapshots |-> {New("evidence_events"), Ref("assessment_runs")}]

\* complete_with_review: the review, the credit and its snapshot.
Closeout ==
    [practice_reviews |-> {Ref("practice_sprints")},
     completion_credit_events |-> {Ref("practice_sprints"), New("practice_reviews")},
     composite_score_snapshots |-> {New("completion_credit_events")}]

\* A revision of the context or of the Personal OS.
Revision == [owner_revisions |-> {Ref("assessment_runs")}]

\* The weekly plan and its review.
Plan == [weekly_execution_plans |-> {Ref("practice_sprints")}]
WeeklyReview == [weekly_execution_reviews |-> {Ref("weekly_execution_plans")}]

-----------------------------------------------------------------------------
Init ==
    /\ db = [t \in Table |-> {}] /\ clock = 0
    /\ asked = db /\ read = db /\ at = 0

\* A request commits its rows in one transaction.
Commit(rows) ==
    /\ clock < MaxRequests
    /\ clock' = clock + 1
    /\ db' = [t \in Table |->
                IF t \in DOMAIN rows THEN db[t] \cup {[id |-> clock + 1, refs |-> rows[t]]}
                ELSE db[t]]
    /\ UNCHANGED <<asked, read, at>>

Request ==
    \/ Commit(Assessment)
    \/ db["assessment_runs"] # {} /\ (Commit(Start) \/ Commit(Revision))
    \/ db["practice_sprints"] # {} /\ (Commit(CheckIn) \/ Commit(Closeout) \/ Commit(Plan))
    \/ db["weekly_execution_plans"] # {} /\ Commit(WeeklyReview)

\* The owner asks for the archive.
Ask ==
    /\ at = 0
    /\ at' = 1 /\ asked' = db /\ read' = [t \in Table |-> {}]
    /\ UNCHANGED <<db, clock>>

\* Whether the archive can name what the rows refer to: the reference dictionaries hold the rows
\* of the listed tables.
Resolves(rows, held) ==
    \A r \in rows : \A ref \in r.refs : \E q \in held[ref.table] : q.id = ref.id

\* Mutant of ReadTable: what a reference dictionary lacks is left out.
ReadTableLeniently ==
    /\ at \in 1 .. Len(ReadOrder)
    /\ read' = [read EXCEPT ![ReadOrder[at]] = db[ReadOrder[at]]]
    /\ at' = at + 1
    /\ UNCHANGED <<db, clock, asked>>

\* The next query.  The lists are resolved when all of them are read; a missing key ends the
\* request with a KeyError, which the view does not catch.
ReadTable ==
    /\ at \in 1 .. Len(ReadOrder)
    /\ LET t == ReadOrder[at] IN
         /\ read' = [read EXCEPT ![t] = db[t]]
         /\ at' = IF \/ at < Listed
                     \/ at = Listed /\ \A i \in 1 .. Listed : Resolves(read'[ReadOrder[i]], read')
                     \/ at > Listed /\ Resolves(db[t], read)
                  THEN at + 1 ELSE Failed
    /\ UNCHANGED <<db, clock, asked>>

\* The archive was delivered, or the page failed: the owner may ask again.
Deliver ==
    /\ at \in {Done, Failed}
    /\ at' = 0 /\ read' = [t \in Table |-> {}] /\ asked' = read'
    /\ UNCHANGED <<db, clock>>

Next == Request \/ Ask \/ ReadTable \/ Deliver

Spec == Init /\ [][Next]_vars

-----------------------------------------------------------------------------
\* M6H-02: the archive includes all records (those there were when it was asked for) and
\* relationships use archive references, each of them to a row the archive holds, whatever was
\* committed while it was drawn.
ArchiveIsWhole ==
    at = Done =>
        \A t \in Table : asked[t] \subseteq read[t] /\ Resolves(read[t], read)

\* The page delivers the archive, or says (409) that stored records failed verification: sound
\* records never make it fail.
ArchiveIsDelivered == at # Failed
=============================================================================
