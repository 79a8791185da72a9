-------------------------- MODULE PracticeConcurrency --------------------------
(***************************************************************************)
(* The practice services run by several gunicorn workers on one SQLite     *)
(* database in WAL mode (growth/db.py, docker-entrypoint.sh and the        *)
(* transaction.atomic functions of growth/services/practice.py).           *)
(*                                                                         *)
(* SQLite ignores select_for_update, and Django opens a transaction with a *)
(* plain BEGIN.  The transaction takes its snapshot with its first read,   *)
(* and the right to write with its first write: one transaction has it at  *)
(* a time, and it is refused for good when anybody committed since the     *)
(* snapshot.  Every decision of a service is taken on the snapshot; its    *)
(* writes go to the rows of the database.                                  *)
(*                                                                         *)
(* Where the file system does not support WAL (db.py logs a warning) a     *)
(* commit also waits for readers: a subset of these behaviours.            *)
(*                                                                         *)
(* The question is whether these transactions behave like the undivided    *)
(* actions of PracticeWorkflow.                                            *)
(***************************************************************************)
EXTENDS PracticeWorkflow

CONSTANTS
    Worker,
    Nobody

ASSUME WorkerAssumption == Nobody \notin Worker

VARIABLES
    tx,        \* the transaction of each worker: its snapshot, and if it is out of date
    writer     \* the worker with the right to write, or Nobody

concurrentVars == <<status, checkIn, review, event, newest, tx, writer>>

Closed == [open |-> FALSE]

Snapshot == [open |-> TRUE, stale |-> FALSE, status |-> status, checkIn |-> checkIn,
             review |-> review, event |-> event, newest |-> newest]

ConcurrentInit ==
    /\ Init
    /\ tx = [w \in Worker |-> Closed]
    /\ writer = Nobody

\* A request reaches its service, whose first query fixes what the transaction sees.
Begin(w) ==
    /\ ~tx[w].open
    /\ tx' = [tx EXCEPT ![w] = Snapshot]
    /\ UNCHANGED <<vars, writer>>

\* Mutant of AcquireWrite: an outdated snapshot is no obstacle.
AcquireWriteAnyway(w) ==
    /\ tx[w].open
    /\ writer = Nobody
    /\ writer' = w
    /\ UNCHANGED <<vars, tx>>

\* The first write of a transaction; it waits while another one is writing.
AcquireWrite(w) ==
    /\ tx[w].open
    /\ writer = Nobody
    /\ ~tx[w].stale
    /\ writer' = w
    /\ UNCHANGED <<vars, tx>>

\* The transaction ends without a trace: the snapshot is out of date ("database is locked"),
\* the wait for the writer was too long, a guard of the service fails, or the worker dies.
Rollback(w) ==
    /\ tx[w].open
    /\ tx' = [tx EXCEPT ![w] = Closed]
    /\ writer' = IF writer = w THEN Nobody ELSE writer
    /\ UNCHANGED vars

\* Mutant of Commit: the others do not learn that their snapshots are outdated.
CommitUnnoticed(w) ==
    /\ writer = w
    /\ writer' = Nobody
    /\ tx' = [tx EXCEPT ![w] = Closed]

\* A commit puts every other open snapshot out of date.
Commit(w) ==
    /\ writer = w
    /\ writer' = Nobody
    /\ tx' = [v \in Worker |-> IF v = w \/ ~tx[v].open THEN Closed
                                ELSE [tx[v] EXCEPT !.stale = TRUE]]

-----------------------------------------------------------------------------
(* What a transaction commits: decisions on the snapshot t, writes to the tables. *)

CommitAssessment(w) ==
    LET t == tx[w]
    IN  /\ Commit(w)
        /\ t.newest < MaxRuns
        /\ newest' = t.newest + 1
        /\ UNCHANGED <<status, checkIn, review, event>>

CommitStart(w, s) ==
    LET t == tx[w]
    IN  /\ Commit(w)
        /\ ProtocolOf[s] \in Available
        /\ \A u \in Sprint : ~Current(t.status[u])
        /\ t.newest # 0
        /\ t.status[s] = "none" /\ s \in Composite /\ RunOf[s] = t.newest
        /\ status' = [status EXCEPT ![s] = "active"]
        /\ UNCHANGED <<checkIn, review, event, newest>>

CommitTransition(w, s, target) ==
    /\ Commit(w)
    /\ <<tx[w].status[s], target>> \in AllowedTransitions
    /\ status' = [status EXCEPT ![s] = target]
    /\ UNCHANGED <<checkIn, review, event, newest>>

CommitDraft(w, c, s) ==
    /\ Commit(w)
    /\ tx[w].status[s] = "active"
    /\ tx[w].checkIn[c].status = "none"
    /\ checkIn' = [checkIn EXCEPT ![c] = DraftRow(s)]
    /\ UNCHANGED <<status, review, event, newest>>

CommitCheckIn(w, c, s, a, done, seen, isFirst) ==
    LET t == tx[w]
    IN  /\ Commit(w)
        /\ t.status[s] = "active"
        /\ a \in ActionsOf[ProtocolOf[s]] /\ seen \subseteq Observable[a]
        /\ t.checkIn[c].status = "none" \/ t.checkIn[c] = DraftRow(s)
        /\ isFirst <=> Submitted(t.checkIn, s) = {}
        /\ checkIn' = [checkIn EXCEPT ![c] = SubmittedRow(t.checkIn, s, a, done, seen, isFirst)]
        /\ UNCHANGED <<status, review, event, newest>>

CommitCompletion(w, s) ==
    LET t == tx[w]
    IN  /\ Commit(w)
        /\ Current(t.status[s])
        /\ t.review[s] = NoReview
        /\ Ready(t.checkIn, s)
        /\ review' = [review EXCEPT ![s] = Totals(t.checkIn, s)]
        /\ status' = [status EXCEPT ![s] = "completed"]
        /\ event' = [event EXCEPT ![s] = IF s \in Composite THEN CloseoutCredit(t.checkIn, s)
                                                            ELSE @]
        /\ UNCHANGED <<checkIn, newest>>

CommitSome(w) ==
    \/ CommitAssessment(w)
    \/ \E s \in Sprint :
        \/ CommitStart(w, s)
        \/ \E target \in {"active", "paused", "stopped"} : CommitTransition(w, s, target)
        \/ CommitCompletion(w, s)
        \/ \E c \in CheckIn :
            \/ CommitDraft(w, c, s)
            \/ \E a \in Action, done, isFirst \in BOOLEAN, seen \in SUBSET Marker :
                 CommitCheckIn(w, c, s, a, done, seen, isFirst)

ConcurrentNext ==
    \E w \in Worker : Begin(w) \/ AcquireWrite(w) \/ CommitSome(w) \/ Rollback(w)

ConcurrentSpec == ConcurrentInit /\ [][ConcurrentNext]_concurrentVars

-----------------------------------------------------------------------------
\* Type correctness: an open transaction holds a whole snapshot, and only an open one writes.
ConcurrentTypeOK ==
    /\ TypeOK
    /\ \A w \in Worker : tx[w].open =>
         /\ tx[w].stale \in BOOLEAN
         /\ tx[w].checkIn \in [CheckIn -> Row]
         /\ tx[w].status \in [Sprint -> {"none", "active", "paused", "stopped", "completed"}]
    /\ writer # Nobody => writer \in Worker /\ tx[writer].open

\* Nobody decides on outdated data and writes all the same: as long as a transaction writes,
\* its snapshot is what the database holds, although the others go on reading.
WriterIsUpToDate ==
    writer # Nobody => tx[writer] = Snapshot

\* The committed tables change exactly as if the services ran one at a time: two workers that
\* start, submit, pause and close the same practice at the same time never do anything
\* PracticeWorkflow does not, so all its properties hold of the concurrent system.
Serialisable == Spec
=============================================================================
