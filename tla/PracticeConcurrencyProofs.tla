----------------------- MODULE PracticeConcurrencyProofs -----------------------
(***************************************************************************)
(* The concurrent practice services implement the serial PracticeWorkflow, *)
(* for any number of workers, sprints, check-ins and protocols.            *)
(*                                                                         *)
(* The inductive invariant is that an open snapshot not marked as outdated *)
(* is what the database holds, and that only such a transaction writes.    *)
(* Every decision on the snapshot is then one on the committed tables, and *)
(* a commit is an action of PracticeWorkflow.                              *)
(***************************************************************************)
EXTENDS PracticeConcurrency, PracticeWorkflowProofs

\* The columns of an open transaction's record, whatever their contents.
Shape(t) ==
    /\ t = [open |-> TRUE, stale |-> t.stale, status |-> t.status, checkIn |-> t.checkIn,
            review |-> t.review, event |-> t.event, newest |-> t.newest]
    /\ t.stale \in BOOLEAN

SnapshotInv ==
    /\ tx = [w \in Worker |-> tx[w]]
    /\ \A w \in Worker : tx[w] = Closed \/ Shape(tx[w])
    /\ \A w \in Worker : tx[w].open /\ ~tx[w].stale => tx[w] = Snapshot
    /\ writer # Nobody => writer \in Worker /\ tx[writer].open /\ ~tx[writer].stale

-----------------------------------------------------------------------------
\* A commit decides on the committed tables and outdates all the other snapshots.
LEMMA CommitKeepsSnapshots ==
    ASSUME SnapshotInv, NEW w \in Worker, Commit(w)
    PROVE  /\ tx[w] = Snapshot
           /\ SnapshotInv'
<1>1. writer = w /\ w # Nobody
  BY WorkerAssumption DEF Commit
<1>2. tx[w] = Snapshot
  BY <1>1 DEF SnapshotInv
<1>3. tx' = [v \in Worker |-> tx'[v]]
  BY DEF Commit
<1>4. \A v \in Worker : tx'[v] = Closed \/ (Shape(tx'[v]) /\ tx'[v].stale)
  <2> SUFFICES ASSUME NEW v \in Worker, v # w, tx[v].open
               PROVE  Shape(tx'[v]) /\ tx'[v].stale
    BY DEF Commit
  <2>1. Shape(tx[v])
    BY DEF SnapshotInv, Closed
  <2>2. tx'[v] = [tx[v] EXCEPT !.stale = TRUE]
    BY DEF Commit
  <2>3. tx'[v] = [open |-> TRUE, stale |-> TRUE, status |-> tx[v].status,
                  checkIn |-> tx[v].checkIn, review |-> tx[v].review,
                  event |-> tx[v].event, newest |-> tx[v].newest]
    BY <2>1, <2>2 DEF Shape
  <2> QED BY <2>3 DEF Shape
<1>5. \A v \in Worker : ~(tx'[v].open /\ ~tx'[v].stale)
  BY <1>4 DEF Closed
<1>6. writer' = Nobody
  BY DEF Commit
<1> QED BY <1>2, <1>3, <1>4, <1>5, <1>6 DEF SnapshotInv

\* Every kind of commit is the action of PracticeWorkflow it stands for.
LEMMA CommitIsServed ==
    ASSUME SnapshotInv, NEW w \in Worker, CommitSome(w)
    PROVE  Next /\ SnapshotInv'
<1>1. Commit(w)
  <2>1. CommitAssessment(w) => Commit(w)
    BY DEF CommitAssessment
  <2>2. \A s \in Sprint : CommitStart(w, s) \/ CommitCompletion(w, s) => Commit(w)
    BY DEF CommitStart, CommitCompletion
  <2>3. \A s \in Sprint, target \in {"active", "paused", "stopped"} :
          CommitTransition(w, s, target) => Commit(w)
    BY DEF CommitTransition
  <2>4. \A s \in Sprint, c \in CheckIn : CommitDraft(w, c, s) => Commit(w)
    BY DEF CommitDraft
  <2>5. \A s \in Sprint, c \in CheckIn, a \in Action, done, isFirst \in BOOLEAN,
           seen \in SUBSET Marker : CommitCheckIn(w, c, s, a, done, seen, isFirst) => Commit(w)
    BY DEF CommitCheckIn
  <2> QED BY <2>1, <2>2, <2>3, <2>4, <2>5 DEF CommitSome
<1>2. SnapshotInv' /\ tx[w] = Snapshot
  BY <1>1, CommitKeepsSnapshots
<1>3. /\ tx[w].status = status /\ tx[w].checkIn = checkIn /\ tx[w].review = review
      /\ tx[w].event = event /\ tx[w].newest = newest
  BY <1>2 DEF Snapshot
<1>4. Next
  <2>1. CASE CommitAssessment(w)
    BY <2>1, <1>3 DEF CommitAssessment, TakeAssessment, Next
  <2>2. CASE \E s \in Sprint : CommitStart(w, s)
    <3>1. PICK s \in Sprint : CommitStart(w, s)
      BY <2>2
    <3>2. StartPractice(s)
      BY <3>1, <1>3 DEF CommitStart, StartPractice
    <3> QED BY <3>2 DEF Next
  <2>3. CASE \E s \in Sprint, target \in {"active", "paused", "stopped"} :
               CommitTransition(w, s, target)
    <3>1. PICK s \in Sprint, target \in {"active", "paused", "stopped"} :
                 CommitTransition(w, s, target)
      BY <2>3
    <3>2. TransitionSprint(s, target)
      BY <3>1, <1>3 DEF CommitTransition, TransitionSprint
    <3> QED BY <3>2 DEF Next
  <2>4. CASE \E s \in Sprint, c \in CheckIn : CommitDraft(w, c, s)
    <3>1. PICK s \in Sprint, c \in CheckIn : CommitDraft(w, c, s)
      BY <2>4
    <3>2. SaveDraft(c, s)
      BY <3>1, <1>3 DEF CommitDraft, SaveDraft
    <3> QED BY <3>2 DEF Next
  <2>5. CASE \E s \in Sprint, c \in CheckIn, a \in Action, done, isFirst \in BOOLEAN,
                seen \in SUBSET Marker : CommitCheckIn(w, c, s, a, done, seen, isFirst)
    <3>1. PICK s \in Sprint, c \in CheckIn, a \in Action, done \in BOOLEAN,
               isFirst \in BOOLEAN, seen \in SUBSET Marker :
                 CommitCheckIn(w, c, s, a, done, seen, isFirst)
      BY <2>5
    <3>2. SubmitCheckIn(c, s, a, done, seen, isFirst)
      BY <3>1, <1>3 DEF CommitCheckIn, SubmitCheckIn
    <3> QED BY <3>2 DEF Next
  <2>6. CASE \E s \in Sprint : CommitCompletion(w, s)
    <3>1. PICK s \in Sprint : CommitCompletion(w, s)
      BY <2>6
    <3>2. CompleteWithReview(s)
      BY <3>1, <1>3 DEF CommitCompletion, CompleteWithReview
    <3> QED BY <3>2 DEF Next
  <2> QED BY <2>1, <2>2, <2>3, <2>4, <2>5, <2>6 DEF CommitSome
<1> QED BY <1>2, <1>4

\* Opening, waiting and giving up leave the tables alone.
LEMMA OtherStepsKeepSnapshots ==
    ASSUME SnapshotInv, NEW w \in Worker, Begin(w) \/ AcquireWrite(w) \/ Rollback(w)
    PROVE  SnapshotInv' /\ UNCHANGED vars
<1>1. CASE Begin(w)
  <2>1. UNCHANGED vars /\ writer' = writer /\ tx' = [tx EXCEPT ![w] = Snapshot]
    BY <1>1 DEF Begin
  <2>2. Snapshot' = Snapshot
    BY <2>1 DEF vars, Snapshot
  <2>3. Shape(Snapshot) /\ Snapshot.open /\ ~Snapshot.stale
    BY DEF Shape, Snapshot
  <2>4. writer # w \/ writer = Nobody
    BY <1>1 DEF Begin, SnapshotInv
  <2> QED BY <2>1, <2>2, <2>3, <2>4 DEF SnapshotInv
<1>2. CASE AcquireWrite(w)
  <2>1. UNCHANGED vars /\ writer' = w /\ tx' = tx /\ tx[w].open /\ ~tx[w].stale
    BY <1>2 DEF AcquireWrite
  <2>2. Snapshot' = Snapshot
    BY <2>1 DEF vars, Snapshot
  <2> QED BY <2>1, <2>2 DEF SnapshotInv
<1>3. CASE Rollback(w)
  <2>1. /\ UNCHANGED vars /\ tx' = [tx EXCEPT ![w] = Closed]
        /\ writer' = IF writer = w THEN Nobody ELSE writer
    BY <1>3 DEF Rollback
  <2>2. Snapshot' = Snapshot
    BY <2>1 DEF vars, Snapshot
  <2>3. ~Closed.open
    BY DEF Closed
  <2> QED BY <2>1, <2>2, <2>3 DEF SnapshotInv
<1> QED BY <1>1, <1>2, <1>3

\* The invariant holds initially and no step breaks it.
THEOREM UpToDate == ConcurrentSpec => []SnapshotInv
<1>1. ConcurrentInit => SnapshotInv
  BY DEF ConcurrentInit, SnapshotInv, Closed
<1>2. SnapshotInv /\ [ConcurrentNext]_concurrentVars => SnapshotInv'
  <2> SUFFICES ASSUME SnapshotInv, [ConcurrentNext]_concurrentVars PROVE SnapshotInv'
    OBVIOUS
  <2>1. CASE ConcurrentNext
    BY <2>1, CommitIsServed, OtherStepsKeepSnapshots DEF ConcurrentNext
  <2>2. CASE UNCHANGED concurrentVars
    BY <2>2 DEF concurrentVars, SnapshotInv, Snapshot, Shape
  <2> QED BY <2>1, <2>2
<1> QED BY <1>1, <1>2, PTL DEF ConcurrentSpec

\* A transaction never writes what it decided on an outdated snapshot.
THEOREM WritersAreUpToDate == ConcurrentSpec => []WriterIsUpToDate
<1>1. SnapshotInv => WriterIsUpToDate
  BY DEF SnapshotInv, WriterIsUpToDate
<1> QED BY <1>1, UpToDate, PTL

\* The workers together implement the serial workflow: what is true of every behaviour of
\* PracticeWorkflow is true of the concurrent services.
THEOREM ConcurrentImplementsWorkflow == ConcurrentSpec => Serialisable
<1>1. ConcurrentInit => Init
  BY DEF ConcurrentInit
<1>2. SnapshotInv /\ [ConcurrentNext]_concurrentVars => [Next]_vars
  <2> SUFFICES ASSUME SnapshotInv, [ConcurrentNext]_concurrentVars PROVE [Next]_vars
    OBVIOUS
  <2>1. CASE ConcurrentNext
    BY <2>1, CommitIsServed, OtherStepsKeepSnapshots DEF ConcurrentNext
  <2>2. CASE UNCHANGED concurrentVars
    BY <2>2 DEF concurrentVars, vars
  <2> QED BY <2>1, <2>2
<1> QED BY <1>1, <1>2, UpToDate, PTL DEF ConcurrentSpec, Serialisable, Spec

\* Concurrent requests never leave two current practices, an untrue review, a credit that
\* cannot be recomputed, two first records or a repetition number given twice.
THEOREM ConcurrentPracticesAddUp ==
    ConcurrentSpec => [](/\ OneCurrentPractice /\ ReviewsStayTrue /\ CreditMatchesEvidence
                         /\ OneFirstRecord /\ RepetitionsAreNumbered)
<1>1. IInv => /\ OneCurrentPractice /\ ReviewsStayTrue /\ CreditMatchesEvidence
              /\ OneFirstRecord /\ RepetitionsAreNumbered
  BY DEF IInv
<1> QED BY <1>1, Invariance, ConcurrentImplementsWorkflow, PTL DEF Serialisable
=============================================================================

