--------------------- MODULE CompositeScoreStateProofs ---------------------
(***************************************************************************)
(* What holds of the composite score ledger for any number of runs,        *)
(* sprints and competencies and any set of credits, and that it keeps the  *)
(* promise of CreditLedger.                                                *)
(***************************************************************************)
EXTENDS CompositeScoreState, SequenceTheorems, TLAPS

-----------------------------------------------------------------------------
(* The operators the service is built from. *)

\* The largest member of a non-empty set of levels is a level.
LEMMA LargestIsLevel ==
    ASSUME NEW S \in SUBSET Level, S # {}
    PROVE  /\ Largest(S) \in S
           /\ \A x \in S : x =< Largest(S)
  <1>1. \E m \in S : \A x \in S : x =< m
    BY LedgerAssumption
  <1> QED
    BY <1>1 DEF Largest

\* The payload computed from any set of events is a payload.
LEMMA DesiredType ==
    ASSUME NEW E \in [Sprint -> Level], NEW ids \in SUBSET Sprint
    PROVE  Desired(E, ids) \in State
  <1>1. ASSUME NEW c \in Competency
        PROVE  Largest({0} \cup {E[s] : s \in {t \in ids : CompetencyOf[t] = c}}) \in Level
    <2> DEFINE S == {0} \cup {E[s] : s \in {t \in ids : CompetencyOf[t] = c}}
    <2>1. S \in SUBSET Level /\ S # {}
      BY DEF Level
    <2> HIDE DEF S
    <2>2. Largest(S) \in S
      BY <2>1, LargestIsLevel
    <2> QED
      BY <2>1, <2>2 DEF S
  <1> QED
    BY <1>1 DEF Desired, State

LEMMA RowForType ==
    ASSUME NEW E \in [Sprint -> Level], NEW ids \in SUBSET Sprint
    PROVE  RowFor(E, ids) \in StateRow
  BY DesiredType DEF RowFor, StateRow

\* A later write gives the row its contents and leaves user and versions alone.
LEMMA WrittenFacts ==
    ASSUME NEW E \in [Sprint -> Level], NEW ids \in SUBSET Sprint, NEW w \in StateRow
    PROVE  /\ Written(w, E, ids) \in StateRow
           /\ Written(w, E, ids).state = Desired(E, ids)
           /\ Written(w, E, ids).identity = w.identity
           /\ w.identity = "own" => Written(w, E, ids) = RowFor(E, ids)
  <1>1. RowFor(E, ids) \in StateRow
    BY RowForType
  <1>2. w.identity \in {"own", "foreign"}
    BY DEF StateRow
  <1> QED
    BY <1>1, <1>2 DEF Written, RowFor, StateRow

LEMMA SnapshotOfType ==
    ASSUME NEW E \in [Sprint -> Level], NEW ids \in SUBSET Sprint,
           NEW op \in Operation, NEW s \in Sprint \cup {NoSprint},
           NEW before \in State \cup {NoState}
    PROVE  SnapshotOf(op, s, before, E, ids) \in Snapshot
  BY DesiredType DEF SnapshotOf, Snapshot

LEMMA NoRowType == NoRow \in StateRow
  BY DEF NoRow, StateRow

\* A working copy of the right type makes an open transaction of the right type.
LEMMA WorkType ==
    ASSUME TypeOK, txn # Idle,
           NEW h \in Seq(Snapshot), NEW w \in StateRow,
           NEW phase \in {"begun", "initialized", "synchronized", "verified"},
           Work(h, w, phase)
    PROVE  TypeOK'
  <1>1. txn \in Transaction
    BY DEF TypeOK
  <1>2. txn' \in Transaction
    BY <1>1 DEF Work, Transaction
  <1> QED
    BY <1>2 DEF Work, TypeOK

LEMMA BeginType ==
    ASSUME TypeOK, NEW call \in {"synchronize", "closeout", "reverse"},
           NEW r \in Run, NEW s \in Sprint \cup {NoSprint}, NEW E \in [Sprint -> Level],
           Begin(call, r, s, E)
    PROVE  TypeOK'
  <1>1. txn' \in Transaction
    BY DEF Begin, TypeOK, Transaction
  <1> QED
    BY <1>1 DEF Begin, TypeOK

-----------------------------------------------------------------------------
\* Every step preserves the type invariant.
LEMMA TypeStep ==
    ASSUME TypeOK, [Next]_vars
    PROVE  TypeOK'
  <1>0. ASSUME txn # Idle
        PROVE  /\ txn \in Transaction
               /\ txn.run \in Run /\ txn.sprint \in Sprint \cup {NoSprint}
               /\ txn.event \in [Sprint -> Level]
               /\ txn.history \in Seq(Snapshot) /\ txn.row \in StateRow
               /\ txn.row.state \in State \cup {NoState}
    BY <1>0 DEF TypeOK, Transaction, StateRow
  <1>i. Idle.phase = "idle"
    BY DEF Idle
  <1>1. ASSUME NEW r \in Run, Synchronize(r)
        PROVE  TypeOK'
    BY <1>1, BeginType DEF Synchronize, TypeOK
  <1>2. ASSUME NEW r \in Run, Damage(r)
        PROVE  TypeOK'
    <2>1. row \in [Run -> StateRow]
      BY DEF TypeOK
    <2>2. \A st \in State : [row[r] EXCEPT !.state = st] \in StateRow
      BY <2>1 DEF StateRow
    <2>3. \A st \in State : [row[r] EXCEPT !.stateHash = st] \in StateRow
      BY <2>1 DEF StateRow
    <2>4. \A ids \in SUBSET Sprint : [row[r] EXCEPT !.active = ids] \in StateRow
      BY <2>1 DEF StateRow
    <2>5. \A id \in {"own", "foreign"} : [row[r] EXCEPT !.identity = id] \in StateRow
      BY <2>1 DEF StateRow
    <2>6. \E new \in StateRow : row' = [row EXCEPT ![r] = new]
      <3>1. CASE Edit(r)
        BY <2>1, <2>2, <2>3, <2>4, <2>5, <3>1 DEF Edit
      <3>2. CASE Delete(r)
        BY <3>2, NoRowType DEF Delete
      <3>3. CASE PutBack(r)
        <4>1. event \in [Sprint -> Level] /\ Active(event, r, history[r]) \in SUBSET Sprint
          BY DEF TypeOK, Active, Recorded
        <4> QED
          BY <3>3, <4>1, RowForType DEF PutBack
      <3> QED
        BY <1>2, <3>1, <3>2, <3>3 DEF Damage
    <2>7. row' \in [Run -> StateRow]
      BY <2>1, <2>6
    <2> QED
      BY <1>2, <2>7 DEF Damage, TypeOK
  <1>3. ASSUME NEW s \in Sprint, NEW credit \in Credit, CreateCompletionCredit(s, credit)
        PROVE  TypeOK'
    <2> DEFINE E == IF event[s] = 0 THEN [event EXCEPT ![s] = credit] ELSE event
    <2>1. E \in [Sprint -> Level] /\ RunOf[s] \in Run
      BY LedgerAssumption DEF TypeOK, Level
    <2>2. Begin("closeout", RunOf[s], s, E)
      BY <1>3 DEF CreateCompletionCredit
    <2> HIDE DEF E
    <2> QED
      BY <2>1, <2>2, BeginType
  <1>4. ASSUME NEW s \in Sprint, ReverseCompletionCredit(s)
        PROVE  TypeOK'
    <2>1. event \in [Sprint -> Level] /\ RunOf[s] \in Run
      BY LedgerAssumption DEF TypeOK
    <2>2. Begin("reverse", RunOf[s], s, event)
      BY <1>4 DEF ReverseCompletionCredit
    <2> QED
      BY <2>1, <2>2, BeginType
  <1>5. CASE Initialize
    <2>0. txn # Idle
      BY <1>5, <1>i DEF Initialize
    <2>1. CASE Abort
      BY <2>1 DEF Abort, TypeOK
    <2>2. CASE Work(txn.history, txn.row, "initialized")
      BY <1>0, <2>0, <2>2, WorkType
    <2>3. CASE Work(Append(txn.history,
                           SnapshotOf("initialize", NoSprint, NoState, txn.event, {})),
                    RowFor(txn.event, {}), "initialized")
      <3>1. SnapshotOf("initialize", NoSprint, NoState, txn.event, {}) \in Snapshot
        BY <1>0, <2>0, SnapshotOfType DEF Operation
      <3>2. RowFor(txn.event, {}) \in StateRow
        BY <1>0, <2>0, RowForType
      <3>3. Append(txn.history, SnapshotOf("initialize", NoSprint, NoState, txn.event, {}))
              \in Seq(Snapshot)
        BY <1>0, <2>0, <3>1, AppendProperties
      <3> QED
        BY <2>0, <2>3, <3>2, <3>3, WorkType
    <2> QED
      BY <1>5, <2>1, <2>2, <2>3 DEF Initialize
  <1>6. CASE ProcessEvent
    <2>0. txn # Idle
      BY <1>6, <1>i DEF ProcessEvent
    <2> DEFINE ids(s) == Active(txn.event, txn.run, txn.history) \cup {s}
               snap(s) == SnapshotOf("process", s, txn.row.state, txn.event, ids(s))
    <2>1. PICK s \in Pending : Work(Append(txn.history, snap(s)),
                                    Written(txn.row, txn.event, ids(s)), "initialized")
      BY <1>6 DEF ProcessEvent
    <2>2. s \in Sprint /\ ids(s) \in SUBSET Sprint
      BY DEF Pending, Recorded, Active
    <2> HIDE DEF ids
    <2>3. snap(s) \in Snapshot
      BY <1>0, <2>0, <2>2, SnapshotOfType DEF Operation
    <2> HIDE DEF snap
    <2>4. Append(txn.history, snap(s)) \in Seq(Snapshot)
      BY <1>0, <2>0, <2>3, AppendProperties
    <2>5. Written(txn.row, txn.event, ids(s)) \in StateRow
      BY <1>0, <2>0, <2>2, WrittenFacts
    <2> QED
      BY <2>0, <2>1, <2>4, <2>5, WorkType
  <1>7. CASE Repair
    <2>0. txn # Idle
      BY <1>7, <1>i DEF Repair
    <2> DEFINE ids == Active(txn.event, txn.run, txn.history)
               snap == SnapshotOf("rebuild", NoSprint, txn.row.state, txn.event, ids)
    <2>1. \/ Work(txn.history, txn.row, "synchronized")
          \/ Work(Append(txn.history, snap), Written(txn.row, txn.event, ids), "synchronized")
      BY <1>7 DEF Repair
    <2>2. ids \in SUBSET Sprint
      BY DEF Recorded, Active
    <2> HIDE DEF ids
    <2>3. snap \in Snapshot
      BY <1>0, <2>0, <2>2, SnapshotOfType DEF Operation
    <2> HIDE DEF snap
    <2>4. Append(txn.history, snap) \in Seq(Snapshot)
      BY <1>0, <2>0, <2>3, AppendProperties
    <2>5. Written(txn.row, txn.event, ids) \in StateRow
      BY <1>0, <2>0, <2>2, WrittenFacts
    <2> QED
      BY <1>0, <2>0, <2>1, <2>4, <2>5, WorkType
  <1>8. CASE Verify
    <2>0. txn # Idle
      BY <1>8, <1>i DEF Verify
    <2>1. CASE Abort
      BY <2>1 DEF Abort, TypeOK
    <2>2. CASE Work(txn.history, txn.row, "verified")
      BY <1>0, <2>0, <2>2, WorkType
    <2> QED
      BY <1>8, <2>1, <2>2 DEF Verify
  <1>9. CASE Reverse
    <2>0. txn # Idle
      BY <1>9, <1>i DEF Reverse
    <2> DEFINE ids == Active(txn.event, txn.run, txn.history) \ {txn.sprint}
               snap == SnapshotOf("reverse", txn.sprint, txn.row.state, txn.event, ids)
    <2>1. Work(Append(txn.history, snap), Written(txn.row, txn.event, ids), "synchronized")
      BY <1>9 DEF Reverse
    <2>2. ids \in SUBSET Sprint
      BY DEF Recorded, Active
    <2> HIDE DEF ids
    <2>3. snap \in Snapshot
      BY <1>0, <2>0, <2>2, SnapshotOfType DEF Operation
    <2> HIDE DEF snap
    <2>4. Append(txn.history, snap) \in Seq(Snapshot)
      BY <1>0, <2>0, <2>3, AppendProperties
    <2>5. Written(txn.row, txn.event, ids) \in StateRow
      BY <1>0, <2>0, <2>2, WrittenFacts
    <2> QED
      BY <2>0, <2>1, <2>4, <2>5, WorkType
  <1>10. CASE Commit
    <2>0. txn # Idle
      BY <1>10, <1>i DEF Commit
    <2> QED
      BY <1>0, <1>10, <2>0 DEF Commit, TypeOK
  <1>11. CASE Crash
    BY <1>11 DEF Crash, Abort, TypeOK
  <1>12. CASE UNCHANGED vars
    BY <1>12 DEF vars, TypeOK
  <1> QED
    BY <1>1, <1>2, <1>3, <1>4, <1>5, <1>6, <1>7, <1>8, <1>9, <1>10, <1>11, <1>12 DEF Next, Step

\* Type correctness of the tables and of the open transaction.
THEOREM TypeCorrect == Spec => []TypeOK
  <1>1. Init => TypeOK
    BY NoRowType, EmptySeq DEF Init, TypeOK, Level
  <1>2. TypeOK /\ [Next]_vars => TypeOK'
    BY TypeStep
  <1> QED
    BY <1>1, <1>2, PTL DEF Spec

-----------------------------------------------------------------------------
(* Replaying a history. *)

\* The payload depends only on the credits of the events it is computed from.
LEMMA DesiredFrame ==
    ASSUME NEW E, NEW F, NEW ids, \A s \in ids : E[s] = F[s]
    PROVE  Desired(E, ids) = Desired(F, ids)
  <1>1. ASSUME NEW c \in Competency
        PROVE  {E[s] : s \in {t \in ids : CompetencyOf[t] = c}}
                 = {F[s] : s \in {t \in ids : CompetencyOf[t] = c}}
    OBVIOUS
  <1> QED
    BY <1>1 DEF Desired

\* Recording further events does not disturb a history that replays: it only depends on the
\* events it has processed.
LEMMA ReplaysFrame ==
    ASSUME NEW E, NEW F, NEW r, NEW h, Replays(E, r, h),
           \A s \in Recorded(E, r) : F[s] = E[s]
    PROVE  Replays(F, r, h)
  <1>1. Recorded(E, r) \subseteq Recorded(F, r)
    BY DEF Recorded
  <1>2. ASSUME NEW i \in 1 .. Len(h), NEW n \in {i, i - 1}
        PROVE  ActiveAfter(h, n) \subseteq Recorded(E, r)
    <2>1. \A j \in 1 .. n : j \in 1 .. Len(h)
      OBVIOUS
    <2> QED
      BY <2>1 DEF Replays, ActiveAfter, Touched
  <1>3. ASSUME NEW i \in 1 .. Len(h)
        PROVE  /\ Recorded(F, r) \cap ActiveAfter(h, i) = Recorded(E, r) \cap ActiveAfter(h, i)
               /\ Desired(E, h[i].active) = Desired(F, h[i].active)
    <2>1. Recorded(F, r) \cap ActiveAfter(h, i) = Recorded(E, r) \cap ActiveAfter(h, i)
      BY <1>1, <1>2
    <2>2. \A s \in h[i].active : s \in Recorded(E, r)
      BY DEF Replays
    <2> QED
      BY <2>1, <2>2, DesiredFrame
  <1> QED
    BY <1>1, <1>3 DEF Replays

\* What appending a snapshot does to the events processed or reversed so far.
LEMMA TouchedAppend ==
    ASSUME NEW h \in Seq(Snapshot), NEW x \in Snapshot, NEW op
    PROVE  /\ \A n \in 0 .. Len(h) : Touched(Append(h, x), n, op) = Touched(h, n, op)
           /\ Touched(Append(h, x), Len(h) + 1, op)
                = Touched(h, Len(h), op) \cup {s \in Sprint : x.op = op /\ x.sprint = s}
  <1>1. /\ Len(Append(h, x)) = Len(h) + 1 /\ Len(h) \in Nat
        /\ \A i \in 1 .. Len(h) : Append(h, x)[i] = h[i]
        /\ Append(h, x)[Len(h) + 1] = x
    BY AppendProperties, LenProperties
  <1>2. \A n \in 0 .. Len(h) : \A i \in 1 .. n : Append(h, x)[i] = h[i]
    BY <1>1
  <1>3. \A i \in 1 .. Len(h) + 1 : i \in 1 .. Len(h) \/ i = Len(h) + 1
    BY <1>1
  <1>4. Len(h) + 1 \in 1 .. Len(h) + 1 /\ \A i \in 1 .. Len(h) : i \in 1 .. Len(h) + 1
    BY <1>1
  <1>5. ASSUME NEW n \in 0 .. Len(h)
        PROVE  Touched(Append(h, x), n, op) = Touched(h, n, op)
    BY <1>2 DEF Touched
  <1>6. Touched(Append(h, x), Len(h) + 1, op)
          = Touched(h, Len(h), op) \cup {s \in Sprint : x.op = op /\ x.sprint = s}
    BY <1>1, <1>3, <1>4 DEF Touched
  <1> QED
    BY <1>5, <1>6

\* Only processed events are ever reversed.
LEMMA ReversedWasProcessed ==
    ASSUME NEW E, NEW r, NEW h \in Seq(Snapshot), Replays(E, r, h)
    PROVE  Reversed(h) \subseteq Processed(h) /\ Processed(h) \subseteq Recorded(E, r)
  <1>1. Len(h) \in Nat
    BY LenProperties
  <1>2. ASSUME NEW i \in 1 .. Len(h)
        PROVE  Touched(h, i - 1, "process") \subseteq Processed(h)
    <2>1. \A j \in 1 .. i - 1 : j \in 1 .. Len(h)
      BY <1>1
    <2> QED
      BY <2>1 DEF Touched, Processed
  <1>3. Reversed(h) \subseteq Processed(h)
    BY <1>2 DEF Replays, Reversed, Touched, ActiveAfter
  <1>4. Processed(h) \subseteq Recorded(E, r)
    BY DEF Replays, Processed, Touched
  <1> QED
    BY <1>3, <1>4

\* A history that replays still does after a snapshot that continues it.
LEMMA ReplaysAppend ==
    ASSUME NEW E, NEW r, NEW h \in Seq(Snapshot), NEW x \in Snapshot,
           Replays(E, r, h),
           x.op # "initialize",
           x.op # "rebuild" => x.before = h[Len(h)].after,
           x.op = "process" => x.sprint \in Recorded(E, r) \ ActiveAfter(h, Len(h)),
           x.op = "reverse" => x.sprint \in ActiveAfter(h, Len(h)),
           x.active = Recorded(E, r) \cap ActiveAfter(Append(h, x), Len(h) + 1),
           x.after = Desired(E, x.active)
    PROVE  Replays(E, r, Append(h, x))
  <1> DEFINE g == Append(h, x)
  <1>1. /\ Len(g) = Len(h) + 1 /\ Len(h) \in Nat /\ Len(h) > 0
        /\ \A i \in 1 .. Len(h) : g[i] = h[i]
        /\ g[Len(h) + 1] = x
    BY AppendProperties, LenProperties DEF Replays
  <1>2. \A n \in 0 .. Len(h) : ActiveAfter(g, n) = ActiveAfter(h, n)
    <2>1. \A n \in 0 .. Len(h), op \in Operation : Touched(g, n, op) = Touched(h, n, op)
      BY TouchedAppend
    <2>2. "process" \in Operation /\ "reverse" \in Operation
      BY DEF Operation
    <2> HIDE DEF g
    <2> QED
      BY <2>1, <2>2 DEF ActiveAfter
  <1> HIDE DEF g
  <1>3. Len(g) > 0 /\ g[1].op = "initialize"
    BY <1>1 DEF Replays
  <1>4. ASSUME NEW i \in 1 .. Len(h)
        PROVE  /\ g[i].op # "rebuild" /\ i > 1 => g[i].before = g[i-1].after
               /\ g[i].op = "initialize" => i = 1 /\ g[i].before = NoState
               /\ g[i].op = "process" => g[i].sprint \in Recorded(E, r) \ ActiveAfter(g, i - 1)
               /\ g[i].op = "reverse" => g[i].sprint \in ActiveAfter(g, i - 1)
               /\ g[i].active = Recorded(E, r) \cap ActiveAfter(g, i)
               /\ g[i].after = Desired(E, g[i].active)
    <2>1. g[i] = h[i] /\ (i > 1 => g[i-1] = h[i-1])
      BY <1>1
    <2>2. ActiveAfter(g, i) = ActiveAfter(h, i) /\ ActiveAfter(g, i - 1) = ActiveAfter(h, i - 1)
      BY <1>1, <1>2
    <2> QED
      BY <2>1, <2>2 DEF Replays
  <1>5. /\ x.op # "rebuild" => x.before = g[Len(h)].after
        /\ x.op = "process" => x.sprint \in Recorded(E, r) \ ActiveAfter(g, Len(h))
        /\ x.op = "reverse" => x.sprint \in ActiveAfter(g, Len(h))
        /\ x.active = Recorded(E, r) \cap ActiveAfter(g, Len(h) + 1)
    BY <1>1, <1>2 DEF g
  <1>6. \A i \in 1 .. Len(g) : i \in 1 .. Len(h) \/ (i = Len(h) + 1 /\ i - 1 = Len(h))
    BY <1>1
  <1> QED
    BY <1>1, <1>3, <1>4, <1>5, <1>6 DEF Replays, g

-----------------------------------------------------------------------------
(***************************************************************************)
(* The inductive invariant.  The committed tables satisfy the audit        *)
(* properties; an open transaction has added at most the event of its own  *)
(* sprint and has only appended to the history; and if it adds no event,   *)
(* or found an intact payload, and the row is one that can be restored,    *)
(* each phase leaves what the next one needs, so that the final            *)
(* verification succeeds.                                                  *)
(***************************************************************************)
NoEarlyRow == \A r \in Run : history[r] = <<>> => row[r] = NoRow

CallInv ==
    txn # Idle =>
      /\ \A s \in Sprint : txn.event[s] # event[s] =>
            event[s] = 0 /\ RunOf[s] = txn.run /\ txn.sprint = s
      /\ txn.call = "reverse" => txn.event = event /\ txn.sprint \in Recorded(event, txn.run)
      /\ Len(history[txn.run]) =< Len(txn.history)
      /\ \A i \in 1 .. Len(history[txn.run]) : txn.history[i] = history[txn.run][i]
      /\ txn.phase = "begun" => txn.history = history[txn.run] /\ txn.row = row[txn.run]
      /\ txn.phase # "begun" => (txn.row.identity = "own" <=> Repairable(txn.run))
      /\ txn.phase = "verified" => Verified(txn.event, txn.run, txn.history, txn.row)

Sound == Repairable(txn.run) /\ (txn.event = event \/ PayloadIntact(txn.run))

SoundInv ==
    txn # Idle /\ Sound =>
      /\ txn.phase = "initialized" =>
            /\ Replays(txn.event, txn.run, txn.history)
            /\ Pending = {} \/ txn.row.state = txn.history[Len(txn.history)].after
      /\ txn.phase = "synchronized" => Verified(txn.event, txn.run, txn.history, txn.row)

IInv == TypeOK /\ HistoryReplays /\ EveryEventProcessed /\ NoEarlyRow /\ CallInv /\ SoundInv

\* What the type invariant says of an open transaction.
LEMMA OpenTransaction ==
    ASSUME TypeOK, txn.phase # "idle"
    PROVE  /\ txn # Idle /\ txn \in Transaction
           /\ txn.run \in Run /\ txn.sprint \in Sprint \cup {NoSprint}
           /\ txn.event \in [Sprint -> Level]
           /\ txn.history \in Seq(Snapshot) /\ Len(txn.history) \in Nat
           /\ txn.row \in StateRow /\ txn.row.state \in State \cup {NoState}
           /\ history[txn.run] \in Seq(Snapshot) /\ row[txn.run] \in StateRow
           /\ Len(history[txn.run]) \in Nat
  <1>1. Idle.phase = "idle"
    BY DEF Idle
  <1>2. txn \in Transaction
    BY <1>1 DEF TypeOK
  <1>3. txn.run \in Run /\ txn.history \in Seq(Snapshot) /\ txn.row \in StateRow
    BY <1>2 DEF Transaction
  <1>4. history[txn.run] \in Seq(Snapshot) /\ row[txn.run] \in StateRow
    BY <1>3 DEF TypeOK
  <1> QED
    BY <1>1, <1>2, <1>3, <1>4, LenProperties DEF Transaction, StateRow

\* A step of the open transaction that appends at most one snapshot, and is not the
\* verification, keeps what is known of the tables and of the call.
LEMMA WorkKeepsCall ==
    ASSUME IInv, TypeOK', txn.phase # "idle", NEW h \in Seq(Snapshot), NEW w,
           NEW phase \in {"initialized", "synchronized", "verified"},
           Work(h, w, phase),
           h = txn.history \/ \E x \in Snapshot : h = Append(txn.history, x),
           w.identity = "own" <=> Repairable(txn.run),
           phase = "verified" => Verified(txn.event, txn.run, h, w)
    PROVE  /\ HistoryReplays' /\ EveryEventProcessed' /\ NoEarlyRow' /\ CallInv'
           /\ txn' # Idle
           /\ txn'.run = txn.run /\ txn'.event = txn.event /\ txn'.history = h
           /\ txn'.row = w /\ txn'.phase = phase /\ Sound' = Sound
  <1>1. /\ txn \in Transaction /\ txn # Idle
        /\ txn.history \in Seq(Snapshot) /\ Len(txn.history) \in Nat
        /\ Len(history[txn.run]) \in Nat
    BY OpenTransaction DEF IInv
  <1>2. /\ txn' = [txn EXCEPT !.history = h, !.row = w, !.phase = phase]
        /\ event' = event /\ history' = history /\ row' = row
    BY DEF Work
  <1>3. /\ txn'.run = txn.run /\ txn'.event = txn.event /\ txn'.history = h
        /\ txn'.row = w /\ txn'.phase = phase
        /\ txn'.call = txn.call /\ txn'.sprint = txn.sprint
    BY <1>1, <1>2 DEF Transaction
  <1>4. txn' # Idle
    BY <1>3 DEF Idle
  <1>5. /\ Len(txn.history) =< Len(h)
        /\ \A i \in 1 .. Len(txn.history) : h[i] = txn.history[i]
    <2>1. CASE h = txn.history
      BY <1>1, <2>1
    <2>2. ASSUME NEW x \in Snapshot, h = Append(txn.history, x)
          PROVE  /\ Len(h) = Len(txn.history) + 1
                 /\ \A i \in 1 .. Len(txn.history) : h[i] = txn.history[i]
      BY <1>1, <2>2, AppendProperties
    <2> QED
      BY <1>1, <2>1, <2>2
  <1>6. CallInv'
    <2>1. /\ Len(history[txn.run]) =< Len(txn.history)
          /\ \A i \in 1 .. Len(history[txn.run]) : txn.history[i] = history[txn.run][i]
      BY <1>1 DEF IInv, CallInv
    <2>2. /\ Len(history[txn.run]) =< Len(h)
          /\ \A i \in 1 .. Len(history[txn.run]) : h[i] = history[txn.run][i]
      BY <1>1, <1>5, <2>1, LenProperties
    <2> QED
      BY <1>1, <1>2, <1>3, <1>4, <2>2 DEF IInv, CallInv, Repairable
  <1>7. HistoryReplays' /\ EveryEventProcessed' /\ NoEarlyRow'
    BY <1>2 DEF IInv, HistoryReplays, EveryEventProcessed, NoEarlyRow
  <1>8. Sound' = Sound
    BY <1>2, <1>3 DEF Sound, PayloadIntact, Repairable
  <1> QED
    BY <1>3, <1>4, <1>6, <1>7, <1>8

\* Dropping the open transaction keeps what is known of the tables.
LEMMA AbortKeeps ==
    ASSUME IInv, Abort
    PROVE  IInv'
  <1>1. TypeOK'
    BY DEF IInv, TypeOK, Abort
  <1>2. HistoryReplays' /\ EveryEventProcessed' /\ NoEarlyRow'
    BY DEF IInv, HistoryReplays, EveryEventProcessed, NoEarlyRow, Abort
  <1>3. CallInv' /\ SoundInv'
    BY DEF CallInv, SoundInv, Abort
  <1> QED
    BY <1>1, <1>2, <1>3 DEF IInv

\* Opening a transaction: nothing is appended yet.
LEMMA BeginKeeps ==
    ASSUME IInv, TypeOK', NEW call, NEW r \in Run, NEW t, NEW E,
           Begin(call, r, t, E),
           \A s \in Sprint : E[s] # event[s] => event[s] = 0 /\ RunOf[s] = r /\ t = s,
           call = "reverse" => E = event /\ t \in Recorded(event, r)
    PROVE  IInv'
  <1>1. /\ txn' = [phase |-> "begun", call |-> call, run |-> r, sprint |-> t,
                   event |-> E, history |-> history[r], row |-> row[r]]
        /\ event' = event /\ history' = history /\ row' = row
    BY DEF Begin
  <1>2. HistoryReplays' /\ EveryEventProcessed' /\ NoEarlyRow'
    BY <1>1 DEF IInv, HistoryReplays, EveryEventProcessed, NoEarlyRow
  <1>3. history[r] \in Seq(Snapshot) /\ Len(history[r]) \in Nat
    BY LenProperties DEF IInv, TypeOK
  <1>4. CallInv'
    BY <1>1, <1>3 DEF CallInv
  <1>5. SoundInv'
    BY <1>1 DEF SoundInv
  <1> QED
    BY <1>2, <1>4, <1>5 DEF IInv

\* A fresh history of one INITIALIZE snapshot replays.
LEMMA FirstSnapshotReplays ==
    ASSUME NEW E \in [Sprint -> Level], NEW r \in Run, NEW h,
           h = <<>>
    PROVE  LET g == Append(h, SnapshotOf("initialize", NoSprint, NoState, E, {}))
           IN  /\ Replays(E, r, g)
               /\ Processed(g) = {}
               /\ Len(g) = 1 /\ g[1].after = RowFor(E, {}).state
  <1> DEFINE x == SnapshotOf("initialize", NoSprint, NoState, E, {})
             g == Append(h, x)
  <1>1. x \in Snapshot
    <2>1. {} \in SUBSET Sprint /\ "initialize" \in Operation
      BY DEF Operation
    <2> QED
      BY <2>1, SnapshotOfType
  <1>2. Len(g) = 1 /\ g[1] = x
    BY <1>1, EmptySeq, AppendProperties
  <1>3. /\ x.op = "initialize" /\ x.before = NoState /\ x.active = {}
        /\ x.after = Desired(E, {}) /\ x.sprint = NoSprint
    BY DEF SnapshotOf
  <1> HIDE DEF x, g
  <1>4. \A n \in {0, 1} : Touched(g, n, "process") = {}
    BY <1>2, <1>3 DEF Touched
  <1>5. Replays(E, r, g)
    <2>1. \A i \in 1 .. Len(g) : i = 1
      BY <1>2
    <2>2. Recorded(E, r) \cap ActiveAfter(g, 1) = {}
      BY <1>4 DEF ActiveAfter
    <2>3. g[1].after = Desired(E, g[1].active) /\ g[1].active = {} /\ g[1].op = "initialize"
      BY <1>2, <1>3
    <2>4. \A i \in 1 .. Len(g) : ~(i > 1)
      BY <2>1
    <2>5. Len(g) > 0
      BY <1>2
    <2> QED
      BY <1>2, <1>3, <2>1, <2>2, <2>3, <2>4, <2>5 DEF Replays
  <1> QED
    BY <1>2, <1>3, <1>4, <1>5 DEF Processed, RowFor, x, g

LEMMA InitializeKeeps ==
    ASSUME IInv, TypeOK', Initialize
    PROVE  IInv'
  <1>0. txn.phase = "begun" /\ txn.phase # "idle"
    BY DEF Initialize
  <1>1. /\ txn # Idle /\ txn.run \in Run /\ txn.event \in [Sprint -> Level]
        /\ txn.history \in Seq(Snapshot) /\ txn.row.state \in State \cup {NoState}
        /\ history[txn.run] \in Seq(Snapshot) /\ Len(history[txn.run]) \in Nat
    BY <1>0, OpenTransaction DEF IInv
  <1>2. txn.history = history[txn.run] /\ txn.row = row[txn.run]
    BY <1>0, <1>1 DEF IInv, CallInv
  <1> DEFINE known == \E i \in DOMAIN txn.history : txn.history[i].op = "initialize"
  <1>3. known <=> txn.history # <<>>
    <2>1. CASE txn.history = <<>>
      BY <2>1
    <2>2. CASE txn.history # <<>>
      <3>1. Replays(event, txn.run, txn.history)
        BY <1>1, <1>2, <2>2 DEF IInv, HistoryReplays
      <3>2. 1 \in DOMAIN txn.history /\ txn.history[1].op = "initialize"
        BY <1>1, <3>1, LenProperties DEF Replays
      <3> QED
        BY <2>2, <3>2
    <2> QED
      BY <2>1, <2>2
  <1>4. \A s \in Recorded(event, txn.run) : txn.event[s] = event[s]
    BY <1>1 DEF IInv, CallInv, Recorded
  <1>5. CASE Abort
    BY <1>5, AbortKeeps
  <1>6. CASE Work(txn.history, txn.row, "initialized") /\ txn.row.state # NoState /\ known
    <2>0. txn.row.identity = "own" <=> Repairable(txn.run)
      BY <1>2, <1>3, <1>6 DEF Repairable
    <2>1. /\ HistoryReplays' /\ EveryEventProcessed' /\ NoEarlyRow' /\ CallInv'
          /\ txn'.run = txn.run /\ txn'.event = txn.event /\ txn'.history = txn.history
          /\ txn'.row = txn.row /\ txn'.phase = "initialized" /\ Sound' = Sound
      BY <1>0, <1>1, <1>6, <2>0, WorkKeepsCall
    <2>2. Replays(event, txn.run, txn.history)
      BY <1>1, <1>2, <1>3, <1>6 DEF IInv, HistoryReplays
    <2>3. Replays(txn.event, txn.run, txn.history)
      BY <1>4, <2>2, ReplaysFrame
    <2>4. ASSUME Sound
          PROVE  Pending = {} \/ txn.row.state = txn.history[Len(txn.history)].after
      <3>1. CASE txn.event = event
        BY <1>1, <1>2, <3>1 DEF IInv, EveryEventProcessed, Pending
      <3>2. CASE PayloadIntact(txn.run)
        BY <1>2, <1>3, <1>6, <3>2 DEF PayloadIntact
      <3> QED
        BY <2>4, <3>1, <3>2 DEF Sound
    <2>5. Pending' = Pending
      BY <2>1 DEF Pending
    <2>6. SoundInv'
      BY <2>1, <2>3, <2>4, <2>5 DEF SoundInv
    <2> QED
      BY <2>1, <2>6 DEF IInv
  <1>7. CASE /\ txn.row.state = NoState /\ ~known
             /\ Work(Append(txn.history,
                            SnapshotOf("initialize", NoSprint, NoState, txn.event, {})),
                     RowFor(txn.event, {}), "initialized")
    <2> DEFINE x == SnapshotOf("initialize", NoSprint, NoState, txn.event, {})
               g == Append(txn.history, x)
    <2>1. x \in Snapshot /\ g \in Seq(Snapshot)
      BY <1>1, SnapshotOfType, AppendProperties DEF Operation
    <2>0. RowFor(txn.event, {}).identity = "own" <=> Repairable(txn.run)
      BY <1>1, <1>2, <1>3, <1>7 DEF Repairable, RowFor, IInv, NoEarlyRow
    <2>2. /\ HistoryReplays' /\ EveryEventProcessed' /\ NoEarlyRow' /\ CallInv'
          /\ txn'.run = txn.run /\ txn'.event = txn.event /\ txn'.history = g
          /\ txn'.row = RowFor(txn.event, {}) /\ txn'.phase = "initialized"
      BY <1>0, <1>1, <1>7, <2>0, <2>1, WorkKeepsCall
    <2>3. /\ Replays(txn.event, txn.run, g)
          /\ Len(g) = 1 /\ g[1].after = RowFor(txn.event, {}).state
      BY <1>1, <1>3, <1>7, FirstSnapshotReplays
    <2> HIDE DEF x, g
    <2>4. SoundInv'
      BY <2>2, <2>3 DEF SoundInv
    <2> QED
      BY <2>2, <2>4 DEF IInv
  <1> QED
    BY <1>5, <1>6, <1>7 DEF Initialize

LEMMA ProcessKeeps ==
    ASSUME IInv, TypeOK', ProcessEvent
    PROVE  IInv'
  <1>0. txn.phase = "initialized" /\ txn.phase # "idle"
    BY DEF ProcessEvent
  <1>1. /\ txn # Idle /\ txn.run \in Run /\ txn.event \in [Sprint -> Level]
        /\ txn.history \in Seq(Snapshot) /\ txn.row.state \in State \cup {NoState}
        /\ Len(txn.history) \in Nat
    BY <1>0, OpenTransaction DEF IInv
  <1> DEFINE ids(s) == Active(txn.event, txn.run, txn.history) \cup {s}
             snap(s) == SnapshotOf("process", s, txn.row.state, txn.event, ids(s))
  <1>2. PICK s \in Pending : Work(Append(txn.history, snap(s)),
                                  Written(txn.row, txn.event, ids(s)), "initialized")
    BY DEF ProcessEvent
  <1>3. s \in Sprint /\ s \in Recorded(txn.event, txn.run) /\ s \notin Processed(txn.history)
    BY <1>2 DEF Pending, Recorded
  <1> DEFINE x == snap(s)
             g == Append(txn.history, x)
             now == ids(s)
  <1>4. now \in SUBSET Sprint /\ now = Active(txn.event, txn.run, txn.history) \cup {s}
    BY <1>3 DEF Active, Recorded
  <1>5. /\ x.op = "process" /\ x.sprint = s /\ x.before = txn.row.state
        /\ x.active = now /\ x.after = Desired(txn.event, now)
    BY DEF SnapshotOf
  <1>w. Work(g, Written(txn.row, txn.event, now), "initialized")
    BY <1>2
  <1>r. /\ Written(txn.row, txn.event, now).state = Desired(txn.event, now)
        /\ Written(txn.row, txn.event, now).identity = "own" <=> Repairable(txn.run)
    <2>1. txn.row \in StateRow /\ (txn.row.identity = "own" <=> Repairable(txn.run))
      BY <1>0, <1>1, OpenTransaction DEF IInv, CallInv
    <2> QED
      BY <1>1, <1>4, <2>1, WrittenFacts
  <1>s. x \in Snapshot
    BY <1>1, <1>3, <1>4, SnapshotOfType DEF Operation
  <1> HIDE DEF ids, now, snap, x
  <1>6. /\ g \in Seq(Snapshot) /\ Len(g) = Len(txn.history) + 1
        /\ g[Len(txn.history) + 1] = x
    BY <1>1, <1>s, AppendProperties
  <1>7. /\ HistoryReplays' /\ EveryEventProcessed' /\ NoEarlyRow' /\ CallInv'
        /\ txn'.run = txn.run /\ txn'.event = txn.event /\ txn'.history = g
        /\ txn'.row = Written(txn.row, txn.event, now) /\ txn'.phase = "initialized"
        /\ Sound' = Sound
    BY <1>0, <1>r, <1>w, <1>s, <1>6, WorkKeepsCall
  <1>8. ASSUME Sound
        PROVE  Replays(txn.event, txn.run, g)
    <2>1. /\ Replays(txn.event, txn.run, txn.history)
          /\ txn.row.state = txn.history[Len(txn.history)].after
      BY <1>0, <1>1, <1>2, <1>8 DEF IInv, SoundInv
    <2>2. Reversed(txn.history) \subseteq Processed(txn.history)
      BY <1>1, <2>1, ReversedWasProcessed
    <2>3. Touched(g, Len(txn.history) + 1, "process") = Processed(txn.history) \cup {s}
      BY <1>1, <1>3, <1>5, <1>s, TouchedAppend DEF Processed
    <2>4. Touched(g, Len(txn.history) + 1, "reverse") = Reversed(txn.history)
      <3>1. {t \in Sprint : x.op = "reverse" /\ x.sprint = t} = {}
        BY <1>5
      <3>2. Touched(g, Len(txn.history) + 1, "reverse")
              = Touched(txn.history, Len(txn.history), "reverse")
                  \cup {t \in Sprint : x.op = "reverse" /\ x.sprint = t}
        BY <1>1, <1>s, TouchedAppend
      <3> QED
        BY <3>1, <3>2 DEF Reversed
    <2>5. now = Recorded(txn.event, txn.run) \cap ActiveAfter(g, Len(txn.history) + 1)
      BY <1>3, <1>4, <2>2, <2>3, <2>4 DEF Active, ActiveAfter
    <2>6. s \notin ActiveAfter(txn.history, Len(txn.history))
      BY <1>3 DEF ActiveAfter, Processed
    <2> QED
      BY <1>1, <1>3, <1>5, <1>s, <2>1, <2>5, <2>6, ReplaysAppend
  <1>9. g[Len(g)].after = Written(txn.row, txn.event, now).state
    BY <1>1, <1>5, <1>6, <1>r
  <1> HIDE DEF g
  <1>10. SoundInv'
    BY <1>7, <1>8, <1>9 DEF SoundInv
  <1> QED
    BY <1>7, <1>10 DEF IInv

\* Without pending events a history that replays is verified with the row computed from it.
LEMMA CompleteIsVerified ==
    ASSUME NEW E \in [Sprint -> Level], NEW r, NEW h \in Seq(Snapshot), Replays(E, r, h),
           Recorded(E, r) \ Processed(h) = {}
    PROVE  Verified(E, r, h, RowFor(E, Active(E, r, h)))
  <1>1. Processed(h) = Recorded(E, r)
    BY ReversedWasProcessed
  <1>2. Active(E, r, h) \in SUBSET Sprint
    BY DEF Active, Recorded
  <1>3. RowFor(E, Active(E, r, h)).state # NoState
    BY <1>2, DesiredType, LedgerAssumption DEF RowFor
  <1> QED
    BY <1>1, <1>3 DEF Verified

LEMMA RepairKeeps ==
    ASSUME IInv, TypeOK', Repair
    PROVE  IInv'
  <1>0. txn.phase = "initialized" /\ txn.phase # "idle" /\ Pending = {}
    BY DEF Repair
  <1>1. /\ txn # Idle /\ txn.run \in Run /\ txn.event \in [Sprint -> Level]
        /\ txn.history \in Seq(Snapshot) /\ txn.row.state \in State \cup {NoState}
        /\ Len(txn.history) \in Nat
    BY <1>0, OpenTransaction DEF IInv
  <1> DEFINE now == Active(txn.event, txn.run, txn.history)
             x == SnapshotOf("rebuild", NoSprint, txn.row.state, txn.event, now)
             g == Append(txn.history, x)
  <1>2. now \in SUBSET Sprint
    BY DEF Active, Recorded
  <1>3. ASSUME Sound
        PROVE  Replays(txn.event, txn.run, txn.history)
    BY <1>0, <1>1, <1>3 DEF IInv, SoundInv
  <1>r. /\ txn.row \in StateRow /\ (txn.row.identity = "own" <=> Repairable(txn.run))
        /\ Written(txn.row, txn.event, now).identity = txn.row.identity
        /\ Sound => Written(txn.row, txn.event, now) = RowFor(txn.event, now)
    <2>1. txn.row \in StateRow /\ (txn.row.identity = "own" <=> Repairable(txn.run))
      BY <1>0, <1>1, OpenTransaction DEF IInv, CallInv
    <2> HIDE DEF now
    <2> QED
      BY <1>1, <1>2, <2>1, WrittenFacts DEF Sound
  <1>4. CASE /\ Work(txn.history, txn.row, "synchronized")
             /\ txn.row = Written(txn.row, txn.event, now)
    <2>1. /\ HistoryReplays' /\ EveryEventProcessed' /\ NoEarlyRow' /\ CallInv'
          /\ txn'.run = txn.run /\ txn'.event = txn.event /\ txn'.history = txn.history
          /\ txn'.row = txn.row /\ txn'.phase = "synchronized" /\ Sound' = Sound
      BY <1>0, <1>1, <1>4, <1>r, WorkKeepsCall
    <2>2. ASSUME Sound
          PROVE  Verified(txn.event, txn.run, txn.history, txn.row)
      <3>1. txn.row = RowFor(txn.event, now)
        BY <1>4, <1>r, <2>2
      <3> QED
        BY <1>0, <1>1, <1>3, <2>2, <3>1, CompleteIsVerified DEF Pending
    <2>3. SoundInv'
      BY <2>1, <2>2 DEF SoundInv
    <2> QED
      BY <2>1, <2>3 DEF IInv
  <1>5. CASE Work(g, Written(txn.row, txn.event, now), "synchronized")
    <2>1. /\ x.op = "rebuild" /\ x.sprint = NoSprint /\ x.active = now
          /\ x.after = Desired(txn.event, now)
      BY DEF SnapshotOf
    <2>2. x \in Snapshot
      BY <1>1, <1>2, SnapshotOfType DEF Operation
    <2> HIDE DEF x
    <2>3. g \in Seq(Snapshot) /\ Len(g) = Len(txn.history) + 1
      BY <1>1, <2>2, AppendProperties
    <2>4. /\ HistoryReplays' /\ EveryEventProcessed' /\ NoEarlyRow' /\ CallInv'
          /\ txn'.run = txn.run /\ txn'.event = txn.event /\ txn'.history = g
          /\ txn'.row = Written(txn.row, txn.event, now) /\ txn'.phase = "synchronized"
          /\ Sound' = Sound
      BY <1>0, <1>1, <1>5, <1>r, <2>2, <2>3, WorkKeepsCall
    <2>5. /\ Touched(g, Len(g), "process") = Processed(txn.history)
          /\ Touched(g, Len(g), "reverse") = Reversed(txn.history)
      <3>1. ASSUME NEW op \in {"process", "reverse"}
            PROVE  Touched(g, Len(g), op) = Touched(txn.history, Len(txn.history), op)
        <4>1. {t \in Sprint : x.op = op /\ x.sprint = t} = {}
          BY <2>1
        <4>2. Touched(g, Len(txn.history) + 1, op)
                = Touched(txn.history, Len(txn.history), op)
                    \cup {t \in Sprint : x.op = op /\ x.sprint = t}
          BY <1>1, <2>2, TouchedAppend
        <4> HIDE DEF g
        <4> QED
          BY <2>3, <4>1, <4>2
      <3> QED
        BY <3>1 DEF Processed, Reversed
    <2>6. Active(txn.event, txn.run, g) = now /\ Processed(g) = Processed(txn.history)
      BY <2>5 DEF Active, Processed, Reversed
    <2>7. ASSUME Sound
          PROVE  Verified(txn.event, txn.run, g, Written(txn.row, txn.event, now))
      <3>1. now = Recorded(txn.event, txn.run) \cap ActiveAfter(g, Len(txn.history) + 1)
        BY <2>3, <2>5 DEF ActiveAfter, Active
      <3>2. Replays(txn.event, txn.run, g)
        BY <1>1, <1>3, <2>1, <2>2, <2>7, <3>1, ReplaysAppend
      <3>3. Recorded(txn.event, txn.run) \ Processed(g) = {}
        BY <1>0, <2>6 DEF Pending
      <3> HIDE DEF g, now
      <3> QED
        BY <1>1, <1>r, <2>3, <2>6, <2>7, <3>2, <3>3, CompleteIsVerified
    <2> HIDE DEF g, now
    <2>8. SoundInv'
      BY <2>4, <2>7 DEF SoundInv
    <2> QED
      BY <2>4, <2>8 DEF IInv
  <1> QED
    BY <1>4, <1>5 DEF Repair

LEMMA VerifyKeeps ==
    ASSUME IInv, TypeOK', Verify
    PROVE  IInv'
  <1>0. txn.phase = "synchronized" /\ txn.phase # "idle"
    BY DEF Verify
  <1>1. txn # Idle /\ txn.history \in Seq(Snapshot)
    BY <1>0, OpenTransaction DEF IInv
  <1>2. CASE Abort
    BY <1>2, AbortKeeps
  <1>3. CASE /\ Verified(txn.event, txn.run, txn.history, txn.row)
             /\ Work(txn.history, txn.row, "verified")
    <2>0. txn.row.identity = "own" <=> Repairable(txn.run)
      BY <1>0, <1>1 DEF IInv, CallInv
    <2>1. /\ HistoryReplays' /\ EveryEventProcessed' /\ NoEarlyRow' /\ CallInv'
          /\ txn'.phase = "verified"
      BY <1>0, <1>1, <1>3, <2>0, WorkKeepsCall
    <2>2. SoundInv'
      BY <2>1 DEF SoundInv
    <2> QED
      BY <2>1, <2>2 DEF IInv
  <1> QED
    BY <1>2, <1>3 DEF Verify

LEMMA ReverseKeeps ==
    ASSUME IInv, TypeOK', Reverse
    PROVE  IInv'
  <1>0. /\ txn.phase = "verified" /\ txn.phase # "idle"
        /\ txn.call = "reverse" /\ txn.sprint \notin Reversed(txn.history)
    BY DEF Reverse, ReversalDue
  <1>1. /\ txn # Idle /\ txn.run \in Run /\ txn.event \in [Sprint -> Level]
        /\ txn.history \in Seq(Snapshot) /\ txn.row.state \in State \cup {NoState}
        /\ Len(txn.history) \in Nat /\ txn.sprint \in Sprint \cup {NoSprint}
    BY <1>0, OpenTransaction DEF IInv
  <1>2. /\ Verified(txn.event, txn.run, txn.history, txn.row)
        /\ txn.event = event /\ txn.sprint \in Recorded(event, txn.run)
    BY <1>0, <1>1 DEF IInv, CallInv
  <1>3. /\ Replays(txn.event, txn.run, txn.history)
        /\ Processed(txn.history) = Recorded(txn.event, txn.run)
        /\ txn.row = RowFor(txn.event, Active(txn.event, txn.run, txn.history))
    BY <1>2 DEF Verified
  <1> DEFINE now == Active(txn.event, txn.run, txn.history) \ {txn.sprint}
             x == SnapshotOf("reverse", txn.sprint, txn.row.state, txn.event, now)
             g == Append(txn.history, x)
  <1>4. now \in SUBSET Sprint
    BY DEF Active, Recorded
  <1>5. /\ x.op = "reverse" /\ x.sprint = txn.sprint /\ x.active = now
        /\ x.before = txn.row.state /\ x.after = Desired(txn.event, now)
    BY DEF SnapshotOf
  <1>6. x \in Snapshot
    BY <1>1, <1>4, SnapshotOfType DEF Operation
  <1>r. RowFor(txn.event, now).identity = "own" <=> Repairable(txn.run)
    BY <1>0, <1>1, <1>3 DEF IInv, CallInv, RowFor
  <1>7. Work(g, RowFor(txn.event, now), "synchronized")
    <2>1. txn.row \in StateRow /\ txn.row.identity = "own"
      BY <1>0, <1>3, OpenTransaction DEF IInv, RowFor
    <2>2. Work(g, Written(txn.row, txn.event, now), "synchronized")
      BY DEF Reverse
    <2> HIDE DEF g, x, now
    <2> QED
      BY <1>1, <1>4, <2>1, <2>2, WrittenFacts
  <1> HIDE DEF x
  <1>8. g \in Seq(Snapshot) /\ Len(g) = Len(txn.history) + 1
    BY <1>1, <1>6, AppendProperties
  <1>9. /\ HistoryReplays' /\ EveryEventProcessed' /\ NoEarlyRow' /\ CallInv'
        /\ txn'.run = txn.run /\ txn'.event = txn.event /\ txn'.history = g
        /\ txn'.row = RowFor(txn.event, now) /\ txn'.phase = "synchronized"
    BY <1>0, <1>1, <1>6, <1>7, <1>8, <1>r, WorkKeepsCall
  <1>10. /\ Touched(g, Len(g), "process") = Processed(txn.history)
         /\ Touched(g, Len(g), "reverse") = Reversed(txn.history) \cup {txn.sprint}
    <2>1. {t \in Sprint : x.op = "process" /\ x.sprint = t} = {}
      BY <1>5
    <2>2. {t \in Sprint : x.op = "reverse" /\ x.sprint = t} = {txn.sprint}
      BY <1>2, <1>5 DEF Recorded
    <2>3. \A op \in {"process", "reverse"} :
            Touched(g, Len(txn.history) + 1, op)
              = Touched(txn.history, Len(txn.history), op)
                  \cup {t \in Sprint : x.op = op /\ x.sprint = t}
      BY <1>1, <1>6, TouchedAppend
    <2>4. /\ Touched(g, Len(g), "process") = Touched(txn.history, Len(txn.history), "process")
          /\ Touched(g, Len(g), "reverse")
               = Touched(txn.history, Len(txn.history), "reverse") \cup {txn.sprint}
      <3> HIDE DEF g
      <3>1. /\ Touched(g, Len(g), "process") = Touched(txn.history, Len(txn.history), "process") \cup {}
            /\ Touched(g, Len(g), "reverse")
                 = Touched(txn.history, Len(txn.history), "reverse") \cup {txn.sprint}
        BY <1>8, <2>1, <2>2, <2>3, Zenon
      <3> QED
        BY <3>1
    <2> QED
      BY <2>4 DEF Processed, Reversed
  <1>11. now = Recorded(txn.event, txn.run) \cap ActiveAfter(g, Len(txn.history) + 1)
    BY <1>8, <1>10 DEF ActiveAfter, Active
  <1>12. txn.sprint \in ActiveAfter(txn.history, Len(txn.history))
    BY <1>0, <1>2, <1>3 DEF ActiveAfter, Processed, Reversed
  <1>13. x.before = txn.history[Len(txn.history)].after
    <2>1. Len(txn.history) \in 1 .. Len(txn.history)
      BY <1>1, <1>3 DEF Replays
    <2>2. txn.history[Len(txn.history)].active
            = Recorded(txn.event, txn.run) \cap ActiveAfter(txn.history, Len(txn.history))
      BY <1>3, <2>1 DEF Replays
    <2>3. txn.history[Len(txn.history)].active = Active(txn.event, txn.run, txn.history)
      BY <2>2 DEF Active, ActiveAfter, Processed, Reversed
    <2>4. txn.history[Len(txn.history)].after
            = Desired(txn.event, Active(txn.event, txn.run, txn.history))
      BY <1>3, <2>1, <2>3 DEF Replays
    <2> QED
      BY <1>3, <1>5, <2>4 DEF RowFor
  <1>14. Replays(txn.event, txn.run, g)
    BY <1>1, <1>3, <1>5, <1>6, <1>11, <1>12, <1>13, ReplaysAppend
  <1>15. /\ Active(txn.event, txn.run, g) = now
         /\ Recorded(txn.event, txn.run) \ Processed(g) = {}
    BY <1>3, <1>10 DEF Active, Processed, Reversed
  <1> HIDE DEF g, now
  <1>16. Verified(txn.event, txn.run, g, RowFor(txn.event, now))
    BY <1>1, <1>8, <1>14, <1>15, CompleteIsVerified
  <1>17. SoundInv'
    BY <1>9, <1>16 DEF SoundInv
  <1> QED
    BY <1>9, <1>17 DEF IInv

\* A commit publishes a verified history of its own run and leaves the other runs alone.
LEMMA CommitFacts ==
    ASSUME IInv, Commit
    PROVE  /\ txn.run \in Run /\ Verified(event', txn.run, history'[txn.run], row'[txn.run])
           /\ \A r \in Run \ {txn.run} : history'[r] = history[r] /\ row'[r] = row[r]
           /\ history'[txn.run] = txn.history /\ row'[txn.run] = txn.row /\ event' = txn.event
           /\ \A s \in Sprint : event'[s] # event[s] => event[s] = 0 /\ RunOf[s] = txn.run
  <1>0. txn.phase = "verified" /\ txn.phase # "idle"
    BY DEF Commit
  <1>1. txn # Idle /\ txn.run \in Run
    BY <1>0, OpenTransaction DEF IInv
  <1>2. Verified(txn.event, txn.run, txn.history, txn.row)
    BY <1>0, <1>1 DEF IInv, CallInv
  <1>3. /\ history'[txn.run] = txn.history /\ row'[txn.run] = txn.row
        /\ \A r \in Run \ {txn.run} : history'[r] = history[r] /\ row'[r] = row[r]
        /\ event' = txn.event
    BY <1>1 DEF Commit, IInv, TypeOK
  <1>4. \A s \in Sprint : event'[s] # event[s] => event[s] = 0 /\ RunOf[s] = txn.run
    BY <1>1, <1>3 DEF IInv, CallInv
  <1> QED
    BY <1>1, <1>2, <1>3, <1>4

LEMMA CommitKeeps ==
    ASSUME IInv, TypeOK', Commit
    PROVE  IInv'
  <1>1. ASSUME NEW r \in Run
        PROVE  /\ history'[r] # <<>> => Replays(event', r, history'[r])
               /\ Processed(history'[r]) = Recorded(event', r)
               /\ history'[r] = <<>> => row'[r] = NoRow
    <2>1. CASE r = txn.run
      <3>1. Verified(event', r, history'[r], row'[r])
        BY <2>1, CommitFacts
      <3>2. history'[r] # <<>>
        BY <3>1, EmptySeq DEF Verified, Replays
      <3> QED
        BY <3>1, <3>2 DEF Verified
    <2>2. CASE r # txn.run
      <3>1. /\ history'[r] = history[r] /\ row'[r] = row[r]
            /\ \A s \in Sprint : RunOf[s] = r => event'[s] = event[s]
        BY <2>2, CommitFacts
      <3>2. Recorded(event', r) = Recorded(event, r)
        BY <3>1 DEF Recorded
      <3>3. \A s \in Recorded(event, r) : event'[s] = event[s]
        BY <3>1 DEF Recorded
      <3>4. history[r] # <<>> => Replays(event', r, history[r])
        BY <3>3, ReplaysFrame DEF IInv, HistoryReplays
      <3> QED
        BY <3>1, <3>2, <3>4 DEF IInv, EveryEventProcessed, NoEarlyRow
    <2> QED
      BY <2>1, <2>2
  <1>2. HistoryReplays' /\ EveryEventProcessed' /\ NoEarlyRow'
    BY <1>1 DEF HistoryReplays, EveryEventProcessed, NoEarlyRow
  <1>3. CallInv' /\ SoundInv'
    BY DEF CallInv, SoundInv, Commit
  <1> QED
    BY <1>2, <1>3 DEF IInv

LEMMA DamageKeeps ==
    ASSUME IInv, TypeOK', NEW r \in Run, Damage(r)
    PROVE  IInv'
  <1>1. txn = Idle /\ txn' = txn /\ event' = event /\ history' = history
    BY DEF Damage
  <1>2. HistoryReplays' /\ EveryEventProcessed'
    BY <1>1 DEF IInv, HistoryReplays, EveryEventProcessed
  <1>3. NoEarlyRow'
    <2>1. \A q \in Run \ {r} : row'[q] = row[q]
      BY DEF Damage, Edit, Delete, PutBack, IInv, TypeOK
    <2> QED
      BY <1>1, <2>1 DEF Damage, IInv, NoEarlyRow
  <1>4. CallInv' /\ SoundInv'
    BY <1>1 DEF CallInv, SoundInv
  <1> QED
    BY <1>2, <1>3, <1>4 DEF IInv

-----------------------------------------------------------------------------
LEMMA InitEstablishes == Init => IInv
  <1> SUFFICES ASSUME Init
               PROVE  IInv
    OBVIOUS
  <1>1. TypeOK
    BY NoRowType, EmptySeq DEF Init, TypeOK, Level
  <1>2. /\ \A r \in Run : history[r] = <<>> /\ row[r] = NoRow
        /\ \A s \in Sprint : event[s] = 0
        /\ txn = Idle
    BY DEF Init
  <1>3. HistoryReplays
    BY <1>2 DEF HistoryReplays
  <1>4. EveryEventProcessed
    <2>1. ASSUME NEW r \in Run
          PROVE  Processed(history[r]) = Recorded(event, r)
      <3>1. Len(history[r]) = 0
        BY <1>2, EmptySeq
      <3>2. Processed(history[r]) = {}
        BY <3>1 DEF Processed, Touched
      <3> QED
        BY <1>2, <3>2 DEF Recorded
    <2> QED
      BY <2>1 DEF EveryEventProcessed
  <1>5. NoEarlyRow
    BY <1>2 DEF NoEarlyRow
  <1>6. CallInv /\ SoundInv
    BY <1>2 DEF CallInv, SoundInv
  <1> QED
    BY <1>1, <1>3, <1>4, <1>5, <1>6 DEF IInv

LEMMA StepPreserves ==
    ASSUME IInv, [Next]_vars
    PROVE  IInv'
  <1>0. TypeOK /\ TypeOK'
    BY TypeStep DEF IInv
  <1>1. ASSUME NEW r \in Run, Synchronize(r)
        PROVE  IInv'
    <2>1. Begin("synchronize", r, NoSprint, event)
      BY <1>1 DEF Synchronize
    <2> QED
      BY <1>0, <2>1, BeginKeeps
  <1>2. ASSUME NEW r \in Run, Damage(r)
        PROVE  IInv'
    BY <1>0, <1>2, DamageKeeps
  <1>3. ASSUME NEW s \in Sprint, NEW credit \in Credit, CreateCompletionCredit(s, credit)
        PROVE  IInv'
    <2> DEFINE E == IF event[s] = 0 THEN [event EXCEPT ![s] = credit] ELSE event
    <2>1. RunOf[s] \in Run /\ Begin("closeout", RunOf[s], s, E)
      BY <1>3, LedgerAssumption DEF CreateCompletionCredit
    <2>2. \A t \in Sprint : E[t] # event[t] => event[t] = 0 /\ RunOf[t] = RunOf[s] /\ s = t
      BY <1>0 DEF TypeOK
    <2> HIDE DEF E
    <2> QED
      BY <1>0, <2>1, <2>2, BeginKeeps
  <1>4. ASSUME NEW s \in Sprint, ReverseCompletionCredit(s)
        PROVE  IInv'
    <2>1. /\ RunOf[s] \in Run /\ Begin("reverse", RunOf[s], s, event)
          /\ s \in Recorded(event, RunOf[s])
      BY <1>4, LedgerAssumption DEF ReverseCompletionCredit, Recorded
    <2> QED
      BY <1>0, <2>1, BeginKeeps
  <1>5. CASE Initialize
    BY <1>0, <1>5, InitializeKeeps
  <1>6. CASE ProcessEvent
    BY <1>0, <1>6, ProcessKeeps
  <1>7. CASE Repair
    BY <1>0, <1>7, RepairKeeps
  <1>8. CASE Verify
    BY <1>0, <1>8, VerifyKeeps
  <1>9. CASE Reverse
    BY <1>0, <1>9, ReverseKeeps
  <1>10. CASE Commit
    BY <1>0, <1>10, CommitKeeps
  <1>11. CASE Crash
    BY <1>11, AbortKeeps DEF Crash
  <1>12. CASE UNCHANGED vars
    <2>1. event' = event /\ history' = history /\ row' = row /\ txn' = txn
      BY <1>12 DEF vars
    <2> QED
      BY <1>0, <2>1 DEF IInv, HistoryReplays, EveryEventProcessed, NoEarlyRow, CallInv, SoundInv,
                        Sound, PayloadIntact, Repairable, Pending
  <1> QED
    BY <1>1, <1>2, <1>3, <1>4, <1>5, <1>6, <1>7, <1>8, <1>9, <1>10, <1>11, <1>12
       DEF Next, Step

\* The inductive invariant holds of every reachable state.
THEOREM Invariance == Spec => []IInv
  <1>1. IInv /\ [Next]_vars => IInv'
    BY StepPreserves
  <1> QED
    BY <1>1, InitEstablishes, PTL DEF Spec

\* Whatever calls, crashes and damaged rows there were, every committed history replays.
THEOREM AuditTrailReplays == Spec => []HistoryReplays
  <1>1. IInv => HistoryReplays
    BY DEF IInv
  <1> QED
    BY <1>1, Invariance, PTL

\* No committed closeout event waits to be processed.
THEOREM NoEventWaits == Spec => []EveryEventProcessed
  <1>1. IInv => EveryEventProcessed
    BY DEF IInv
  <1> QED
    BY <1>1, Invariance, PTL

\* The final verification rejects nothing but a call for a row that was given another user or
\* version, and a closeout on top of a damaged payload.
THEOREM VerificationIsNotSpurious == Spec => []OnlyDamageIsRejected
  <1>1. IInv => OnlyDamageIsRejected
    <2>1. Idle.phase # "synchronized"
      BY DEF Idle
    <2> QED
      BY <2>1 DEF IInv, SoundInv, Sound, OnlyDamageIsRejected
  <1> QED
    BY <1>1, Invariance, PTL

\* The latest audited credit is the best of the closeouts that still stand.
THEOREM BestCreditStands == Spec => []BestStandingCredit
  <1>1. ASSUME IInv, NEW r \in Run, history[r] # <<>>, NEW c \in Competency
        PROVE  LET standing == {s \in Sprint : /\ RunOf[s] = r
                                               /\ CompetencyOf[s] = c
                                               /\ event[s] # 0
                                               /\ s \notin Reversed(history[r])}
                   credit == history[r][Len(history[r])].after[c]
               IN  /\ \A s \in standing : event[s] =< credit
                   /\ IF standing = {} THEN credit = 0
                                       ELSE \E s \in standing : event[s] = credit
    <2> DEFINE h == history[r]
               standing == {s \in Sprint : /\ RunOf[s] = r
                                           /\ CompetencyOf[s] = c
                                           /\ event[s] # 0
                                           /\ s \notin Reversed(h)}
               credits == {0} \cup {event[s] : s \in standing}
    <2>1. /\ h \in Seq(Snapshot) /\ Len(h) \in Nat /\ Replays(event, r, h)
          /\ Processed(h) = Recorded(event, r) /\ event \in [Sprint -> Level]
      BY <1>1, LenProperties DEF IInv, TypeOK, HistoryReplays, EveryEventProcessed
    <2>2. /\ h[Len(h)].active = Recorded(event, r) \cap ActiveAfter(h, Len(h))
          /\ h[Len(h)].after = Desired(event, h[Len(h)].active)
      <3>1. Len(h) \in 1 .. Len(h)
        BY <2>1 DEF Replays
      <3> QED
        BY <2>1, <3>1 DEF Replays
    <2>3. {t \in h[Len(h)].active : CompetencyOf[t] = c} = standing
      BY <2>1, <2>2 DEF ActiveAfter, Processed, Reversed, Recorded
    <2>4. h[Len(h)].after[c] = Largest(credits)
      BY <2>2, <2>3 DEF Desired
    <2>5. credits \in SUBSET Level /\ credits # {} /\ Level \subseteq Nat
      BY <2>1, LedgerAssumption DEF Level
    <2> HIDE DEF credits
    <2>6. Largest(credits) \in credits /\ \A x \in credits : x =< Largest(credits)
      BY <2>5, LargestIsLevel
    <2>7. \A s \in standing : event[s] =< Largest(credits)
      BY <2>6 DEF credits
    <2>8. CASE standing = {}
      BY <2>4, <2>6, <2>7, <2>8 DEF credits
    <2>9. CASE standing # {}
      <3>1. PICK s \in standing : TRUE
        BY <2>9
      <3>2. event[s] \in Nat \ {0} /\ event[s] =< Largest(credits) /\ Largest(credits) \in Nat
        BY <2>1, <2>5, <2>6, <2>7
      <3>3. Largest(credits) # 0
        BY <3>2
      <3>4. \E t \in standing : event[t] = Largest(credits)
        BY <2>6, <3>3 DEF credits
      <3> QED
        BY <2>4, <2>7, <2>9, <3>4
    <2> QED
      BY <2>8, <2>9
  <1>2. IInv => BestStandingCredit
    BY <1>1 DEF BestStandingCredit
  <1> QED
    BY <1>2, Invariance, PTL

\* A commit leaves the row equal to the replay of the history it publishes.
THEOREM CommitsReplay == Spec => CommitsMatchReplay
  <1>1. ASSUME IInv, [Next]_vars, NEW r \in Run, history'[r] # history[r]
        PROVE  Verified(event', r, history'[r], row'[r])
    <2>1. CASE Commit
      BY <1>1, <2>1, CommitFacts
    <2>2. CASE ~Commit
      <3>1. history' = history
        BY <1>1, <2>2 DEF Next, Step, vars, Synchronize, CreateCompletionCredit, Crash,
              ReverseCompletionCredit, Begin, Damage, Initialize, ProcessEvent, Repair, Verify,
              Reverse, Work, Abort
      <3> QED
        BY <1>1, <3>1
    <2> QED
      BY <2>1, <2>2
  <1>2. IInv /\ [Next]_vars
          => [\A r \in Run : history'[r] # history[r]
                               => Verified(event', r, history'[r], row'[r])]_vars
    BY <1>1
  <1> QED
    BY <1>2, Invariance, PTL DEF Spec, CommitsMatchReplay

\* Commits only append: recorded events and snapshots stay as they are.
THEOREM AppendOnly == Spec => OnlyAppends
  <1>1. ASSUME IInv, [Next]_vars
        PROVE  Appends
    <2>0. ASSUME NEW r \in Run
          PROVE  /\ history[r] \in Seq(Snapshot) /\ history'[r] \in Seq(Snapshot)
                 /\ Len(history[r]) \in Nat /\ Len(history'[r]) \in Nat
      BY <1>1, TypeStep, LenProperties DEF IInv, TypeOK
    <2>1. ASSUME NEW r \in Run, Len(history[r]) =< Len(history'[r]),
                 \A i \in 1 .. Len(history[r]) : history'[r][i] = history[r][i]
          PROVE  SubSeq(history'[r], 1, Len(history[r])) = history[r]
      BY <2>0, <2>1, SubSeqProperties, SeqEqual
    <2>2. CASE Commit
      <3>1. ASSUME NEW r \in Run
            PROVE  /\ Len(history[r]) =< Len(history'[r])
                   /\ \A i \in 1 .. Len(history[r]) : history'[r][i] = history[r][i]
        <4>1. txn # Idle
          BY <2>2 DEF Commit, Idle
        <4>2. CASE r = txn.run
          BY <1>1, <2>2, <4>1, <4>2, CommitFacts DEF IInv, CallInv
        <4>3. CASE r # txn.run
          BY <1>1, <2>0, <2>2, <4>3, CommitFacts
        <4> QED
          BY <4>2, <4>3
      <3>2. \A s \in Sprint : event[s] # 0 => event'[s] = event[s]
        BY <1>1, <2>2, CommitFacts
      <3> QED
        BY <2>1, <3>1, <3>2 DEF Appends
    <2>3. CASE ~Commit
      <3>1. history' = history /\ event' = event
        BY <1>1, <2>3 DEF Next, Step, vars, Synchronize, CreateCompletionCredit, Crash,
              ReverseCompletionCredit, Begin, Damage, Initialize, ProcessEvent, Repair, Verify,
              Reverse, Work, Abort
      <3> QED
        BY <2>0, <2>1, <3>1 DEF Appends
    <2> QED
      BY <2>2, <2>3
  <1>2. IInv /\ [Next]_vars => [Appends]_vars
    BY <1>1
  <1> QED
    BY <1>2, Invariance, PTL DEF Spec, OnlyAppends

-----------------------------------------------------------------------------
(* The ledger keeps the promise of CreditLedger.  The invariant above says *)
(* that what is committed replays; here it is joined by what a call has    *)
(* added so far: a call that brings an event first appends the PROCESS     *)
(* snapshot that continues the committed row, and only a reversal adds a   *)
(* REVERSE snapshot, of its own sprint.                                    *)

AddsEvent(h, g) ==
    h # <<>> /\ txn.event # event /\ Len(g) > Len(h) =>
        g[Len(h) + 1].op = "process" /\ g[Len(h) + 1].before = row[txn.run].state

AddsReversal(h, g) ==
    \/ Reversed(g) = Reversed(h)
    \/ /\ txn.call = "reverse" /\ txn.sprint \notin Reversed(h)
       /\ Reversed(g) = Reversed(h) \cup {txn.sprint}

AddedInv ==
    txn # Idle =>
        /\ Len(txn.history) = Len(history[txn.run]) => txn.row = row[txn.run]
        /\ AddsEvent(history[txn.run], txn.history)
        /\ AddsReversal(history[txn.run], txn.history)

RInv == IInv /\ AddedInv

-----------------------------------------------------------------------------
\* A call that brings an event has not processed it before it has appended something.
LEMMA NewEventIsAppended ==
    ASSUME IInv, txn.phase # "idle", txn.event # event,
           Recorded(txn.event, txn.run) \subseteq Processed(txn.history)
    PROVE  Len(txn.history) > Len(history[txn.run])
  <1>1. /\ txn # Idle /\ txn.run \in Run /\ txn.event \in [Sprint -> Level]
        /\ Len(txn.history) \in Nat /\ Len(history[txn.run]) \in Nat
    BY OpenTransaction DEF IInv
  <1>2. event \in [Sprint -> Level]
    BY DEF IInv, TypeOK
  <1>3. PICK s \in Sprint : txn.event[s] # event[s]
    BY <1>1, <1>2
  <1>4. event[s] = 0 /\ txn.event[s] # 0 /\ RunOf[s] = txn.run
    BY <1>1, <1>3 DEF IInv, CallInv
  <1>5. s \in Processed(txn.history) /\ s \notin Processed(history[txn.run])
    BY <1>1, <1>4 DEF Recorded, IInv, EveryEventProcessed
  <1>6. /\ Len(history[txn.run]) =< Len(txn.history)
        /\ \A i \in 1 .. Len(history[txn.run]) : txn.history[i] = history[txn.run][i]
    BY <1>1 DEF IInv, CallInv
  <1>7. CASE Len(txn.history) = Len(history[txn.run])
    BY <1>5, <1>6, <1>7 DEF Processed, Touched
  <1> QED
    BY <1>1, <1>6, <1>7

\* Appending a snapshot x to the working copy keeps AddedInv, if the first snapshot after the
\* committed ones is as it should be and a REVERSE snapshot is due.
LEMMA AppendKeepsAdded ==
    ASSUME RInv, txn.phase # "idle", NEW x \in Snapshot, NEW w, NEW phase,
           Work(Append(txn.history, x), w, phase),
           history[txn.run] # <<>> /\ txn.event # event
             /\ Len(txn.history) = Len(history[txn.run])
               => x.op = "process" /\ x.before = row[txn.run].state,
           x.op = "reverse" => ReversalDue /\ x.sprint = txn.sprint /\ x.sprint \in Sprint
    PROVE  AddedInv'
  <1> DEFINE h == history[txn.run]
             g == Append(txn.history, x)
  <1>1. /\ txn \in Transaction /\ txn # Idle /\ txn.run \in Run
        /\ txn.history \in Seq(Snapshot) /\ Len(txn.history) \in Nat /\ Len(h) \in Nat
    BY OpenTransaction DEF RInv, IInv
  <1>2. /\ txn' = [txn EXCEPT !.history = g, !.row = w, !.phase = phase]
        /\ event' = event /\ history' = history /\ row' = row
    BY DEF Work
  <1>3. /\ txn'.run = txn.run /\ txn'.event = txn.event /\ txn'.history = g
        /\ txn'.call = txn.call /\ txn'.sprint = txn.sprint
    BY <1>1, <1>2 DEF Transaction
  <1>4. /\ Len(g) = Len(txn.history) + 1 /\ g[Len(txn.history) + 1] = x
        /\ \A i \in 1 .. Len(txn.history) : g[i] = txn.history[i]
    BY <1>1, AppendProperties
  <1>5. Len(h) =< Len(txn.history)
    BY <1>1 DEF RInv, IInv, CallInv
  <1>6. AddsEvent(h, txn.history) /\ AddsReversal(h, txn.history)
    BY <1>1 DEF RInv, AddedInv
  <1>7. Reversed(g) = Reversed(txn.history) \cup {t \in Sprint : x.op = "reverse" /\ x.sprint = t}
    <2>1. Touched(g, Len(txn.history) + 1, "reverse")
            = Touched(txn.history, Len(txn.history), "reverse")
                \cup {t \in Sprint : x.op = "reverse" /\ x.sprint = t}
      BY <1>1, TouchedAppend
    <2> HIDE DEF g
    <2> QED
      BY <1>4, <2>1 DEF Reversed
  <1> HIDE DEF g
  <1>8. AddsEvent(h, g)
    <2>1. CASE Len(txn.history) = Len(h)
      BY <1>4, <2>1 DEF AddsEvent
    <2>2. CASE Len(txn.history) > Len(h)
      <3>1. Len(h) + 1 \in 1 .. Len(txn.history)
        BY <1>1, <2>2
      <3> QED
        BY <1>4, <1>6, <2>2, <3>1 DEF AddsEvent
    <2> QED
      BY <1>1, <1>5, <2>1, <2>2
  <1>9. AddsReversal(h, g)
    <2>1. CASE x.op = "reverse"
      <3>1. Reversed(g) = Reversed(txn.history) \cup {txn.sprint}
        BY <1>7, <2>1
      <3>2. txn.call = "reverse" /\ txn.sprint \notin Reversed(txn.history)
        BY <2>1 DEF ReversalDue
      <3> QED
        BY <1>6, <3>1, <3>2 DEF AddsReversal
    <2>2. CASE x.op # "reverse"
      BY <1>6, <1>7, <2>2 DEF AddsReversal
    <2> QED
      BY <2>1, <2>2
  <1>10. Len(g) # Len(h)
    BY <1>1, <1>4, <1>5
  <1> QED
    BY <1>2, <1>3, <1>8, <1>9, <1>10 DEF AddedInv, AddsEvent, AddsReversal

\* A step that changes the phase only keeps AddedInv.
LEMMA MoveOnKeepsAdded ==
    ASSUME RInv, txn.phase # "idle", NEW phase, Work(txn.history, txn.row, phase)
    PROVE  AddedInv'
  <1>1. txn \in Transaction /\ txn # Idle
    BY OpenTransaction DEF RInv, IInv
  <1>2. /\ txn' = [txn EXCEPT !.history = txn.history, !.row = txn.row, !.phase = phase]
        /\ event' = event /\ history' = history /\ row' = row
    BY DEF Work
  <1>3. /\ txn'.run = txn.run /\ txn'.event = txn.event /\ txn'.history = txn.history
        /\ txn'.call = txn.call /\ txn'.sprint = txn.sprint /\ txn'.row = txn.row
    BY <1>1, <1>2 DEF Transaction
  <1> QED
    BY <1>1, <1>2, <1>3 DEF RInv, AddedInv, AddsEvent, AddsReversal

LEMMA BeginKeepsAdded ==
    ASSUME NEW call, NEW r, NEW t, NEW E, Begin(call, r, t, E), IInv, r \in Run
    PROVE  AddedInv'
  <1>1. /\ txn'.run = r /\ txn'.history = history[r] /\ txn'.row = row[r]
        /\ event' = event /\ history' = history /\ row' = row
    BY DEF Begin
  <1>2. Len(history[r]) \in Nat
    BY LenProperties DEF IInv, TypeOK
  <1> QED
    BY <1>1, <1>2 DEF AddedInv, AddsEvent, AddsReversal

LEMMA AddedStep ==
    ASSUME RInv, [Next]_vars
    PROVE  AddedInv'
  <1>0. IInv /\ IInv'
    BY StepPreserves DEF RInv
  <1>i. Idle.phase = "idle"
    BY DEF Idle
  <1>o. ASSUME txn.phase # "idle"
        PROVE  /\ txn # Idle /\ txn.run \in Run /\ txn.event \in [Sprint -> Level]
               /\ txn.sprint \in Sprint \cup {NoSprint}
               /\ txn.history \in Seq(Snapshot) /\ txn.row.state \in State \cup {NoState}
    BY <1>0, <1>o, OpenTransaction DEF IInv
  <1>1. ASSUME NEW r \in Run, Synchronize(r)
        PROVE  AddedInv'
    BY <1>0, <1>1, BeginKeepsAdded DEF Synchronize
  <1>2. ASSUME NEW r \in Run, Damage(r)
        PROVE  AddedInv'
    BY <1>2 DEF Damage, AddedInv
  <1>3. ASSUME NEW s \in Sprint, NEW credit \in Credit, CreateCompletionCredit(s, credit)
        PROVE  AddedInv'
    BY <1>0, <1>3, BeginKeepsAdded, LedgerAssumption DEF CreateCompletionCredit
  <1>4. ASSUME NEW s \in Sprint, ReverseCompletionCredit(s)
        PROVE  AddedInv'
    BY <1>0, <1>4, BeginKeepsAdded, LedgerAssumption DEF ReverseCompletionCredit
  <1>a. ASSUME Abort
        PROVE  AddedInv'
    BY <1>a DEF Abort, AddedInv
  <1>5. CASE Initialize
    <2>1. txn.phase = "begun" /\ txn.phase # "idle"
      BY <1>5 DEF Initialize
    <2>2. txn.history = history[txn.run] /\ txn.row = row[txn.run]
      BY <1>0, <1>o, <2>1 DEF IInv, CallInv
    <2> DEFINE x == SnapshotOf("initialize", NoSprint, NoState, txn.event, {})
    <2>3. x \in Snapshot /\ x.op = "initialize"
      BY <1>o, <2>1, SnapshotOfType DEF Operation, SnapshotOf
    <2>4. CASE /\ ~\E i \in DOMAIN txn.history : txn.history[i].op = "initialize"
               /\ Work(Append(txn.history, x), RowFor(txn.event, {}), "initialized")
      <3>1. history[txn.run] = <<>>
        <4>1. SUFFICES ASSUME history[txn.run] # <<>>
                       PROVE  FALSE
          OBVIOUS
        <4>2. Replays(event, txn.run, txn.history)
          BY <1>0, <1>o, <2>1, <2>2, <4>1 DEF IInv, HistoryReplays
        <4>3. 1 \in DOMAIN txn.history /\ txn.history[1].op = "initialize"
          BY <1>o, <2>1, <4>2, LenProperties DEF Replays
        <4> QED
          BY <2>4, <4>3
      <3> QED
        BY <2>1, <2>3, <2>4, <3>1, AppendKeepsAdded
    <2>5. CASE Work(txn.history, txn.row, "initialized")
      BY <2>1, <2>5, MoveOnKeepsAdded
    <2> QED
      BY <1>5, <1>a, <2>4, <2>5 DEF Initialize
  <1>6. CASE ProcessEvent
    <2>1. txn.phase # "idle"
      BY <1>6 DEF ProcessEvent
    <2> DEFINE ids(s) == Active(txn.event, txn.run, txn.history) \cup {s}
               snap(s) == SnapshotOf("process", s, txn.row.state, txn.event, ids(s))
    <2>2. PICK s \in Pending : Work(Append(txn.history, snap(s)),
                                    Written(txn.row, txn.event, ids(s)), "initialized")
      BY <1>6 DEF ProcessEvent
    <2>3. s \in Sprint /\ ids(s) \in SUBSET Sprint
      BY DEF Pending, Recorded, Active
    <2>4. snap(s) \in Snapshot /\ snap(s).op = "process" /\ snap(s).before = txn.row.state
      BY <1>o, <2>1, <2>3, SnapshotOfType DEF Operation, SnapshotOf
    <2>5. Len(txn.history) = Len(history[txn.run]) => txn.row = row[txn.run]
      BY <1>o, <2>1 DEF RInv, AddedInv
    <2> HIDE DEF snap
    <2> QED
      BY <2>1, <2>2, <2>4, <2>5, AppendKeepsAdded
  <1>7. CASE Repair
    <2>1. txn.phase # "idle"
      BY <1>7 DEF Repair
    <2> DEFINE ids == Active(txn.event, txn.run, txn.history)
               x == SnapshotOf("rebuild", NoSprint, txn.row.state, txn.event, ids)
    <2>2. ids \in SUBSET Sprint
      BY DEF Recorded, Active
    <2>3. x \in Snapshot /\ x.op = "rebuild"
      BY <1>o, <2>1, <2>2, SnapshotOfType DEF Operation, SnapshotOf
    <2>4. txn.event # event => Len(txn.history) # Len(history[txn.run])
      <3>1. Recorded(txn.event, txn.run) \subseteq Processed(txn.history)
        BY <1>7 DEF Repair, Pending
      <3>2. Len(txn.history) \in Nat /\ Len(history[txn.run]) \in Nat
        BY <1>0, <2>1, OpenTransaction DEF IInv
      <3> QED
        BY <1>0, <2>1, <3>1, <3>2, NewEventIsAppended
    <2>5. CASE Work(txn.history, txn.row, "synchronized")
      BY <2>1, <2>5, MoveOnKeepsAdded
    <2>6. CASE Work(Append(txn.history, x), Written(txn.row, txn.event, ids), "synchronized")
      BY <2>1, <2>3, <2>4, <2>6, AppendKeepsAdded
    <2> QED
      BY <1>7, <2>5, <2>6 DEF Repair
  <1>8. CASE Verify
    <2>1. txn.phase # "idle"
      BY <1>8 DEF Verify
    <2> QED
      BY <1>8, <1>a, <2>1, MoveOnKeepsAdded DEF Verify
  <1>9. CASE Reverse
    <2>1. txn.phase # "idle" /\ ReversalDue
      BY <1>9 DEF Reverse
    <2> DEFINE ids == Active(txn.event, txn.run, txn.history) \ {txn.sprint}
               x == SnapshotOf("reverse", txn.sprint, txn.row.state, txn.event, ids)
    <2>2. Work(Append(txn.history, x), Written(txn.row, txn.event, ids), "synchronized")
      BY <1>9 DEF Reverse
    <2>3. ids \in SUBSET Sprint
      BY DEF Recorded, Active
    <2>4. txn.event = event /\ txn.sprint \in Sprint
      BY <1>0, <1>o, <2>1 DEF IInv, CallInv, ReversalDue, Recorded
    <2>5. x \in Snapshot /\ x.op = "reverse" /\ x.sprint = txn.sprint
      BY <1>o, <2>1, <2>3, SnapshotOfType DEF Operation, SnapshotOf
    <2> QED
      BY <2>1, <2>2, <2>4, <2>5, AppendKeepsAdded
  <1>10. CASE Commit
    BY <1>10 DEF Commit, AddedInv
  <1>11. CASE Crash
    BY <1>11, <1>a DEF Crash
  <1>12. CASE UNCHANGED vars
    <2>1. event' = event /\ history' = history /\ row' = row /\ txn' = txn
      BY <1>12 DEF vars
    <2> QED
      BY <2>1 DEF RInv, AddedInv, AddsEvent, AddsReversal
  <1> QED
    BY <1>1, <1>2, <1>3, <1>4, <1>5, <1>6, <1>7, <1>8, <1>9, <1>10, <1>11, <1>12 DEF Next, Step

\* The inductive invariant holds of every reachable state.
THEOREM AddedInvariance == Spec => []RInv
  <1>1. Init => RInv
    BY InitEstablishes DEF RInv, AddedInv, Init
  <1>2. RInv /\ [Next]_vars => RInv'
    BY AddedStep, StepPreserves DEF RInv
  <1> QED
    BY <1>1, <1>2, PTL DEF Spec

-----------------------------------------------------------------------------
\* A commit that brings an event found the payload its history ends with.
LEMMA EventNeedsIntactPayload ==
    ASSUME RInv, Commit, event' # event
    PROVE  PayloadIntact(txn.run)
  <1> DEFINE h == history[txn.run]
             g == txn.history
  <1>1. txn.phase = "verified" /\ txn.phase # "idle" /\ txn.event = event'
    BY DEF Commit
  <1>2. /\ txn # Idle /\ txn.run \in Run /\ Len(g) \in Nat /\ Len(h) \in Nat
        /\ h \in Seq(Snapshot)
    BY <1>1, OpenTransaction DEF RInv, IInv
  <1>3. Replays(txn.event, txn.run, g) /\ Processed(g) = Recorded(txn.event, txn.run)
    BY <1>1, <1>2 DEF RInv, IInv, CallInv, Verified
  <1>4. Len(g) > Len(h)
    BY <1>1, <1>3, NewEventIsAppended DEF RInv
  <1>5. CASE h = <<>>
    BY <1>2, <1>5 DEF PayloadIntact, RInv, IInv, NoEarlyRow, NoRow
  <1>6. CASE h # <<>>
    <2>1. g[Len(h) + 1].op = "process" /\ g[Len(h) + 1].before = row[txn.run].state
      BY <1>1, <1>2, <1>4, <1>6 DEF RInv, AddedInv, AddsEvent
    <2>2. Len(h) > 0 /\ Len(h) \in 1 .. Len(h) /\ Len(h) + 1 \in 1 .. Len(g)
      BY <1>2, <1>4, <1>6, EmptySeq
    <2>3. g[Len(h) + 1].before = g[Len(h) + 1 - 1].after
      BY <1>2, <1>3, <2>1, <2>2 DEF Replays
    <2>4. g[Len(h)] = h[Len(h)]
      BY <1>2, <2>2 DEF RInv, IInv, CallInv
    <2> QED
      BY <1>2, <1>6, <2>1, <2>3, <2>4 DEF PayloadIntact
  <1> QED
    BY <1>5, <1>6

\* Only a row that can be restored passes the verification that precedes a commit.
LEMMA CommitNeedsRepairable ==
    ASSUME IInv, Commit
    PROVE  Repairable(txn.run)
  <1>1. txn.phase = "verified" /\ txn.phase # "idle"
    BY DEF Commit
  <1>2. txn # Idle
    BY <1>1, OpenTransaction DEF IInv
  <1>3. txn.row.identity = "own"
    BY <1>1, <1>2 DEF IInv, CallInv, Verified, RowFor
  <1> QED
    BY <1>1, <1>2, <1>3 DEF IInv, CallInv

\* Only a commit changes the events and the histories; the rows are also changed by damage.
LEMMA OnlyCommitPublishes ==
    ASSUME [Next]_vars, ~Commit
    PROVE  /\ event' = event /\ history' = history
           /\ row' = row \/ \E r \in Run : Damage(r)
  BY DEF Next, Step, vars, Synchronize, CreateCompletionCredit, Crash, ReverseCompletionCredit,
         Begin, Damage, Initialize, ProcessEvent, Repair, Verify, Reverse, Work, Abort

\* A closeout that finds a damaged payload, or a row that cannot be restored, commits nothing.
THEOREM DamageStopsCloseouts == Spec => DamageBlocksCloseout
  <1>1. ASSUME RInv, [Next]_vars, NEW s \in Sprint, event'[s] # event[s]
        PROVE  PayloadIntact(RunOf[s]) /\ Repairable(RunOf[s])
    <2>1. Commit
      BY <1>1, OnlyCommitPublishes
    <2>2. RunOf[s] = txn.run
      BY <1>1, <2>1, CommitFacts DEF RInv
    <2> QED
      BY <1>1, <2>1, <2>2, EventNeedsIntactPayload, CommitNeedsRepairable DEF RInv
  <1>2. RInv /\ [Next]_vars
          => [\A s \in Sprint : event'[s] # event[s] =>
                 PayloadIntact(RunOf[s]) /\ Repairable(RunOf[s])]_vars
    BY <1>1
  <1> QED
    BY <1>2, AddedInvariance, PTL DEF Spec, DamageBlocksCloseout
-----------------------------------------------------------------------------
(* The refinement. *)

\* What stands for CreditLedger's variables.
withdrawn == UNION {Reversed(history[r]) : r \in Run}
credits == [r \in Run |-> IF Repairable(r) THEN row[r].state ELSE NoState]
stuck == {r \in Run : ~Repairable(r)}

\* An event is reversed in the history of its own run only.
LEMMA ReversedInOwnRun ==
    ASSUME IInv, NEW r \in Run
    PROVE  \A s \in Reversed(history[r]) : s \in Sprint /\ RunOf[s] = r /\ event[s] # 0
  <1>1. history[r] \in Seq(Snapshot)
    BY DEF IInv, TypeOK
  <1>2. CASE history[r] = <<>>
    <2>1. Len(history[r]) = 0
      BY <1>2, EmptySeq
    <2> QED
      BY <2>1 DEF Reversed, Touched
  <1>3. CASE history[r] # <<>>
    <2>1. Reversed(history[r]) \subseteq Recorded(event, r)
      BY <1>1, <1>3, ReversedWasProcessed DEF IInv, HistoryReplays
    <2> QED
      BY <2>1 DEF Recorded
  <1> QED
    BY <1>2, <1>3

\* Seen from its run, an event is withdrawn when its own history reverses it.
LEMMA WithdrawnIsReversed ==
    IInv => \A s \in Sprint : s \in withdrawn <=> s \in Reversed(history[RunOf[s]])
  BY ReversedInOwnRun, LedgerAssumption DEF withdrawn

\* The payload of a complete history is the best of its standing credits.
LEMMA DesiredIsBest ==
    ASSUME NEW E \in [Sprint -> Level], NEW r \in Run, NEW h, NEW W,
           Processed(h) = Recorded(E, r),
           \A s \in Sprint : RunOf[s] = r => (s \in W <=> s \in Reversed(h))
    PROVE  Promise!IsBest(Desired(E, Active(E, r, h)), E, W, r)
  <1> DEFINE st == Desired(E, Active(E, r, h))
  <1>1. st \in State
    BY DesiredType DEF Active, Recorded
  <1>2. State = Promise!State
    BY DEF State, Level, Promise!State, Promise!Level
  <1>3. ASSUME NEW c \in Competency
        PROVE  LET mine == {s \in Promise!Standing(E, W, r) : CompetencyOf[s] = c}
               IN  /\ \A s \in mine : E[s] =< st[c]
                   /\ st[c] = 0 \/ \E s \in mine : E[s] = st[c]
    <2> DEFINE mine == {s \in Promise!Standing(E, W, r) : CompetencyOf[s] = c}
               earned == {0} \cup {E[s] : s \in mine}
    <2>1. mine = {t \in Active(E, r, h) : CompetencyOf[t] = c}
      BY DEF Promise!Standing, Active, Recorded, Reversed, Processed
    <2>2. st[c] = Largest(earned)
      BY <2>1 DEF Desired
    <2>3. earned \in SUBSET Level /\ earned # {}
      BY DEF Level, Promise!Standing
    <2> HIDE DEF earned, st
    <2>4. Largest(earned) \in earned /\ \A x \in earned : x =< Largest(earned)
      BY <2>3, LargestIsLevel
    <2> QED
      BY <2>2, <2>4 DEF earned
  <1> QED
    BY <1>1, <1>2, <1>3 DEF Promise!IsBest

\* A payload that is intact is the best of the standing credits.
LEMMA IntactIsBest ==
    ASSUME IInv, NEW r \in Run, PayloadIntact(r), history[r] # <<>>
    PROVE  Promise!IsBest(row[r].state, event, withdrawn, r)
  <1> DEFINE h == history[r]
  <1>1. /\ h \in Seq(Snapshot) /\ Len(h) \in Nat /\ Replays(event, r, h)
        /\ Processed(h) = Recorded(event, r) /\ event \in [Sprint -> Level]
    BY LenProperties DEF IInv, TypeOK, HistoryReplays, EveryEventProcessed
  <1>2. Len(h) \in 1 .. Len(h)
    BY <1>1 DEF Replays
  <1>3. h[Len(h)].after = Desired(event, Active(event, r, h))
    <2>1. h[Len(h)].active = Active(event, r, h)
      BY <1>1, <1>2 DEF Replays, Active, ActiveAfter, Processed, Reversed
    <2> QED
      BY <1>1, <1>2, <2>1 DEF Replays
  <1>4. row[r].state = h[Len(h)].after
    BY DEF PayloadIntact
  <1>5. \A s \in Sprint : RunOf[s] = r => (s \in withdrawn <=> s \in Reversed(h))
    BY WithdrawnIsReversed
  <1> QED
    BY <1>1, <1>3, <1>4, <1>5, DesiredIsBest

\* Every commit is an award, a withdrawal or a restoration.
LEMMA CommitKeepsPromise ==
    ASSUME RInv, RInv', Commit
    PROVE  \/ \E r \in Run : Promise!Restore(r)
           \/ \E s \in Sprint, credit \in Credit : Promise!Award(s, credit)
           \/ \E s \in Sprint : Promise!Withdraw(s)
  <1> DEFINE r == txn.run
             E == txn.event
             g == txn.history
  <1>0. txn.phase = "verified" /\ txn.phase # "idle"
    BY DEF Commit
  <1>1. /\ txn # Idle /\ r \in Run /\ E \in [Sprint -> Level] /\ event \in [Sprint -> Level]
        /\ history \in [Run -> Seq(Snapshot)] /\ row \in [Run -> StateRow]
    BY <1>0, OpenTransaction DEF RInv, IInv, TypeOK
  <1>2. /\ event' = E /\ history' = [history EXCEPT ![r] = g]
        /\ row' = [row EXCEPT ![r] = txn.row]
    BY DEF Commit
  <1>3. Verified(E, r, g, txn.row)
    BY <1>0, <1>1 DEF RInv, IInv, CallInv
  <1>r. Repairable(r)
    BY CommitNeedsRepairable DEF RInv
  <1>q. \A q \in Run : Repairable(q)' = Repairable(q) /\ (q # r => row'[q] = row[q])
    <2>1. history'[r] # <<>> /\ row'[r].state # NoState /\ row'[r].identity = "own"
      BY <1>1, <1>2, <1>3, EmptySeq DEF Verified, RowFor, Replays
    <2>2. \A q \in Run : q # r => history'[q] = history[q] /\ row'[q] = row[q]
      BY <1>1, <1>2
    <2> QED
      BY <1>r, <2>1, <2>2 DEF Repairable
  <1>4. credits' = [credits EXCEPT ![r] = txn.row.state]
    BY <1>1, <1>2, <1>r, <1>q DEF credits
  <1>b. r \notin stuck /\ stuck' = stuck
    BY <1>r, <1>q DEF stuck
  <1>5. AddsReversal(history[r], g)
    BY <1>1 DEF RInv, AddedInv
  <1>6. Promise!IsBest(txn.row.state, E, withdrawn', r)
    <2>1. txn.row.state = Desired(E, Active(E, r, g)) /\ Processed(g) = Recorded(E, r)
      BY <1>3 DEF Verified, RowFor
    <2>2. \A s \in Sprint : s \in withdrawn' <=> s \in Reversed(history'[RunOf[s]])
      <3>1. IInv'
        BY DEF RInv
      <3>2. (\A s \in Sprint : s \in withdrawn <=> s \in Reversed(history[RunOf[s]]))'
        BY <3>1, WithdrawnIsReversed, PTL
      <3> QED
        BY <3>2 DEF Reversed, Touched
    <2>3. \A s \in Sprint : RunOf[s] = r => (s \in withdrawn' <=> s \in Reversed(g))
      BY <1>1, <1>2, <2>2
    <2> QED
      BY <1>1, <2>1, <2>3, DesiredIsBest
  <1>7. txn.row.state \in Promise!State
    BY <1>6 DEF Promise!IsBest
  <1>8. CASE Reversed(g) = Reversed(history[r])
    <2>1. withdrawn' = withdrawn
      BY <1>1, <1>2, <1>8 DEF withdrawn
    <2>2. CASE event' = event
      <3>1. Promise!Restore(r)
        BY <1>2, <1>4, <1>6, <1>7, <1>b, <2>1, <2>2
           DEF Promise!Restore, Promise!Publish, withdrawn, credits, stuck
      <3> QED
        BY <1>1, <3>1 DEF Promise!Restore, Promise!Publish
    <2>3. CASE event' # event
      <3>1. PICK s \in Sprint : E[s] # event[s]
        BY <1>1, <1>2, <2>3
      <3>2. event[s] = 0 /\ RunOf[s] = r /\ txn.sprint = s
        BY <1>1, <3>1 DEF RInv, IInv, CallInv
      <3>3. \A t \in Sprint : t # s => E[t] = event[t]
        BY <1>1, <3>2 DEF RInv, IInv, CallInv
      <3>4. E = [event EXCEPT ![s] = E[s]] /\ E[s] \in Credit
        BY <1>1, <3>1, <3>2, <3>3 DEF Level
      <3>5. PayloadIntact(r)
        BY <2>3, EventNeedsIntactPayload
      <3>6. Promise!Intact(r)
        <4>1. CASE history[r] = <<>>
          BY <1>1, <1>r, <3>5, <4>1 DEF PayloadIntact, Promise!Intact
        <4>2. CASE history[r] # <<>>
          BY <1>1, <1>r, <3>5, <4>2, IntactIsBest DEF Promise!Intact, RInv, withdrawn
        <4> QED
          BY <4>1, <4>2
      <3>7. Promise!Award(s, E[s])
        BY <1>2, <1>4, <1>6, <1>7, <1>b, <2>1, <3>2, <3>4, <3>6
           DEF Promise!Award, Promise!Publish, withdrawn, credits, stuck
      <3> QED
        BY <3>4, <3>7
    <2> QED
      BY <2>2, <2>3
  <1>9. CASE /\ txn.call = "reverse" /\ txn.sprint \notin Reversed(history[r])
             /\ Reversed(g) = Reversed(history[r]) \cup {txn.sprint}
    <2>1. /\ E = event /\ txn.sprint \in Sprint
          /\ RunOf[txn.sprint] = r /\ event[txn.sprint] # 0
      BY <1>1, <1>9 DEF RInv, IInv, CallInv, Recorded
    <2>2. txn.sprint \notin withdrawn
      BY <1>9, <2>1, WithdrawnIsReversed DEF RInv
    <2>3. withdrawn' = withdrawn \cup {txn.sprint}
      BY <1>1, <1>2, <1>9 DEF withdrawn
    <2>4. Promise!Withdraw(txn.sprint)
      BY <1>2, <1>4, <1>6, <1>7, <1>b, <2>1, <2>2, <2>3
         DEF Promise!Withdraw, Promise!Publish, withdrawn, credits, stuck
    <2> QED
      BY <2>1, <2>4 DEF Promise!Withdraw, Promise!Publish
  <1> QED
    BY <1>5, <1>8, <1>9 DEF AddsReversal

\* Whatever is done to a row is done to the publication.
LEMMA DamageKeepsPromise ==
    ASSUME RInv, RInv', NEW r \in Run, Damage(r)
    PROVE  Promise!Damage(r)
  <1>1. /\ event' = event /\ history' = history /\ history[r] # <<>>
        /\ row \in [Run -> StateRow] /\ row' \in [Run -> StateRow]
    BY DEF Damage, RInv, IInv, TypeOK
  <1>2. withdrawn' = withdrawn
    BY <1>1 DEF withdrawn
  <1>3. \A q \in Run \ {r} : row'[q] = row[q] /\ Repairable(q)' = Repairable(q)
    <2>1. \A q \in Run \ {r} : row'[q] = row[q]
      BY <1>1 DEF Damage, Edit, Delete, PutBack
    <2> QED
      BY <1>1, <2>1 DEF Repairable
  <1>4. credits[r] # NoState \/ r \in stuck
    BY <1>1 DEF credits, stuck, Repairable
  <1>5. CASE Repairable(r)'
    <2>1. row'[r].state \in State
      BY <1>1, <1>5 DEF Repairable, StateRow
    <2>2. row'[r].state \in Promise!State
      BY <2>1 DEF State, Level, Promise!State, Promise!Level
    <2>3. credits' = [credits EXCEPT ![r] = row'[r].state] /\ stuck' = stuck \ {r}
      BY <1>3, <1>5 DEF credits, stuck
    <2> QED
      BY <1>1, <1>2, <1>4, <2>2, <2>3 DEF Promise!Damage, withdrawn, credits, stuck
  <1>6. CASE ~Repairable(r)'
    <2>1. credits' = [credits EXCEPT ![r] = NoState] /\ stuck' = stuck \cup {r}
      BY <1>3, <1>6 DEF credits, stuck
    <2> QED
      BY <1>1, <1>2, <1>4, <2>1 DEF Promise!Damage, withdrawn, credits, stuck
  <1> QED
    BY <1>5, <1>6

\* The ledger, with its transactions, failures and damaged rows, keeps the promise.
THEOREM LedgerKeepsPromise == Spec => KeepsPromise
  <1>1. Init => Promise!Init
    <2> SUFFICES ASSUME Init
                 PROVE  Promise!Init
      OBVIOUS
    <2>1. \A r \in Run : Reversed(history[r]) = {} /\ row[r].state = NoState /\ Repairable(r)
      <3>1. Len(<<>>) = 0
        BY EmptySeq
      <3> QED
        BY <3>1 DEF Init, Reversed, Touched, NoRow, Repairable
    <2> QED
      BY <2>1 DEF Init, Promise!Init
  <1>2. RInv /\ RInv' /\ [Next]_vars
          => [Promise!Next]_<<event, withdrawn, credits, stuck>>
    <2> SUFFICES ASSUME RInv, RInv', [Next]_vars
                 PROVE  [Promise!Next]_<<event, withdrawn, credits, stuck>>
      OBVIOUS
    <2>1. CASE Commit
      BY <2>1, CommitKeepsPromise DEF Promise!Next
    <2>2. CASE ~Commit
      <3>1. /\ event' = event /\ history' = history
            /\ row' = row \/ \E r \in Run : Damage(r)
        BY <2>2, OnlyCommitPublishes
      <3>2. CASE row' = row
        BY <3>1, <3>2 DEF withdrawn, credits, stuck, Repairable
      <3>3. CASE \E r \in Run : Damage(r)
        BY <3>3, DamageKeepsPromise DEF Promise!Next
      <3> QED
        BY <3>1, <3>2, <3>3
    <2> QED
      BY <2>1, <2>2
  <1> QED
    BY <1>1, <1>2, AddedInvariance, PTL DEF Spec, KeepsPromise, Promise!Spec, withdrawn, credits, stuck

=============================================================================
