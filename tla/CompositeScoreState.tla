------------------------ MODULE CompositeScoreState ------------------------
(***************************************************************************)
(* The composite score ledger of growth/services/composite_score_state.py. *)
(*                                                                         *)
(* Each assessment run has an append-only history of snapshots and one     *)
(* mutable row holding the current state.  A closeout event (one per       *)
(* sprint) is processed into the state once and may be reversed once.      *)
(* Every service call is one database transaction; here it is a sequence   *)
(* of steps on a working copy, `txn`, that commits or leaves no trace.     *)
(* SQLite lets one writing transaction commit at a time, so one            *)
(* transaction is open at a time (PracticeConcurrency.tla discharges       *)
(* that).                                                                  *)
(*                                                                         *)
(* Abstractions.  A state payload is a deterministic function of the       *)
(* run's fixed projection and of the credit of each competency, so it is   *)
(* represented by those credits; a hash is represented by what it hashes.  *)
(***************************************************************************)
EXTENDS Naturals, Sequences, FiniteSets

CONSTANTS
    Run,           \* assessment runs
    Sprint,        \* sprints that may be closed out; an event is named by its sprint
    Competency,
    RunOf,         \* the assessment run each sprint was started under
    CompetencyOf,  \* the parent competency of each sprint's protocol
    Credit,        \* the credits a closeout can earn
    NoState,       \* the payload of a row that does not exist, and {} in INITIALIZE
    NoSprint,      \* the event of a snapshot that has none
    MaxRebuilds    \* bound: a run whose history has this many repairs is not damaged again

Level == Credit \cup {0}
State == [Competency -> Level]

\* Credits are decimals in [0.75, 1]; any finite set of numbers has a largest
\* member in each of its non-empty subsets.
ASSUME LedgerAssumption ==
    /\ RunOf \in [Sprint -> Run]
    /\ CompetencyOf \in [Sprint -> Competency]
    /\ Credit \subseteq Nat \ {0}
    /\ \A S \in SUBSET Level : S # {} => \E m \in S : \A x \in S : x =< m
    /\ NoState \notin State
    /\ NoSprint \notin Sprint
    /\ MaxRebuilds \in Nat

VARIABLES
    event,    \* CompletionCreditEvent: the credit recorded for a sprint, 0 when there is no event
    history,  \* CompositeScoreSnapshot rows of each run in sequence order
    row,      \* CompositeScoreState: the current row of each run
    txn       \* the transaction in progress

vars == <<event, history, row, txn>>

-----------------------------------------------------------------------------
Operation == {"initialize", "process", "reverse", "rebuild"}

Snapshot == [op     : Operation,
             sprint : Sprint \cup {NoSprint},
             before : State \cup {NoState},
             after  : State,
             active : SUBSET Sprint]      \* active_event_count and active_event_hash

\* identity stands for user, algorithm_version and state_schema_version: "own" if they are
\* those of the run and of this release.
StateRow == [state     : State \cup {NoState},
             stateHash : State \cup {NoState},
             active    : SUBSET Sprint,
             identity  : {"own", "foreign"}]

NoRow == [state |-> NoState, stateHash |-> NoState, active |-> {}, identity |-> "own"]

Idle == [phase |-> "idle"]

Transaction == [phase   : {"begun", "initialized", "synchronized", "verified"},
                call    : {"synchronize", "closeout", "reverse"},
                run     : Run,
                sprint  : Sprint \cup {NoSprint},
                event   : [Sprint -> Level],
                history : Seq(Snapshot),
                row     : StateRow]

\* Type correctness: the tables and the open transaction hold values of their columns' types.
TypeOK ==
    /\ event \in [Sprint -> Level]
    /\ history \in [Run -> Seq(Snapshot)]
    /\ row \in [Run -> StateRow]
    /\ txn \in Transaction \cup {Idle}

-----------------------------------------------------------------------------
(* What the service computes from the tables. *)

Recorded(E, r) == {s \in Sprint : RunOf[s] = r /\ E[s] # 0}

\* The events a prefix of length n of the history has processed, or reversed.
Touched(h, n, op) ==
    {s \in Sprint : \E i \in 1 .. n : h[i].op = op /\ h[i].sprint = s}

Processed(h) == Touched(h, Len(h), "process")
Reversed(h)  == Touched(h, Len(h), "reverse")

\* The events active after the first n snapshots; a unique constraint allows each event one
\* snapshot per operation, so an event that was reversed is not processed again.
ActiveAfter(h, n) == Touched(h, n, "process") \ Touched(h, n, "reverse")

Active(E, r, h) == Recorded(E, r) \cap (Processed(h) \ Reversed(h))

Largest(S) == CHOOSE m \in S : \A x \in S : x =< m

\* Mutants of Desired: closeouts are counted, or the poorest one stands.
DesiredCount(E, ids) ==
    [c \in Competency |-> Cardinality({t \in ids : CompetencyOf[t] = c})]

DesiredPoorest(E, ids) ==
    [c \in Competency |->
        LET earned == {E[s] : s \in {t \in ids : CompetencyOf[t] = c}}
        IN  IF earned = {} THEN 0 ELSE CHOOSE m \in earned : \A x \in earned : m =< x]

\* _credits: a competency keeps the best of its active closeouts.
Desired(E, ids) ==
    [c \in Competency |-> Largest({0} \cup {E[s] : s \in {t \in ids : CompetencyOf[t] = c}})]

\* The row _initialize_locked creates, and the one verification asks for.
RowFor(E, ids) == [state     |-> Desired(E, ids),
                   stateHash |-> Desired(E, ids),
                   active    |-> ids,
                   identity  |-> "own"]

\* _write_state: every later write leaves user and versions of the row as they are.
Written(w, E, ids) == [RowFor(E, ids) EXCEPT !.identity = w.identity]

SnapshotOf(op, s, before, E, ids) ==
    [op |-> op, sprint |-> s, before |-> before, after |-> Desired(E, ids), active |-> ids]

\* The history part of verify_composite_score_state_for_run.
Replays(E, r, h) ==
    /\ Len(h) > 0
    /\ h[1].op = "initialize"
    /\ \A i \in 1 .. Len(h) :
        /\ h[i].op # "rebuild" /\ i > 1 => h[i].before = h[i-1].after
        /\ h[i].op = "initialize" => i = 1 /\ h[i].before = NoState
        /\ h[i].op = "process" => h[i].sprint \in Recorded(E, r) \ ActiveAfter(h, i - 1)
        /\ h[i].op = "reverse" => h[i].sprint \in ActiveAfter(h, i - 1)
        /\ h[i].active = Recorded(E, r) \cap ActiveAfter(h, i)
        /\ h[i].after = Desired(E, h[i].active)

\* verify_composite_score_state_for_run as a whole.
Verified(E, r, h, w) ==
    /\ w.state # NoState
    /\ Replays(E, r, h)
    /\ Processed(h) = Recorded(E, r)
    /\ w = RowFor(E, Active(E, r, h))

-----------------------------------------------------------------------------
Init ==
    /\ event = [s \in Sprint |-> 0]
    /\ history = [r \in Run |-> <<>>]
    /\ row = [r \in Run |-> NoRow]
    /\ txn = Idle

Begin(call, r, s, E) ==
    /\ txn = Idle
    /\ txn' = [phase |-> "begun", call |-> call, run |-> r, sprint |-> s,
               event |-> E, history |-> history[r], row |-> row[r]]
    /\ UNCHANGED <<event, history, row>>


\* synchronize_composite_score_state_for_run, called at startup and when a practice starts.
Synchronize(r) == Begin("synchronize", r, NoSprint, event)

\* Mutant of CreateCompletionCredit: an existing event is overwritten.
CreateOrReplaceCredit(s, credit) ==
    Begin("closeout", RunOf[s], s, [event EXCEPT ![s] = credit])

\* create_completion_credit_event; a sprint that has its event keeps it and is only applied.
CreateCompletionCredit(s, credit) ==
    Begin("closeout", RunOf[s], s,
          IF event[s] = 0 THEN [event EXCEPT ![s] = credit] ELSE event)

\* reverse_completion_credit_event.
ReverseCompletionCredit(s) ==
    /\ event[s] # 0
    /\ Begin("reverse", RunOf[s], s, event)

\* Replace the working copy of the history and the row, and move on to the next phase.
Work(h, w, phase) ==
    /\ txn' = [txn EXCEPT !.history = h, !.row = w, !.phase = phase]
    /\ UNCHANGED <<event, history, row>>

Abort ==
    /\ txn' = Idle
    /\ UNCHANGED <<event, history, row>>

\* Mutant of Initialize: the history starts afresh with every call.
InitializeAgain ==
    /\ txn.phase = "begun"
    /\ Work(<<SnapshotOf("initialize", NoSprint, NoState, txn.event, {})>>,
            RowFor(txn.event, {}), "initialized")

\* _initialize_locked: a row and an INITIALIZE snapshot exist together or not at all.  A
\* unique constraint allows a run one such snapshot, so a deleted row is not created again.
Initialize ==
    /\ txn.phase = "begun"
    /\ LET known == \E i \in DOMAIN txn.history : txn.history[i].op = "initialize"
       IN  IF txn.row.state = NoState /\ ~known
             THEN Work(Append(txn.history,
                              SnapshotOf("initialize", NoSprint, NoState, txn.event, {})),
                       RowFor(txn.event, {}), "initialized")
             ELSE IF txn.row.state # NoState /\ known
               THEN Work(txn.history, txn.row, "initialized")
               ELSE Abort

Pending == Recorded(txn.event, txn.run) \ Processed(txn.history)

\* Mutant of ProcessEvent: the snapshot claims to continue the last one, whatever the row says.
ProcessOntoHistory ==
    /\ txn.phase = "initialized"
    /\ \E s \in Pending :
         LET ids == Active(txn.event, txn.run, txn.history) \cup {s}
         IN  Work(Append(txn.history, SnapshotOf("process", s, txn.history[Len(txn.history)].after,
                                                 txn.event, ids)),
                  Written(txn.row, txn.event, ids), "initialized")

\* _process_event_locked, for one event of the loop.  The loop orders by
\* created_at, which the wall clock supplies, so any order is possible.
ProcessEvent ==
    /\ txn.phase = "initialized"
    /\ \E s \in Pending :
         LET ids == Active(txn.event, txn.run, txn.history) \cup {s}
         IN  Work(Append(txn.history, SnapshotOf("process", s, txn.row.state, txn.event, ids)),
                  Written(txn.row, txn.event, ids), "initialized")

\* Mutant of Repair: damaged metadata is not looked at.
RepairPayloadOnly ==
    /\ txn.phase = "initialized"
    /\ Pending = {}
    /\ LET ids == Active(txn.event, txn.run, txn.history)
       IN  IF txn.row.state = Desired(txn.event, ids)
             THEN Work(txn.history, txn.row, "synchronized")
             ELSE Work(Append(txn.history,
                              SnapshotOf("rebuild", NoSprint, txn.row.state, txn.event, ids)),
                       Written(txn.row, txn.event, ids), "synchronized")

\* _repair_locked, for the payload and the metadata columns _write_state rewrites; the other
\* columns are neither compared nor rewritten.
Repair ==
    /\ txn.phase = "initialized"
    /\ Pending = {}
    /\ LET ids == Active(txn.event, txn.run, txn.history)
       IN  IF txn.row = Written(txn.row, txn.event, ids)
             THEN Work(txn.history, txn.row, "synchronized")
             ELSE Work(Append(txn.history,
                              SnapshotOf("rebuild", NoSprint, txn.row.state, txn.event, ids)),
                       Written(txn.row, txn.event, ids), "synchronized")

\* Mutant of Verify: only the row is compared.
VerifyRowOnly ==
    /\ txn.phase = "synchronized"
    /\ IF txn.row = RowFor(txn.event, Active(txn.event, txn.run, txn.history))
         THEN Work(txn.history, txn.row, "verified")
         ELSE Abort

\* verify_composite_score_state_for_run; an error rolls the transaction back.
Verify ==
    /\ txn.phase = "synchronized"
    /\ IF Verified(txn.event, txn.run, txn.history, txn.row)
         THEN Work(txn.history, txn.row, "verified")
         ELSE Abort

ReversalDue == txn.call = "reverse" /\ txn.sprint \notin Reversed(txn.history)

\* The part of reverse_completion_credit_event after the synchronisation: it ends with a
\* verification of its own.
Reverse ==
    /\ txn.phase = "verified"
    /\ ReversalDue
    /\ LET ids == Active(txn.event, txn.run, txn.history) \ {txn.sprint}
       IN  Work(Append(txn.history,
                       SnapshotOf("reverse", txn.sprint, txn.row.state, txn.event, ids)),
                Written(txn.row, txn.event, ids), "synchronized")

Commit ==
    /\ txn.phase = "verified"
    /\ ~ReversalDue
    /\ event' = txn.event
    /\ history' = [history EXCEPT ![txn.run] = txn.history]
    /\ row' = [row EXCEPT ![txn.run] = txn.row]
    /\ txn' = Idle

\* The worker dies, or the surrounding transaction fails for a reason of its own.
Crash == txn # Idle /\ Abort

Repairs(h) == {i \in DOMAIN h : h[i].op = "rebuild"}

\* Somebody edits a column of the mutable row behind the service's back, or puts it right:
\* the payload, its hash, the event metadata, or the user and versions.
Edit(r) ==
    /\ row[r].state # NoState
    /\ \/ \E st \in State : row' = [row EXCEPT ![r].state = st]
       \/ \E st \in State : row' = [row EXCEPT ![r].stateHash = st]
       \/ \E ids \in SUBSET Sprint : row' = [row EXCEPT ![r].active = ids]
       \/ \E id \in {"own", "foreign"} : row' = [row EXCEPT ![r].identity = id]

Delete(r) == row' = [row EXCEPT ![r] = NoRow]

\* The row that somebody puts back is the one the last snapshot left.
PutBack(r) ==
    /\ row[r].state = NoState
    /\ row' = [row EXCEPT ![r] = RowFor(event, Active(event, r, history[r]))]

\* A row that was once created is edited, deleted or put back.  The snapshots and events
\* refuse every update and delete.
Damage(r) ==
    /\ txn = Idle
    /\ history[r] # <<>>
    /\ Cardinality(Repairs(history[r])) < MaxRebuilds
    /\ Edit(r) \/ Delete(r) \/ PutBack(r)
    /\ UNCHANGED <<event, history, txn>>

Step == Initialize \/ ProcessEvent \/ Repair \/ Verify \/ Reverse \/ Commit

Next ==
    \/ \E r \in Run : Synchronize(r) \/ Damage(r)
    \/ \E s \in Sprint, credit \in Credit : CreateCompletionCredit(s, credit)
    \/ \E s \in Sprint : ReverseCompletionCredit(s)
    \/ Step
    \/ Crash

Spec == Init /\ [][Next]_vars

\* A running call goes on to its end, workers do not die for ever, and every run is
\* synchronised again and again (the container runs the rebuild on each start).
FairSpec ==
    /\ Spec
    /\ WF_vars(Step)
    /\ <>[][~Crash]_vars
    /\ \A r \in Run : SF_vars(Synchronize(r))

-----------------------------------------------------------------------------
\* The audit trail always verifies: whatever calls, failures and damaged rows there were,
\* the committed history of a run replays from its events, without a gap except at a repair.
HistoryReplays ==
    \A r \in Run : history[r] # <<>> => Replays(event, r, history[r])

\* A closeout event never waits: the transaction that records an event also processes it,
\* so no committed event is missing from its run's history and nothing else is in it.
EveryEventProcessed ==
    \A r \in Run : Processed(history[r]) = Recorded(event, r)

\* The latest audited credit of a competency is the best among the closeouts of that run
\* that were not reversed, in particular after the best one is reversed; 0 if none is left.
BestStandingCredit ==
    \A r \in Run : history[r] # <<>> =>
        \A c \in Competency :
            LET standing == {s \in Sprint : /\ RunOf[s] = r
                                           /\ CompetencyOf[s] = c
                                           /\ event[s] # 0
                                           /\ s \notin Reversed(history[r])}
                credit == history[r][Len(history[r])].after[c]
            IN  /\ \A s \in standing : event[s] =< credit
                /\ IF standing = {} THEN credit = 0 ELSE \E s \in standing : event[s] = credit

\* The payload in the row is the one the last snapshot left.
PayloadIntact(r) ==
    row[r].state = IF history[r] = <<>> THEN NoState ELSE history[r][Len(history[r])].after

\* What a synchronisation can restore: a row that is there, under its own user and versions,
\* or one that was never created.
Repairable(r) ==
    IF history[r] = <<>> THEN row[r] = NoRow
                         ELSE row[r].state # NoState /\ row[r].identity = "own"

\* The final verification is never the reason a sound call fails.  It rejects a call only if
\* somebody, before the call began, set the user or a version of the row, which nothing
\* repairs, or damaged the payload on top of which the call adds an event.
OnlyDamageIsRejected ==
    /\ txn.phase = "synchronized"
    /\ Repairable(txn.run)
    /\ txn.event = event \/ PayloadIntact(txn.run)
    => Verified(txn.event, txn.run, txn.history, txn.row)

Appends ==
    /\ \A s \in Sprint : event[s] # 0 => event'[s] = event[s]
    /\ \A r \in Run : /\ Len(history[r]) =< Len(history'[r])
                       /\ SubSeq(history'[r], 1, Len(history[r])) = history[r]

\* Events are never lost or changed and snapshots are never rewritten: a commit only appends.
OnlyAppends == [][Appends]_vars

\* Whenever the history of a run grows, the row committed with it is the replay of that
\* history, even if the row was damaged before: no call commits on top of a damaged row.
CommitsMatchReplay ==
    [][\A r \in Run : history'[r] # history[r] => Verified(event', r, history'[r], row'[r])]_vars

\* A closeout that finds a damaged payload commits nothing; the damage waits for a
\* synchronisation, and the credit for a second attempt.  No attempt succeeds while the row
\* is missing or carries another user or version.
DamageBlocksCloseout ==
    [][\A s \in Sprint : event'[s] # event[s] =>
          PayloadIntact(RunOf[s]) /\ Repairable(RunOf[s])]_vars


\* The ledger keeps the promise of CreditLedger: transactions and snapshots are hidden, the
\* withdrawn events are those with a REVERSE snapshot, the row is what is published, and a
\* run whose row cannot be restored is blocked and publishes nothing.
Promise == INSTANCE CreditLedger WITH
    reversed  <- UNION {Reversed(history[r]) : r \in Run},
    published <- [r \in Run |-> IF Repairable(r) THEN row[r].state ELSE NoState],
    blocked   <- {r \in Run : ~Repairable(r)}

\* Every committed call is an award, a withdrawal, a restoration or nothing.
KeepsPromise == Promise!Spec
=============================================================================
