--------------------------- MODULE LegacyScoreState ---------------------------
(***************************************************************************)
(* The legacy score ledger of growth/services/score_state.py: the lever    *)
(* rows of an assessment run are moved by every submitted check-in of a    *)
(* sprint with the legacy scoring contract, at once when the check-in is   *)
(* submitted, otherwise when the container starts.                         *)
(*                                                                         *)
(* A service call is one transaction, here one action that commits or      *)
(* leaves no trace (CompositeScoreState opens such a call up).  The lever  *)
(* rows are a function of the run's baselines and of the active events     *)
(* that contribute; so a payload is represented by those events.           *)
(***************************************************************************)
EXTENDS Naturals, Sequences, FiniteSets, SequencesExt

CONSTANTS
    Run, Protocol,
    CheckIn,     \* check-ins of sprints with the legacy contract; an evidence event has its check-in's name
    RunOf, ProtocolOf,
    Counts,      \* the events with a contribution that is not excluded
    NoBaseline,  \* the events on a lever whose baseline the assessment does not contain
    NoEvent,
    RunOrder,    \* the runs in the order in which the command takes them
    MaxHistory   \* bound: no damage and no restart once a run has this many snapshots

VARIABLES
    submitted,  \* the submitted check-ins, first to last
    recorded,   \* the check-ins that have their evidence event
    eligible,   \* the protocols whose evidence moves scores
    history,    \* ScoreSnapshot rows of each run
    rows,       \* the payload of the LeverState rows of each run
    astray,     \* the runs that miss a lever row, or with one of another user, baseline, lever or run
    stage       \* how far the start of the container is: backfill, then each run of RunOrder

vars == <<submitted, recorded, eligible, history, rows, astray, stage>>

Payload == SUBSET Counts
NoRows == {NoEvent}    \* the payload of a run without lever rows
Snapshot == [op     : {"initialize", "process", "reverse", "rebuild"},
             event  : CheckIn \cup {NoEvent},
             before : Payload \cup {NoRows},
             after  : Payload,
             active : SUBSET CheckIn]

Up == Len(RunOrder) + 1

\* Type correctness: the tables hold values of their columns' types.
TypeOK ==
    /\ submitted \in Seq(CheckIn) /\ recorded \subseteq ToSet(submitted)
    /\ eligible \subseteq Protocol
    /\ history \in [Run -> Seq(Snapshot)]
    /\ rows \in [Run -> Payload \cup {NoRows}]
    /\ astray \subseteq Run
    /\ stage \in 0 .. Up

-----------------------------------------------------------------------------
Touched(h, n, op) == {e \in CheckIn : \E i \in 1 .. n : h[i].op = op /\ h[i].event = e}
ActiveAfter(h, n) == Touched(h, n, "process") \ Touched(h, n, "reverse")
Processed(h) == Touched(h, Len(h), "process")
Active(h) == ActiveAfter(h, Len(h))

\* validate_production_scoring_protocol: the evidence of this check-in's protocol moves scores.
Scored(e, elig) == ProtocolOf[e] \in elig

\* _baseline_mass: every lever of the protocol's competency has a baseline with its mass.
HasBaseline(e) == e \notin NoBaseline

\* project_assessment_events: the events with a contribution to some lever.
Contributing(ids) == ids \cap Counts

\* _desired_state, for the active events `ids`.
Desired(ids) == Contributing(ids)

SnapshotOf(op, e, before, ids) ==
    [op |-> op, event |-> e, before |-> before, after |-> Desired(ids), active |-> ids]

\* _events_for_run: the events of the run that count.  A protocol that was eligible once stays
\* so for the events already processed.
EventsOf(sub, rec, elig, r, h) ==
    {e \in ToSet(sub) : /\ e \in rec /\ RunOf[e] = r
                        /\ Scored(e, elig) \/ e \in Processed(h)}

\* The count check of _events_for_run: no check-in without its event.
Complete(sub, rec, elig, r) ==
    \A e \in ToSet(sub) : RunOf[e] = r /\ Scored(e, elig) => e \in rec

\* verify_score_state_for_run on the history `h` and the rows `w` of a run with events `evs`.
Verified(evs, h, w) ==
    /\ w # NoRows
    /\ h # <<>> /\ h[1].op = "initialize"
    /\ \A i \in DOMAIN h :
        /\ i > 1 /\ h[i].op # "rebuild" => h[i].before = h[i-1].after
        /\ h[i].op = "initialize" => i = 1 /\ h[i].before = NoRows
        /\ h[i].op = "process" => h[i].event \in evs \ ActiveAfter(h, i - 1)
        /\ h[i].op = "reverse" => h[i].event \in ActiveAfter(h, i - 1)
        /\ h[i].active = ActiveAfter(h, i)
        /\ h[i].after = Desired(h[i].active)
    /\ Processed(h) = evs
    /\ w = Desired(Active(h))
    /\ w = h[Len(h)].after /\ h[Len(h)].active = Active(h)

-----------------------------------------------------------------------------
(* synchronize_score_state_for_run, as a function of the tables: the steps   *)
(* of the call and the outcome.                                              *)

Ledger(h, w) == [history |-> h, rows |-> w]
NoLedger == Ledger(<<>>, NoRows)   \* the call raised

\* _initialize_locked
Initialized(h, w) ==
    IF w = NoRows
      THEN Ledger(Append(h, SnapshotOf("initialize", NoEvent, NoRows, {})), Desired({}))
      ELSE Ledger(h, w)

\* _process_event_locked for each of the events `pend`, which start from the rows as they are.
ProcessAll(l, pend) ==
    LET upTo(i) == Active(l.history) \cup {pend[j] : j \in 1 .. i}
        before(i) == IF i = 1 THEN l.rows ELSE Desired(upTo(i - 1))
        new == [i \in DOMAIN pend |->
                    SnapshotOf("process", pend[i], before(i), upTo(i))]
    IN  IF pend = <<>> THEN l
        ELSE Ledger(l.history \o new, Desired(upTo(Len(pend))))

\* _repair_locked
Repaired(l) ==
    LET ids == Active(l.history)
    IN  IF l.rows = Desired(ids) THEN l
        ELSE Ledger(Append(l.history, SnapshotOf("rebuild", NoEvent, l.rows, ids)),
                    Desired(ids))

\* The ledger after the events `pend` of the run were processed and the rows repaired.
Reconciled(pend, h, w) == Repaired(ProcessAll(Initialized(h, w), pend))

\* The events `S`, in the order of submission: the ordering of _events_for_run.
Ordered(sub, S) ==
    LET first[n \in 0 .. Len(sub)] ==
            IF n = 0 THEN <<>>
            ELSE IF sub[n] \in S THEN Append(first[n - 1], sub[n]) ELSE first[n - 1]
    IN  first[Len(sub)]

PendingOf(sub, rec, elig, r, h) ==
    Ordered(sub, EventsOf(sub, rec, elig, r, h) \ Processed(h))

\* _desired_state raises for an event without a baseline, _events_for_run for a check-in
\* without its event, the coverage check of _initialize_locked and the links of the verification
\* for rows that are astray, and the verification for whatever else it finds.
Synchronized(sub, rec, elig, r, h, w) ==
    LET pend == PendingOf(sub, rec, elig, r, h)
        l == Reconciled(pend, h, w)
    IN  IF /\ r \notin astray
           /\ Complete(sub, rec, elig, r)
           /\ \A e \in ToSet(pend) : HasBaseline(e)
           /\ Verified(EventsOf(sub, rec, elig, r, h), l.history, l.rows)
        THEN l ELSE NoLedger

\* The part of reverse_evidence_event after the synchronisation gave the ledger `l`.
Withdrawn(l, e) ==
    LET ids == Active(l.history) \ {e}
        h == Append(l.history, SnapshotOf("reverse", e, l.rows, ids))
    IN  IF e \in Touched(l.history, Len(l.history), "reverse") THEN l
        ELSE Ledger(h, Desired(ids))

Store(r, l) ==
    /\ history' = [history EXCEPT ![r] = l.history]
    /\ rows' = [rows EXCEPT ![r] = l.rows]

-----------------------------------------------------------------------------
\* A database of an earlier release: some check-ins have no event yet, no ledger exists.
Init ==
    /\ submitted \in {s \in UNION {[1 .. n -> CheckIn] : n \in 0 .. 2} :
                          \A i, j \in DOMAIN s : s[i] = s[j] => i = j}
    /\ recorded \in SUBSET ToSet(submitted)
    /\ eligible \in SUBSET Protocol
    /\ history = [r \in Run |-> <<>>]
    /\ rows = [r \in Run |-> NoRows]
    /\ astray = {}
    /\ stage = 0

\* backfill_evidence_events
Backfill ==
    /\ stage = 0
    /\ recorded' = ToSet(submitted)
    /\ stage' = 1
    /\ UNCHANGED <<submitted, eligible, history, rows, astray>>

\* One run of synchronize_all_score_states at startup.  An error ends the command, the
\* entrypoint and the container, which the supervisor starts again.
RebuildNext ==
    /\ stage \in 1 .. Len(RunOrder)
    /\ LET r == RunOrder[stage]
           l == Synchronized(submitted, recorded, eligible, r, history[r], rows[r])
       IN  IF l = NoLedger
             THEN stage' = 0 /\ UNCHANGED <<history, rows>>
             ELSE Store(r, l) /\ stage' = stage + 1
    /\ UNCHANGED <<submitted, recorded, eligible, astray>>

\* synchronize_score_state_for_run of a serving container: an assessment is imported again, or
\* the operator runs the command.
Synchronize(r) ==
    /\ stage = Up
    /\ LET l == Synchronized(submitted, recorded, eligible, r, history[r], rows[r])
       IN  l # NoLedger /\ Store(r, l)
    /\ UNCHANGED <<submitted, recorded, eligible, astray, stage>>

\* Mutant of Submit: an event that cannot be applied is kept for later.
SubmitAnyway(e) ==
    /\ stage = Up
    /\ e \notin ToSet(submitted)
    /\ submitted' = Append(submitted, e)
    /\ recorded' = recorded \cup {e}
    /\ LET l == Synchronized(submitted', recorded', eligible, RunOf[e], history[RunOf[e]], rows[RunOf[e]])
       IN  IF l # NoLedger THEN Store(RunOf[e], l) ELSE UNCHANGED <<history, rows>>
    /\ UNCHANGED <<eligible, astray, stage>>

\* save_check_in with submit: the check-in, its event and, for an eligible protocol, the score
\* (apply_evidence_event) in one transaction.
Submit(e) ==
    /\ stage = Up
    /\ e \notin ToSet(submitted)
    /\ submitted' = Append(submitted, e)
    /\ recorded' = recorded \cup {e}
    /\ IF Scored(e, eligible)
         THEN LET r == RunOf[e]
                  l == Synchronized(submitted', recorded', eligible, r, history[r], rows[r])
              IN  l # NoLedger /\ Store(r, l)
         ELSE UNCHANGED <<history, rows>>
    /\ UNCHANGED <<eligible, astray, stage>>

\* reverse_evidence_event
ReverseEvent(e) ==
    /\ stage = Up
    /\ e \in recorded /\ Scored(e, eligible)
    /\ LET r == RunOf[e]
           l == Synchronized(submitted, recorded, eligible, r, history[r], rows[r])
           evs == EventsOf(submitted, recorded, eligible, r, history[r])
       IN  /\ l # NoLedger
           /\ Verified(evs, Withdrawn(l, e).history, Withdrawn(l, e).rows)
           /\ Store(r, Withdrawn(l, e))
    /\ UNCHANGED <<submitted, recorded, eligible, astray, stage>>

Short == \A r \in Run : Len(history[r]) < MaxHistory

\* A new release is deployed: seed_canonical makes the evidence of more protocols count.
Release ==
    /\ stage = Up /\ Short
    /\ \E more \in SUBSET Protocol : eligible' = eligible \cup more
    /\ stage' = 0
    /\ UNCHANGED <<submitted, recorded, history, rows, astray>>

\* The payload of the lever rows is edited behind the service's back.
Edit(r) ==
    /\ rows[r] # NoRows
    /\ \E w \in Payload : rows' = [rows EXCEPT ![r] = w]
    /\ UNCHANGED astray

\* A lever row is deleted or linked to another user, baseline, lever or run, which may be this
\* one; or the owner's rows are put right again.
Relink(r) ==
    /\ Len(history[r]) < MaxHistory - 1   \* bound: only while the trail of the run is short
    /\ astray' \in {astray \cup {r}, astray \ {r}}
    /\ UNCHANGED rows

Damage(r) ==
    /\ Short
    /\ Edit(r) \/ Relink(r)
    /\ UNCHANGED <<submitted, recorded, eligible, history, stage>>

Next ==
    \/ Backfill \/ RebuildNext \/ Release
    \/ \E r \in Run : Synchronize(r) \/ Damage(r)
    \/ \E e \in CheckIn : Submit(e) \/ ReverseEvent(e)

Spec == Init /\ [][Next]_vars

-----------------------------------------------------------------------------
EventsNow(r) == EventsOf(submitted, recorded, eligible, r, history[r])
Pending(r) == EventsNow(r) \ Processed(history[r])
Drifted(r) == history[r] # <<>> /\ rows[r] # history[r][Len(history[r])].after
Intact(r) == r \notin astray /\ ~Drifted(r)

\* While nobody edits the rows, the rows of a serving container are what its events imply, and
\* the audit trail replays, release after release.
ServesVerifiedScores ==
    stage = Up => \A r \in Run : Intact(r) => Verified(EventsNow(r), history[r], rows[r])

\* A check-in that was accepted is in the scores of its run or is an event of a protocol that
\* did not count when it was submitted: the container does not serve with work left over.
NothingLeftOver == stage = Up => \A r \in Run : Pending(r) = {}

\* The start of the container fails only for a run that misses a lever row or has one with the
\* wrong links, which nothing repairs, or with an event to process that has no baseline or meets
\* a damaged payload.  A damaged payload alone is repaired, and all other events are processed,
\* even those of a protocol that did not count when they were submitted.
OnlyPendingEventsStopStart ==
    [][\A r \in Run :
          stage \in 1 .. Len(RunOrder) /\ stage' = 0 /\ RunOrder[stage] = r
              => \/ r \in astray
                 \/ Pending(r) # {} /\ (Drifted(r) \/ \E e \in Pending(r) : ~HasBaseline(e))]_vars

\* What the documentation promises of the rebuild: after it, current state is the replay of the
\* events, whatever drift and whatever pending events it found.
RebuildRepairsDrift ==
    [][\A r \in Run :
          stage \in 1 .. Len(RunOrder) /\ stage' # stage /\ RunOrder[stage] = r /\ r \notin astray
              => Verified(EventsOf(submitted', recorded', eligible', r, history'[r]),
                          history'[r], rows'[r])]_vars
=============================================================================
