------------------------------- MODULE Evidence -------------------------------
(***************************************************************************)
(* The numbering of evidence events in growth/services/evidence.py: each   *)
(* submitted check-in has one immutable event that stores how often its    *)
(* action was recorded before in the same sprint.  The number is given at  *)
(* submission, or by the backfill of the container's start to a check-in   *)
(* of the release that had no events; every start and every reader checks  *)
(* it against the check-ins in the order of their timestamps, which come   *)
(* from the wall clock.  What else an event stores is EvidenceContract.    *)
(***************************************************************************)
EXTENDS Naturals, Sequences, FiniteSets

CONSTANTS
    CheckIn,         \* check-ins, named by their stable id: numbers, because ids break ties
    Group,           \* a sprint and one of its actions
    GroupOf,
    MaxTime,         \* bound: the latest reading of the wall
    ClockMayGoBack   \* the wall wall may be set back

VARIABLES
    wall,
    at,      \* submitted_at of each check-in, 0 for a draft
    index,   \* repetition_index of its event, 0 when there is none
    recording,  \* the release writes evidence events
    container,  \* starting, serving, or stopped by an error at start
    order    \* history: the check-ins as they were submitted

vars == <<wall, at, index, recording, container, order>>

\* Type correctness: only a submitted check-in has an event.
TypeOK ==
    /\ wall \in 1 .. MaxTime + 1
    /\ at \in [CheckIn -> 0 .. MaxTime]
    /\ index \in [CheckIn -> 0 .. Cardinality(CheckIn)]
    /\ \A c \in CheckIn : index[c] # 0 => at[c] # 0
    /\ recording \in BOOLEAN
    /\ container \in {"starting", "serving", "stopped"}
    /\ order \in Seq(CheckIn)

-----------------------------------------------------------------------------
Submitted == {c \in CheckIn : at[c] # 0}

\* The order_by of every query: submitted_at, then stable_id (created_at agrees with them).
Earlier(c, d, times) == times[c] < times[d] \/ (times[c] = times[d] /\ c < d)

\* repetition_index_for
Position(c, times) ==
    1 + Cardinality({d \in CheckIn : /\ times[d] # 0 /\ GroupOf[d] = GroupOf[c]
                                     /\ Earlier(d, c, times)})

\* verify_all_evidence_events and _verified_events_for_user: complete coverage in order.
Audited ==
    /\ \A c \in Submitted : index[c] = Position(c, at)
    /\ Cardinality({c \in CheckIn : index[c] # 0}) = Cardinality(Submitted)

Init ==
    /\ wall = 1
    /\ at = [c \in CheckIn |-> 0]
    /\ index = [c \in CheckIn |-> 0]
    /\ recording \in BOOLEAN
    /\ container = "starting"
    /\ order = <<>>

\* save_check_in stamps the check-in; time passes.
Stamp(c) ==
    /\ container = "serving" /\ wall =< MaxTime
    /\ at[c] = 0
    /\ at' = [at EXCEPT ![c] = wall]
    /\ wall' = wall + 1
    /\ order' = Append(order, c)
    /\ UNCHANGED <<recording, container>>

\* create_evidence_event within the submission of a check-in.
Submit(c) ==
    /\ recording
    /\ Stamp(c)
    /\ index' = [index EXCEPT ![c] = Position(c, at')]

\* A submission under the first release, which had no events.
SubmitBefore(c) == ~recording /\ Stamp(c) /\ UNCHANGED index

\* Mutant of Backfill: every event becomes a first one.
BackfillFirst ==
    /\ container = "starting" /\ recording
    /\ IF \A c \in Submitted : index[c] \in {0, Position(c, at)}
         THEN /\ index' = [c \in CheckIn |-> IF c \in Submitted /\ index[c] = 0 THEN 1 ELSE index[c]]
              /\ container' = "serving"
         ELSE container' = "stopped" /\ UNCHANGED index
    /\ UNCHANGED <<wall, at, recording, order>>

\* backfill_evidence_events at the start of the container: one transaction that gives every
\* check-in its event or, if a number disagrees with the timestamps, raises and stops the start.
Backfill ==
    /\ container = "starting" /\ recording
    /\ IF \A c \in Submitted : index[c] \in {0, Position(c, at)}
         THEN /\ index' = [c \in CheckIn |-> IF c \in Submitted THEN Position(c, at) ELSE 0]
              /\ container' = "serving"
         ELSE container' = "stopped" /\ UNCHANGED index
    /\ UNCHANGED <<wall, at, recording, order>>

\* The first release has nothing to backfill.
StartBefore ==
    /\ container = "starting" /\ ~recording
    /\ container' = "serving"
    /\ UNCHANGED <<wall, at, index, recording, order>>

\* The container is started again, perhaps with the release that writes events.
Restart ==
    /\ container # "starting"
    /\ container' = "starting"
    /\ recording' \in {recording, TRUE}
    /\ UNCHANGED <<wall, at, index, order>>

SetClockBack ==
    /\ ClockMayGoBack
    /\ wall' \in 1 .. wall - 1
    /\ UNCHANGED <<at, index, recording, container, order>>

Next ==
    \/ Backfill \/ StartBefore \/ Restart \/ SetClockBack
    \/ \E c \in CheckIn : Submit(c) \/ SubmitBefore(c)

Spec == Init /\ [][Next]_vars

\* While it serves, a release with events has one for every submitted check-in.
EveryCheckInHasItsEvent ==
    container = "serving" /\ recording => \A c \in Submitted : index[c] # 0

\* The start is stopped, and the ledger and the export refused, only when the clock put a
\* check-in before one of the same action that was submitted earlier.
OnlyReorderingStopsStart ==
    recording /\ (container = "stopped" \/ (container = "serving" /\ ~Audited)) =>
        \E i, j \in DOMAIN order :
            i < j /\ GroupOf[order[i]] = GroupOf[order[j]] /\ Earlier(order[j], order[i], at)

\* The number of an event never changes, whatever is submitted or backfilled later.
NumbersStay == [][\A c \in CheckIn : index[c] # 0 => index'[c] = index[c]]_vars
=============================================================================
