--------------------------- MODULE ContextRevisions ---------------------------
(***************************************************************************)
(* The append-only revisions an owner writes next to an assessment run     *)
(* (growth/services/personal_os.py and growth/services/context.py):        *)
(* the Personal OS, the season and capacity, and the context of each       *)
(* practice.  Two pages write them (growth/views_personal_os.py and        *)
(* practice_priority_context in growth/views_practice.py), served by       *)
(* several workers.  The practice page saves a bundle: the context of the  *)
(* practice, and with it the season and capacity as it read them before    *)
(* the transaction.  A transaction reads and later commits; SQLite refuses *)
(* the commit if another one came in between.                              *)
(***************************************************************************)
EXTENDS Naturals, Sequences, FiniteSets

CONSTANTS
    Worker,
    Protocol,       \* practices with a context of their own
    Value,          \* what an owner can write in a form
    Unknown,        \* every field unknown
    MaxEpoch,       \* bound: assessment runs
    MaxRevisions,   \* bound: revisions of a scope in one run
    MaxRequests,    \* bound: forms that are sent
    NoTask

VARIABLES
    epoch,         \* the latest assessment run
    series,        \* the contents of the revisions of each scope, in each run
    posted,          \* forms sent by the owner; one may arrive late or again
    task,          \* what a worker is about to write, and the state its transaction saw
    acknowledged   \* history: forms answered "saved" or "unchanged", and what was saved for them

vars == <<epoch, series, posted, task, acknowledged>>

Scope == {"personal_os", "assessment"} \cup Protocol
Epoch == 1 .. MaxEpoch
Form == [epoch : Epoch, scope : Scope, value : Value]

\* A checked form: what will be written in which scope, and whether the transaction has begun.
Task == [form : Form, bundle : UNION {[S -> Value] : S \in SUBSET Scope},
         run : Epoch, seen : Seq([Epoch \X Scope -> Nat])]

\* Type correctness.
TypeOK ==
    /\ epoch \in Epoch
    /\ series \in [Epoch \X Scope -> Seq(Value)]
    /\ posted \subseteq Form /\ acknowledged \subseteq posted
    /\ \A w \in Worker :
          task[w] = NoTask \/ (task[w] \in Task /\ task[w].form \in posted)

-----------------------------------------------------------------------------
\* _next_revision: the latest number of every series; one grows with every commit that writes.
Stored == [k \in Epoch \X Scope |-> Len(series[k])]

\* latest_assessment_context, _latest: the content in force.
Latest(e, scope) ==
    LET s == series[<<e, scope>>] IN IF s = <<>> THEN Unknown ELSE s[Len(s)]

\* Mutant of Extended: every save appends.
ExtendedAlways(s, value) == Append(s, value)

\* record_personal_os_revision, _persist_assessment_snapshot, _persist_practice_snapshot: a
\* revision is appended unless the latest has the same hash.  The first one is always written.
Extended(s, value) ==
    IF s # <<>> /\ s[Len(s)] = value THEN s ELSE Append(s, value)

Init ==
    /\ epoch = 1
    /\ series = [k \in Epoch \X Scope |-> <<>>]
    /\ posted = {} /\ acknowledged = {}
    /\ task = [w \in Worker |-> NoTask]

\* The owner is assessed again: a new run is the latest, and starts without any revision.
Assess ==
    /\ epoch < MaxEpoch
    /\ epoch' = epoch + 1
    /\ UNCHANGED <<series, posted, task, acknowledged>>

\* The owner sends a form of a page drawn now; the page carries the run as a hidden field.
Send(scope, value) ==
    /\ Cardinality(posted) < MaxRequests
    /\ posted' = posted \cup {[epoch |-> epoch, scope |-> scope, value |-> value]}
    /\ UNCHANGED <<epoch, series, task, acknowledged>>

\* What a form writes: its own scope, and from the practice page also season and capacity as
\* they are now, or all unknown (assessment_factors_from_record).
Bundle(form) ==
    [s \in {form.scope} \cup (IF form.scope \in Protocol THEN {"assessment"} ELSE {}) |->
        IF s = form.scope THEN form.value ELSE Latest(form.epoch, s)]

\* The view: a form of an older run is refused; what goes with it is read.
Receive(w, form) ==
    /\ task[w] = NoTask
    /\ form.epoch = epoch
    /\ task' = [task EXCEPT ![w] =
         [form |-> form, bundle |-> Bundle(form), run |-> epoch, seen |-> <<>>]]
    /\ UNCHANGED <<epoch, series, posted, acknowledged>>

\* The transaction reads the latest revisions.
Begin(w) ==
    /\ task[w] # NoTask /\ task[w].seen = <<>>
    /\ task' = [task EXCEPT ![w].seen = <<Stored>>]
    /\ UNCHANGED <<epoch, series, posted, acknowledged>>

\* The series after a commit: every part of the bundle, or nothing.
Written(w) ==
    [k \in Epoch \X Scope |->
        IF k[1] = task[w].run /\ k[2] \in DOMAIN task[w].bundle
          THEN Extended(series[k], task[w].bundle[k[2]]) ELSE series[k]]

\* The transaction commits: nobody else has written since it began.
Commit(w) ==
    /\ task[w] # NoTask /\ task[w].seen = <<Stored>>
    /\ series' = Written(w)
    /\ \A k \in Epoch \X Scope : Len(series'[k]) =< MaxRevisions
    /\ acknowledged' = acknowledged \cup {task[w].form}
    /\ task' = [task EXCEPT ![w] = NoTask]
    /\ UNCHANGED <<epoch, posted>>

\* Mutant of Conflict: the loser is told that it was saved.
ConflictIgnored(w) ==
    /\ task[w] # NoTask /\ task[w].seen \notin {<<>>, <<Stored>>}
    /\ acknowledged' = acknowledged \cup {task[w].form}
    /\ task' = [task EXCEPT ![w] = NoTask]
    /\ UNCHANGED <<epoch, series, posted>>

\* Another transaction committed first: the store is busy, or the revision number is taken by
\* another content; the page asks to reload.
Conflict(w) ==
    /\ task[w] # NoTask /\ task[w].seen \notin {<<>>, <<Stored>>}
    /\ task' = [task EXCEPT ![w] = NoTask]
    /\ UNCHANGED <<epoch, series, posted, acknowledged>>

\* The worker dies, and its transaction with it.
Die(w) ==
    /\ task[w] # NoTask
    /\ task' = [task EXCEPT ![w] = NoTask]
    /\ UNCHANGED <<epoch, series, posted, acknowledged>>

Next ==
    \/ Assess
    \/ \E scope \in Scope, value \in Value : Send(scope, value)
    \/ \E w \in Worker : \/ \E form \in posted : Receive(w, form)
                         \/ Begin(w) \/ Commit(w) \/ Conflict(w) \/ Die(w)

Spec == Init /\ [][Next]_vars

-----------------------------------------------------------------------------
\* The history only grows, and no revision repeats the one before it.
HistoryIsKept ==
    [][\A k \in Epoch \X Scope :
          /\ Len(series'[k]) >= Len(series[k])
          /\ SubSeq(series'[k], 1, Len(series[k])) = series[k]
          /\ \A i \in Len(series[k]) + 1 .. Len(series'[k]) :
                i > 1 => series'[k][i] # series'[k][i - 1]]_vars

\* A form that was answered as saved or unchanged is in the history of its run and scope, also
\* when two workers raced for the same revision number.
AcknowledgedIsStored ==
    \A form \in acknowledged :
        \E i \in DOMAIN series[<<form.epoch, form.scope>>] :
            series[<<form.epoch, form.scope>>][i] = form.value

\* Nothing is carried over from one run to the next: all that a run holds was written in a form
\* of that run, or is unknown.
NothingIsCarriedOver ==
    \A e \in Epoch, scope \in Scope :
        \A i \in DOMAIN series[<<e, scope>>] :
            \/ [epoch |-> e, scope |-> scope, value |-> series[<<e, scope>>][i]] \in posted
            \/ scope = "assessment" /\ series[<<e, scope>>][i] = Unknown

\* The ranking asks for both contexts: a practice has one only where season and capacity have.
PracticeComesWithAssessment ==
    \A e \in Epoch, scope \in Protocol :
        series[<<e, scope>>] # <<>> => series[<<e, "assessment">>] # <<>>

=============================================================================
