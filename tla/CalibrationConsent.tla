--------------------------- MODULE CalibrationConsent ---------------------------
(***************************************************************************)
(* Consent to contribute an assessment to calibration, and the dataset     *)
(* made of it (growth/services/assessment_calibration.py).  Consent is a   *)
(* series of revisions per run; a dataset is read from the latest ones and *)
(* then written to a new file while consent may be withdrawn.  Workers     *)
(* record consent at the same time: a transaction reads one snapshot and   *)
(* commits its write only if nothing was committed since.                  *)
(***************************************************************************)
EXTENDS Naturals, Sequences, FiniteSets

CONSTANTS
    Owner,        \* the participant of each assessment run
    Demo,         \* the runs of the demonstration seed
    Worker,       \* the processes that serve requests
    MaxRevisions, \* bound on the consent rows
    MaxVersion    \* bound on the installed versions of the assessment

Run == DOMAIN Owner

VARIABLES
    rows,     \* the consent revisions, in the order they were committed
    consent,  \* what each worker has read for the request it serves
    version,  \* the installed version of the assessment; every run was taken under version 1
    draft,    \* the dataset read for the export that is under way
    file,     \* the exported dataset
    wishes    \* what each owner asked for last (known to no code)

vars == <<rows, consent, version, draft, file, wishes>>

NoAnalysis == [run |-> "none"]
NoFile == [kind |-> "none"]
Partial == [kind |-> "partial"]

\* Where the history has the revisions of a run, and the one with the highest number.
RowsOf(r, history) == {i \in DOMAIN history : history[i].run = r}
Latest(r, history) ==
    history[CHOOSE i \in RowsOf(r, history) :
                \A j \in RowsOf(r, history) : history[j].revision =< history[i].revision]
Standing(r, history) == IF RowsOf(r, history) = {} THEN "never" ELSE Latest(r, history).state

\* A run that belongs in a dataset: taken by a participant under the installed assessment.
ValidPayload(r) == r \notin Demo /\ version = 1

\* The history an export may rest on: one pseudonym for a participant and one participant for a
\* pseudonym, no demonstration run, and revisions that are contiguous from one.
ValidHistory(history) ==
    /\ \A i \in DOMAIN history : history[i].run \notin Demo
    /\ \A i, j \in DOMAIN history :
         Owner[history[i].run] = Owner[history[j].run] <=> history[i].token = history[j].token
    /\ \A r \in Run :
         {history[i].revision : i \in RowsOf(r, history)} = 1 .. Cardinality(RowsOf(r, history))

Init ==
    /\ rows = <<>> /\ consent = [w \in Worker |-> NoAnalysis] /\ version = 1
    /\ draft = NoFile /\ file = NoFile
    /\ wishes = [r \in Run |-> "never"]

\* A request to give or to withdraw consent reads the owner's history.
Ask(w, r, state) ==
    /\ consent[w] = NoAnalysis
    /\ IF state = "consented" THEN ValidPayload(r) ELSE Standing(r, rows) # "never"
    /\ ValidHistory(rows)
    /\ consent' = [consent EXCEPT ![w] = [run |-> r, state |-> state, seen |-> rows]]
    /\ UNCHANGED <<rows, version, draft, file, wishes>>

\* Mutant of Pseudonym: each run has a pseudonym of its own.
PseudonymOfRun(r, history) ==
    IF RowsOf(r, history) = {} THEN Len(history) + 1 ELSE Latest(r, history).token

\* The participant's pseudonym, drawn with the first row and kept for good.
Pseudonym(r, history) ==
    LET own == {i \in DOMAIN history : Owner[history[i].run] = Owner[r]}
    IN  IF own = {} THEN Len(history) + 1
        ELSE history[CHOOSE i \in own : history[i].revision = 1].token

\* The transaction ends: with no row when the consent stands as asked, with the next revision, or
\* with an error (a restart by the user) when another worker wrote first.
Record(w) ==
    /\ consent[w] # NoAnalysis
    /\ LET c == consent[w] IN
         IF Standing(c.run, c.seen) = c.state THEN
            /\ wishes' = IF c.seen = rows THEN [wishes EXCEPT ![c.run] = c.state] ELSE wishes
            /\ UNCHANGED rows
         ELSE IF c.seen = rows THEN
            /\ Len(rows) < MaxRevisions
            /\ rows' = Append(rows, [run |-> c.run, state |-> c.state, token |-> Pseudonym(c.run, rows),
                                     revision |-> Cardinality(RowsOf(c.run, rows)) + 1])
            /\ wishes' = [wishes EXCEPT ![c.run] = c.state]
         ELSE UNCHANGED <<rows, wishes>>
    /\ consent' = [consent EXCEPT ![w] = NoAnalysis]
    /\ UNCHANGED <<version, draft, file>>

\* A deployment brings a new version of the assessment.
Upgrade ==
    /\ version < MaxVersion /\ version' = version + 1
    /\ UNCHANGED <<rows, consent, draft, file, wishes>>

Active(history) == {r \in Run : Standing(r, history) = "consented"}
Contribution(r, history) == [token |-> Latest(r, history).token, run |-> r]

\* The export command reads the history and every payload; one that is not valid stops it.
ReadDataset ==
    /\ draft = NoFile
    /\ ValidHistory(rows) /\ \A r \in Active(rows) : ValidPayload(r)
    /\ draft' = [kind |-> "whole", runs |-> {Contribution(r, rows) : r \in Active(rows)}, wished |-> wishes]
    /\ UNCHANGED <<rows, consent, version, file, wishes>>

\* The file is created exclusively and empty; an existing one is left alone.
CreateFile ==
    /\ draft # NoFile
    /\ IF file = NoFile THEN file' = Partial /\ UNCHANGED draft
                        ELSE draft' = NoFile /\ UNCHANGED file
    /\ UNCHANGED <<rows, consent, version, wishes>>

WriteFile ==
    /\ draft # NoFile /\ file = Partial
    /\ file' = draft /\ draft' = NoFile
    /\ UNCHANGED <<rows, consent, version, wishes>>

\* An error while the file is written removes it.
WriteFails ==
    /\ draft # NoFile /\ file = Partial
    /\ file' = NoFile /\ draft' = NoFile
    /\ UNCHANGED <<rows, consent, version, wishes>>

\* The process dies: what was written stays.
Crash ==
    /\ draft # NoFile /\ draft' = NoFile
    /\ UNCHANGED <<rows, consent, version, file, wishes>>

\* The operator removes the file.
RemoveFile ==
    /\ file # NoFile /\ draft = NoFile
    /\ file' = NoFile
    /\ UNCHANGED <<rows, consent, version, draft, wishes>>

Next ==
    \/ \E w \in Worker, r \in Run, state \in {"consented", "withdrawn"} : Ask(w, r, state)
    \/ \E w \in Worker : Record(w)
    \/ Upgrade \/ ReadDataset \/ CreateFile \/ WriteFile \/ WriteFails \/ Crash \/ RemoveFile

Spec == Init /\ [][Next]_vars

-----------------------------------------------------------------------------
\* The consent history always verifies, so that it never locks an owner out of a withdrawal: two
\* workers give one participant two pseudonyms, or two revisions one number, in no order.
HistoryVerifies == ValidHistory(rows)

\* A dataset holds exactly the runs whose owner wanted them in it when it was read, each
\* participant under one pseudonym, whatever was withdrawn or failed while it was written.
DatasetIsConsented ==
    file \notin {NoFile, Partial} =>
        /\ {c.run : c \in file.runs} = {r \in Run : file.wished[r] = "consented"}
        /\ \A c, d \in file.runs : Owner[c.run] = Owner[d.run] <=> c.token = d.token

ConsentIsHonoured == HistoryVerifies /\ DatasetIsConsented
=============================================================================
