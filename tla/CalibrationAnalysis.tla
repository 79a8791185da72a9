--------------------------- MODULE CalibrationAnalysis ---------------------------
(***************************************************************************)
(* What a completed assessment must look like to enter the calibration     *)
(* dataset (_validated_assessment_payload), what the dataset says of a     *)
(* participant's runs (build_assessment_calibration_export), what the      *)
(* analysis accepts (_validate_export), and what it publishes.  The two    *)
(* validators are separate code, and agree except on repeated flags.       *)
(* A response is its value; timings are known by their items, by whether   *)
(* they add up to the recorded totals, and by how they were taken.  The    *)
(* quantiles and the agreement rates themselves are left out.              *)
(***************************************************************************)
EXTENDS Integers, Sequences, FiniteSets, SequencesExt

CONSTANTS
    Core,             \* the items every assessment asks
    Capability,       \* the adaptive capability clarifiers
    Orientation,      \* the adaptive orientation clarifiers
    AllowsNA,         \* the items that may not apply
    CapabilityLimit,  \* clarifiers of each kind an assessment may ask (8 and 2 in the code)
    OrientationLimit,
    SmallCell,        \* observations a published number needs (5)
    MinRetest,        \* participants, and pairs, a retest agreement needs (30)
    Inputs            \* the cohorts examined: sequences of sequences of stored runs

VARIABLES
    contributed,  \* the stored, consented runs of each participant
    analysis      \* the analysis of the dataset they make

vars == <<contributed, analysis>>

Version == "1.1"
Source == {"application", "share_code"}
Scale == {"1", "2", "3", "4", "5"}
Flag == {"fast", "straight-lining"}
Method == "full interval"     \* EXPECTED_TIMING_METHOD

Answered(run) == DOMAIN run.answers
Clarified(run) == Answered(run) \ Core

\* Each clarifier is known and there are no more of them than an assessment asks.
WithinLimits(items) ==
    /\ items \subseteq Capability \cup Orientation
    /\ Cardinality(items \cap Capability) =< CapabilityLimit
    /\ Cardinality(items \cap Orientation) =< OrientationLimit

ValidResponse(item, value) == value \in Scale \/ (value = "NA" /\ item \in AllowsNA)

\* A stored run that may be contributed.
ValidPayload(run) ==
    /\ run.version = Version /\ run.source \in Source
    /\ Core \subseteq Answered(run) /\ WithinLimits(Clarified(run))
    /\ \A i \in Answered(run) : ValidResponse(i, run.answers[i])
    /\ run.timed \subseteq Answered(run)
    /\ run.source = "application" =>
         /\ run.timed = Answered(run)
         /\ run.total = "adds up" /\ run.quality = "adds up"
    /\ run.quality # "missing"
    /\ Range(run.flags) \subseteq Flag
    /\ run.method = Method

\* Mutant of Export: runs are numbered by their consent, not within what is exported.
ExportByConsent(runs) ==
    [k \in DOMAIN runs |-> [run |-> runs[k], sequence |-> k + 1, day |-> runs[k].day - runs[1].day]]

\* A participant's runs in the dataset: in the order they were taken, numbered from one, with the
\* days since the first.  Timings of a shared assessment are what its code carried.
Export(runs) ==
    [k \in DOMAIN runs |-> [run |-> runs[k], sequence |-> k, day |-> runs[k].day - runs[1].day]]

Earlier(runs, j, k) == runs[j].day < runs[k].day \/ (runs[j].day = runs[k].day /\ j < k)
Oldest(runs) ==
    LET order == CHOOSE o \in [DOMAIN runs -> DOMAIN runs] :
                    \A j, k \in DOMAIN runs : j < k => Earlier(runs, o[j], o[k])
    IN  [k \in DOMAIN runs |-> runs[order[k]]]

\* The export sorts the flags of a run and keeps repetitions.
Repeats(flags) == Len(flags) # Cardinality(Range(flags))

\* What the analysis accepts of a participant: exact inventories and limits, responses on the
\* scale, complete timing that replays where the application took it, an intact numbering, and
\* flags without repetition.
AcceptsRun(r, k) ==
    /\ r.run.version = Version /\ r.run.source \in Source
    /\ r.sequence = k
    /\ Core \subseteq Answered(r.run) /\ WithinLimits(Clarified(r.run))
    /\ \A i \in Answered(r.run) : ValidResponse(i, r.run.answers[i])
    /\ r.run.timed \subseteq Answered(r.run)
    /\ r.run.source = "application" =>
         r.run.timed = Answered(r.run) /\ r.run.total = "adds up" /\ r.run.quality = "adds up"
    /\ r.run.quality # "missing"
    /\ Range(r.run.flags) \subseteq Flag /\ ~Repeats(r.run.flags)
    /\ r.run.method = Method

Accepts(rows) ==
    /\ rows # <<>> /\ rows[1].day = 0
    /\ \A k \in DOMAIN rows : AcceptsRun(rows[k], k) /\ rows[k].day >= 0
    /\ \A k \in DOMAIN rows \ {1} : rows[k].day >= rows[k - 1].day

-----------------------------------------------------------------------------
(* What the analysis publishes of the rows; -1 stands for a number held back. *)

Cell(n) == IF n > 0 /\ n < SmallCell THEN -1 ELSE n

\* Every run of the dataset, by participant and number, and those with a property.
Taken(cohort) == UNION {{p} \X DOMAIN cohort[p] : p \in DOMAIN cohort}
RunAt(cohort, e) == cohort[e[1]][e[2]].run
Count(cohort, Has(_)) == Cardinality({e \in Taken(cohort) : Has(RunAt(cohort, e))})

Answers(run, i, value) == i \in Answered(run) /\ run.answers[i] = value

\* Mutant of Observed: a participant who answered twice is counted once.
ObservedOnce(cohort, i, value) ==
    Cardinality({p \in DOMAIN cohort : \E k \in DOMAIN cohort[p] : Answers(cohort[p][k].run, i, value)})

Observed(cohort, i, value) == Count(cohort, LAMBDA run : Answers(run, i, value))

Distribution(cohort) ==
    [i \in Core \cup Capability \cup Orientation |->
        [v \in Scale \cup {"NA"} |-> Cell(Observed(cohort, i, v))]]

\* The items whose timings are published, from SmallCell observations on.
Timed(cohort, i) == Count(cohort, LAMBDA run : i \in run.timed)
Medians(cohort) == {i \in Core \cup Capability \cup Orientation : Timed(cohort, i) >= SmallCell}

Retested(cohort) == {p \in DOMAIN cohort : Len(cohort[p]) > 1}

\* The consecutive pairs of runs of one participant, each by its later run, and those that answered
\* an item both times.
Pairs(cohort) == {e \in Taken(cohort) : e[2] > 1}
Before(e) == <<e[1], e[2] - 1>>
Paired(cohort, i) ==
    {e \in Pairs(cohort) : "NA" \notin {RunAt(cohort, e).answers[i], RunAt(cohort, Before(e)).answers[i]}}

\* The items whose agreement is published.
Agreements(cohort) ==
    IF Cardinality(Retested(cohort)) < MinRetest THEN {}
    ELSE {i \in Core : Cardinality(Paired(cohort, i)) >= MinRetest}

\* The evidence axes that become candidates for a qualified analysis; none is ever completed.
Candidates(cohort) ==
    (IF Cardinality(DOMAIN cohort) >= MinRetest THEN {"distribution", "missingness"} ELSE {})
      \cup (IF Cardinality(Retested(cohort)) >= MinRetest THEN {"retest"} ELSE {})

\* The report.  The participants, the runs, their sources, the pairs and the participants with
\* retests are published whatever their number, the answers and the flags from SmallCell on.
Analysis(cohort) ==
    [participants |-> Cardinality(DOMAIN cohort), runs |-> Cardinality(Taken(cohort)),
     sources |-> [s \in Source |-> Count(cohort, LAMBDA run : run.source = s)],
     pairs |-> Cardinality(Pairs(cohort)), retested |-> Cardinality(Retested(cohort)),
     cells |-> Distribution(cohort), medians |-> Medians(cohort),
     flags |-> [f \in Flag |-> Cell(Count(cohort, LAMBDA run : f \in Range(run.flags)))],
     agreements |-> Agreements(cohort), candidates |-> Candidates(cohort)]

-----------------------------------------------------------------------------
Dataset == [p \in DOMAIN contributed |-> Export(Oldest(contributed[p]))]

Init == contributed \in Inputs /\ analysis = "none"

Analyse ==
    /\ analysis = "none"
    /\ analysis' = IF \E p \in DOMAIN contributed : \E k \in DOMAIN contributed[p] : ~ValidPayload(contributed[p][k])
                 THEN "not exported"
                 ELSE IF \E p \in DOMAIN Dataset : ~Accepts(Dataset[p]) THEN "refused" ELSE "analysed"
    /\ UNCHANGED contributed

Next == Analyse

Spec == Init /\ [][Next]_vars

-----------------------------------------------------------------------------
\* Whatever the export command writes, the analysis accepts, with one exception that stops the
\* analysis of everybody's runs: a run whose scorer raised a flag twice, which the assessment
\* stores and the export writes.
OnlyRepeatedFlagsAreRefused ==
    analysis \in {"refused", "analysed"} =>
        (analysis = "refused" <=>
            \E p \in DOMAIN contributed : \E k \in DOMAIN contributed[p] : Repeats(contributed[p][k].flags))

\* The least and the most a published answer stands for, over all answers to an item.
Total(n) == n["1"] + n["2"] + n["3"] + n["4"] + n["5"] + n["NA"]
Least(cells) == Total([v \in DOMAIN cells |-> IF cells[v] = -1 THEN 1 ELSE cells[v]])
Most(cells) == Total([v \in DOMAIN cells |-> IF cells[v] = -1 THEN SmallCell - 1 ELSE cells[v]])

\* The numbers of a report fit each other: each run has one source and is a participant's first or
\* the later one of a pair; the answers to a core item, those held back included, are one for
\* each run; and an agreement is published only where the report names retests a candidate
\* and counts enough pairs.
ReportAddsUp ==
    analysis = "analysed" =>
        LET a == Analysis(Dataset) IN
        /\ a.sources["application"] + a.sources["share_code"] = a.runs
        /\ a.participants + a.pairs = a.runs
        /\ a.retested =< a.pairs
        /\ \A i \in Core : Least(a.cells[i]) =< a.runs /\ a.runs =< Most(a.cells[i])
        /\ a.agreements # {} => "retest" \in a.candidates /\ a.pairs >= MinRetest

CalibrationIsSound == OnlyRepeatedFlagsAreRefused /\ ReportAddsUp
=============================================================================
