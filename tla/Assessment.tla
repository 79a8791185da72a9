------------------------------- MODULE Assessment -------------------------------
(***************************************************************************)
(* A completed questionnaire on its way into the database                  *)
(* (growth/services/assessment.py): the payload the browser posts, the     *)
(* share code in it, the validation of both, and the run that is stored    *)
(* once however often the browser posts.  The scorer that makes the result *)
(* runs in the browser.  Alpha, beta and estimates are in ten thousandths, *)
(* raw scores and masses in hundredths.                                    *)
(***************************************************************************)
EXTENDS Integers, Sequences, FiniteSets, SequencesExt

CONSTANTS
    Core,              \* the core items, in the order of the share code
    Capability, Orientation, AllowsNA, CapabilityLimit, OrientationLimit,
    Lever,             \* the levers of the model
    Posted,            \* the payloads examined
    MaxPosts,          \* bound on the posts
    None

VARIABLES
    posts,   \* the payloads posted, in order
    stored   \* submission id -> run

vars == <<posts, stored>>

\* The calibration dataset has a validator of its own for the stored run.
Calibration == INSTANCE CalibrationAnalysis WITH
    Core <- Range(Core), SmallCell <- 1, MinRetest <- 1, Inputs <- {}, contributed <- <<>>, analysis <- "none"

Scale == {"1", "2", "3", "4", "5"}
Whole == 10000      \* one, in ten thousandths
Prior == 3500       \* prior_alpha, prior_beta
MassCap == 320      \* quiz_mass_cap_per_lever
Item == Range(Core) \cup Capability \cup Orientation

-----------------------------------------------------------------------------
\* _normalize_answer, _normalize_responses
IsAnswer(i, value) == value \in Scale \/ (value = "NA" /\ i \in AllowsNA)
AreResponses(responses) ==
    DOMAIN responses \subseteq Item /\ \A i \in DOMAIN responses : IsAnswer(i, responses[i])

\* encode_share_code: one character for each core item, "0" for none; the clarifiers by name.
Encode(responses, total) ==
    [prefix |-> "GGA11",
     core   |-> [k \in DOMAIN Core |-> IF Core[k] \in DOMAIN responses THEN responses[Core[k]] ELSE "0"],
     extras |-> [i \in DOMAIN responses \ Range(Core) |-> responses[i]],
     total  |-> total]

\* decode_share_code: an item named among the clarifiers replaces what its character says.
Decode(code) ==
    LET answered == {k \in DOMAIN code.core : code.core[k] # "0"} IN
    [i \in DOMAIN code.extras \cup {Core[k] : k \in answered} |->
        IF i \in DOMAIN code.extras THEN code.extras[i]
        ELSE code.core[CHOOSE k \in DOMAIN code.core : Core[k] = i]]

CodeIsValid(code) ==
    /\ code.prefix \in {"GGA11", "GGA1"}
    /\ Len(code.core) =< Len(Core)
    /\ \A k \in DOMAIN code.core : code.core[k] \in Scale \cup {"0", "NA"}
    /\ AreResponses(Decode(code))

-----------------------------------------------------------------------------
Near(a, b, tolerance) == a - b =< tolerance /\ b - a =< tolerance

\* An unassessed lever keeps its prior; an assessed one has the masses its answers give, and the
\* estimate is their ratio.
LeverIsValid(l) ==
    IF l.estimate = None THEN l.raw = None /\ l.alpha = Prior /\ l.beta = Prior
    ELSE /\ l.estimate \in 0 .. Whole /\ l.raw \in 0 .. 100 /\ l.mass \in 0 .. MassCap
         /\ Near(l.alpha, Prior + l.mass * l.raw, 2)
         /\ Near(l.beta, Prior + l.mass * (100 - l.raw), 2)
         /\ Near(Whole * l.alpha, l.estimate * (l.alpha + l.beta), 2 * (l.alpha + l.beta))

\* _validate_result, without the scores of orientations, archetypes and the need ranking.
ResultIsValid(p) ==
    /\ p.quality # "missing"
    /\ DOMAIN p.levers = Lever /\ \A l \in Lever : LeverIsValid(p.levers[l])
    /\ Len(p.ranking) = Cardinality(Lever) /\ Range(p.ranking) = Lever

\* validate_assessment_payload
IsValid(p) ==
    /\ p.source \in {"application", "share_code"} /\ p.version = "1.1"
    /\ AreResponses(p.responses) /\ Range(Core) \subseteq DOMAIN p.responses
    /\ Cardinality(DOMAIN p.responses \cap Capability) =< CapabilityLimit
    /\ Cardinality(DOMAIN p.responses \cap Orientation) =< OrientationLimit
    /\ p.timed \subseteq DOMAIN p.responses
    /\ p.source = "application" => p.timed = DOMAIN p.responses
    /\ CodeIsValid(p.code) /\ Decode(p.code) = p.responses
    /\ p.code.total # "null" /\ p.total # "null" => p.code.total = p.total
    /\ p.source = "application" => p.code.prefix = "GGA11"
    /\ ResultIsValid(p)
    /\ p.source = "application" => p.total = "adds up" /\ p.quality = "adds up"

Run(p) ==
    [version |-> p.version, source |-> p.source, answers |-> p.responses, timed |-> p.timed,
     total |-> p.total, quality |-> p.quality, flags |-> p.flags, method |-> p.method,
     code |-> p.code, levers |-> p.levers]

-----------------------------------------------------------------------------
Init == posts = <<>> /\ stored = <<>>

Store(p) ==
    stored' = [s \in DOMAIN stored \cup {p.submission} |-> IF s = p.submission THEN Run(p) ELSE stored[s]]

\* Mutant of Persist: the last post of a submission wins.
PersistLast(p) == IF IsValid(p) THEN Store(p) ELSE UNCHANGED stored

\* persist_assessment_run: one transaction.  A repetition is validated and answered with the
\* run that is there.
Persist(p) ==
    IF IsValid(p) /\ p.submission \notin DOMAIN stored THEN Store(p) ELSE UNCHANGED stored

\* save_assessment
Post ==
    /\ Len(posts) < MaxPosts
    /\ \E p \in Posted : posts' = Append(posts, p) /\ Persist(p)

Next == Post

Spec == Init /\ [][Next]_vars

-----------------------------------------------------------------------------
\* A share code says exactly what was answered, whatever was left out.
CodesRoundTrip ==
    \A k \in DOMAIN posts :
        AreResponses(posts[k].responses) =>
            LET code == Encode(posts[k].responses, posts[k].total)
            IN  CodeIsValid(code) /\ Decode(code) = posts[k].responses

\* A submission is stored once, as it was first accepted, however often and in whatever form it
\* is posted again.
FirstPostStays ==
    \A s \in DOMAIN stored :
        \E k \in DOMAIN posts :
            /\ posts[k].submission = s /\ IsValid(posts[k]) /\ stored[s] = Run(posts[k])
            /\ \A j \in 1 .. k - 1 : posts[j].submission = s => ~IsValid(posts[j])

\* The two validators differ in two things only, which the assessment stores as they are posted:
\* a stored run can be contributed exactly if its scorer kept to the flags and to the timing
\* method of the dataset.
RunsCanBeContributed ==
    \A s \in DOMAIN stored :
        Calibration!ValidPayload(stored[s]) <=>
            Range(stored[s].flags) \subseteq Calibration!Flag /\ stored[s].method = Calibration!Method

\* The ledgers start from these masses: a prior and no more than the questionnaire can give, up to
\* the tolerance of its validation, all of it for the estimate when every answer is the highest.
BaselinesAreEarned ==
    \A s \in DOMAIN stored : \A l \in Lever :
        LET b == stored[s].levers[l]
        IN  /\ b.alpha + b.beta \in 2 * Prior - 4 .. 2 * Prior + 100 * MassCap + 4
            /\ b.estimate = None => b.alpha = b.beta
            /\ b.estimate # None /\ b.raw = 100 => b.estimate >= 5000 - 4

AssessmentsAreWhole ==
    CodesRoundTrip /\ FirstPostStays /\ RunsCanBeContributed /\ BaselinesAreEarned
=============================================================================
