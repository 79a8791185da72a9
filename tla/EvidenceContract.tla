--------------------------- MODULE EvidenceContract ---------------------------
(***************************************************************************)
(* The contract GG-EVIDENCE-1.0 of growth/domain/evidence.py: what an      *)
(* evidence event stores about a check-in, and its replay from its own     *)
(* snapshot.  Factors are in hundredths, stored quantities in ten          *)
(* thousandths (decimals with four places, rounded half up).               *)
(***************************************************************************)
EXTENDS Naturals, FiniteSets

CONSTANTS
    Field,      \* ALLOWED_OBSERVATION_FIELDS
    Rules,      \* evidence rules releases may give the action: disjoint, non-empty sets of fields
    MaxIndex,   \* bound: the repetition index
    Support     \* the support levels of the instance; "" is not recorded

VARIABLES
    rules,      \* the rules of the action in the release that is running
    input,      \* what the check-in says
    event       \* the stored event, or NoEvent

vars == <<rules, input, event>>

NoEvent == [algorithm |-> "none"]

IndependenceFactor ==
    [s \in {"independent", "planning_aid", "guided", ""} |->
        CASE s = "independent" -> 100 [] s = "planning_aid" -> 85 [] s = "guided" -> 60 [] s = "" -> 70]
ContextFactor ==
    [c \in {"first_record", "same_context", "varied_context", ""} |->
        IF c = "varied_context" THEN 75 ELSE 55]
Whole == 10000  \* one, in ten thousandths
Half == 5000
ContradictionLevel == [supports |-> 0, mixed |-> Half, contradicts |-> Whole, inconclusive |-> 0]
Unknown == 20000    \* contradiction_level None

EvidenceInput ==
    {i \in [attempted : BOOLEAN, completed : BOOLEAN, seen : SUBSET Field,
            support : Support, context : DOMAIN ContextFactor,
            direction : DOMAIN ContradictionLevel \cup {""}, text : BOOLEAN, rated : BOOLEAN,
            index : 1 .. MaxIndex] : i.completed => i.attempted}

-----------------------------------------------------------------------------
RepetitionMultiplier(index) == <<100, 65, 40, 25>>[IF index < 4 THEN index ELSE 4]

\* round half up of n / d
RoundHalfUp(n, d) == (2 * n + d) \div (2 * d)

Performance(i, r) ==
    LET p == Cardinality(r.primary) s == Cardinality(r.supporting)
    IN  (IF i.attempted THEN 3500 ELSE 0) + (IF i.completed THEN 3500 ELSE 0)
        + RoundHalfUp(2000 * Cardinality(r.primary \cap i.seen) * s
                      + 1000 * Cardinality(r.supporting \cap i.seen) * p, p * s)

\* In hundredths; the sum can exceed the cap of 0.85.
Quality(i, r) ==
    LET bonus(condition, points) == IF condition THEN points ELSE 0
        total == 45 + bonus(i.attempted, 10) + bonus(i.direction # "", 10)
                    + bonus(i.support # "", 5) + bonus(i.context # "", 5)
                    + bonus(i.seen \cap (r.primary \cup r.supporting) # {} \/ i.text, 10)
                    + bonus(i.rated, 5)
    IN  IF total > 85 THEN 85 ELSE total

\* A direction that was not recorded is unknown, not absent, when there is a text about it.
Contradiction(i) ==
    IF i.direction # "" THEN ContradictionLevel[i.direction]
    ELSE IF i.text THEN Half ELSE Unknown

\* What a check-in of this quality is worth.
Mass(quality, i) ==
    RoundHalfUp(quality * IndependenceFactor[i.support] * ContextFactor[i.context]
                * RepetitionMultiplier(i.index), Whole)

\* The snapshot keeps the input and the rules; "" is stored as None and read back as "".
Snapshot(i, r) == [k \in DOMAIN i \cup {"rules"} |-> IF k = "rules" THEN r ELSE i[k]]

Evaluate(i, r) ==
    LET quality == Quality(i, r)
    IN  [algorithm     |-> "GG-EVIDENCE-1.0",
         performance   |-> Performance(i, r),
         quality       |-> 100 * quality,
         independence  |-> 100 * IndependenceFactor[i.support],
         context       |-> 100 * ContextFactor[i.context],
         repetition    |-> 100 * RepetitionMultiplier(i.index),
         contradiction |-> Contradiction(i),
         mass          |-> Mass(quality, i),
         snapshot      |-> Snapshot(i, r)]

InputOf(snapshot) == [k \in DOMAIN snapshot \ {"rules"} |-> snapshot[k]]

\* Mutant of Replay: today's rules are applied to an old event.
ReplayNow(e) == Evaluate(InputOf(e.snapshot), rules)

\* replay_evidence_by_version: the event computed again from its snapshot alone.
Replay(e) == Evaluate(InputOf(e.snapshot), e.snapshot.rules)

\* verify_evidence_event
Verifies(e) == e = Replay(e)

-----------------------------------------------------------------------------
Init ==
    /\ rules \in Rules
    /\ input \in EvidenceInput
    /\ event = NoEvent

\* create_evidence_event
Record ==
    /\ event = NoEvent
    /\ event' = Evaluate(input, rules)
    /\ UNCHANGED <<rules, input>>

\* A release gives the action other rules.
Release ==
    /\ event # NoEvent
    /\ rules' \in Rules \ {rules}
    /\ UNCHANGED <<input, event>>

Next == Record \/ Release

Spec == Init /\ [][Next]_vars

-----------------------------------------------------------------------------
Recorded == event # NoEvent

\* An event verifies from its own snapshot for ever: no release that changes the rules of the
\* action makes an old event fail the audit.
EventsReplay == Recorded => Verifies(event)

\* Stored quantities stay within the ranges of their columns, and an event is never worthless
\* nor worth more than its quality.
StoredInRange ==
    Recorded =>
        /\ event.performance \in 0 .. Whole
        /\ event.quality \in 100 * 45 .. 100 * 85
        /\ event.mass \in 1 .. event.quality
        /\ event.contradiction \in 0 .. Whole \cup {Unknown}

\* Repeating an action always adds evidence, each time less than the time before, until the
\* fourth; and it changes nothing else.
RepetitionDiminishes ==
    Recorded /\ input.index < MaxIndex =>
        LET next == Evaluate([input EXCEPT !.index = @ + 1], event.snapshot.rules)
        IN  /\ IF input.index < 4 THEN next.mass < event.mass ELSE next.mass = event.mass
            /\ next.performance = event.performance /\ next.quality = event.quality

\* The direction of the evidence is kept apart: evidence against the pattern is neither less
\* nor more evidence than evidence for it, and does not change the performance.
DirectionIsSeparate ==
    Recorded /\ input.direction # "" =>
        \A d \in DOMAIN ContradictionLevel :
            LET other == Evaluate([input EXCEPT !.direction = d], event.snapshot.rules)
            IN  other.mass = event.mass /\ other.performance = event.performance

\* What says one thing more than a check-in: one more field marked, the action attempted or completed
\* too, a fact recorded that was left open.  That one was guided is the exception, below.
OneMore(i) ==
    {[i EXCEPT !.seen = @ \cup {f}] : f \in Field \ i.seen}
    \cup {[i EXCEPT !.attempted = TRUE], [i EXCEPT !.attempted = TRUE, !.completed = TRUE],
          [i EXCEPT !.text = TRUE], [i EXCEPT !.rated = TRUE]}
    \cup {[i EXCEPT !.direction = d] : d \in IF i.direction = "" THEN DOMAIN ContradictionLevel ELSE {}}
    \cup {[i EXCEPT !.context = c] : c \in IF i.context = "" THEN DOMAIN ContextFactor ELSE {}}
    \cup {[i EXCEPT !.support = s] : s \in IF i.support = "" THEN Support \ {"", "guided"} ELSE {}}

\* Marking one more field, doing more or recording one more fact never makes the event weaker, and a
\* field of another action changes nothing.  The exception: to record that one was guided always makes
\* it worth less than to leave the support out, which counts as more than guided.
MoreIsNeverLess ==
    Recorded =>
        LET r == event.snapshot.rules IN
        /\ \A more \in OneMore(input) :
              LET other == Evaluate(more, r)
              IN  other.performance >= event.performance /\ other.mass >= event.mass
        /\ \A f \in Field \ (r.primary \cup r.supporting) :
              LET other == Evaluate([input EXCEPT !.seen = @ \cup {f}], r)
              IN  other.performance = event.performance /\ other.mass = event.mass
        /\ input.support = "" /\ "guided" \in Support =>
              Evaluate([input EXCEPT !.support = "guided"], r).mass < event.mass
=============================================================================
