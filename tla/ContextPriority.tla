---------------------------- MODULE ContextPriority ----------------------------
(***************************************************************************)
(* The way from a practice's context form to the context-aware order:      *)
(* PracticePriorityContextForm (growth/forms.py), the context contract     *)
(* (growth/domain/context.py), the priority of growth/domain/              *)
(* context_priority.py and its presentation                                *)
(* (growth/services/personal_os_browser.py).  Everything here is a         *)
(* calculation: a behaviour submits one form for each practice, ranks, and *)
(* stops.  Priorities are in units of 0.0001.                              *)
(***************************************************************************)
EXTENDS Integers, Sequences, FiniteSets, SequencesExt

CONSTANTS
    Protocol,      \* numbers, in the order of their stable ids
    Form,          \* the fields of a posted form, see Fields
    Base,          \* base priorities that occur, in units of 0.0001
    Capacity,      \* capacities that occur: a level, or the state of a missing one
    NoForm, NoRecord, NoProtocol, NoResult

\* applicability, importance, readiness, urgency, opportunity_resources, burden
Factor == 1 .. 6
applicability == 1
burden == 6
Level == 0 .. 4
\* The states of a missing factor; a provided one is its level.
Unknown == -1
NotApplicable == -2
Deferred == -3
Missing == {Unknown, NotApplicable, Deferred}

\* What a form can carry: a level for some factors and the fields of a deferral, none is -1.
Fields == [mode : {"provide", "not_applicable", "defer"}, level : [Factor -> Level \cup {-1}],
           deferred : Factor \cup {-1}, reason : BOOLEAN, horizon : {-1} \cup (1 .. 366)]

VARIABLES
    forms,     \* the form posted for each practice, or none
    base,      \* the need the practice answers, from its competency or its levers
    capacity,  \* of the saved assessment context
    records,   \* the latest saved context of each practice
    result     \* the ranking, once it is asked for

vars == <<forms, base, capacity, records, result>>

-----------------------------------------------------------------------------
NoLevels == [f \in Factor |-> -1]
Supplied(form) == {f \in Factor : form.level[f] # -1}
NoDeferral(form) == form.deferred = -1 /\ ~form.reason /\ form.horizon = -1

\* PracticePriorityContextForm.clean
IsValid(form) ==
    \/ form.mode = "provide" /\ Supplied(form) = Factor /\ NoDeferral(form)
    \/ form.mode = "not_applicable" /\ Supplied(form) = {} /\ NoDeferral(form)
    \/ form.mode = "defer" /\ Supplied(form) = {} /\ form.deferred # -1 /\ form.reason

\* context_input: a factor's value is its level or the state of a missing one.
ContextInput(form) ==
    [factors |-> [f \in Factor |->
        CASE form.mode = "provide" -> form.level[f]
          [] form.mode = "not_applicable" /\ f = applicability -> NotApplicable
          [] form.mode = "defer" /\ f = form.deferred -> Deferred
          [] OTHER -> Unknown],
     deferred |-> form.mode = "defer",
     reason |-> form.mode = "defer",
     horizon |-> IF form.mode = "defer" THEN form.horizon ELSE -1]

\* build_practice_context_snapshot: what the contract accepts.
AnyDeferred(r) == \E f \in Factor : r.factors[f] = Deferred
IsContract(r) ==
    IF r.deferred THEN r.reason /\ AnyDeferred(r)
    ELSE ~AnyDeferred(r) /\ ~r.reason /\ r.horizon = -1

\* Mutant of Redisplayed: the review horizon is not shown again.
RedisplayedWithoutHorizon(r) ==
    CASE r.factors[applicability] = NotApplicable ->
           [mode |-> "not_applicable", level |-> NoLevels, deferred |-> -1, reason |-> FALSE,
            horizon |-> -1]
      [] r.deferred ->
           [mode |-> "defer", level |-> NoLevels,
            deferred |-> CHOOSE f \in Factor : r.factors[f] = Deferred,
            reason |-> TRUE, horizon |-> -1]
      [] OTHER ->
           [mode |-> "provide", level |-> r.factors, deferred |-> -1, reason |-> FALSE,
            horizon |-> -1]

\* practice_context_initial: the form as the page shows a saved context.
Redisplayed(r) ==
    CASE r.factors[applicability] = NotApplicable ->
           [mode |-> "not_applicable", level |-> NoLevels, deferred |-> -1, reason |-> FALSE,
            horizon |-> -1]
      [] r.deferred ->
           [mode |-> "defer", level |-> NoLevels,
            deferred |-> CHOOSE f \in Factor : r.factors[f] = Deferred,
            reason |-> TRUE, horizon |-> r.horizon]
      [] OTHER ->
           [mode |-> "provide", level |-> r.factors, deferred |-> -1, reason |-> FALSE,
            horizon |-> -1]

-----------------------------------------------------------------------------
\* _candidate_disposition, in this order.
Disposition(r, c) ==
    IF r.factors[applicability] = NotApplicable THEN "not_applicable"
    ELSE IF r.deferred \/ AnyDeferred(r) THEN "deferred"
    ELSE IF c \in Missing \/ \E f \in Factor : r.factors[f] \in Missing THEN "missing_context"
    ELSE "eligible"

\* _factor_contribution, in quarters.
Multiplier(f, level) == IF f = burden THEN 4 - level ELSE level

\* The product of the base priority with seven multipliers, rounded half up at four places.
Parts == 16384   \* 4^7, the multipliers are in quarters
Priority(b, r, c) ==
    LET m == [f \in Factor |-> Multiplier(f, r.factors[f])]
        product == b * c * m[1] * m[2] * m[3] * m[4] * m[5] * m[6]
    IN  (2 * product + Parts) \div (2 * Parts)

\* The sort key: priority, then base, then stable id.
Precedes(p, q, key) ==
    \/ key[p].priority > key[q].priority
    \/ key[p].priority = key[q].priority /\ key[p].base > key[q].base
    \/ key[p].priority = key[q].priority /\ key[p].base = key[q].base /\ p < q

\* build_context_priority_result: the eligible candidates in order.
Eligible(recs, c) == {p \in Protocol : recs[p] # NoRecord /\ Disposition(recs[p], c) = "eligible"}
Ranked(recs, bases, c) ==
    LET key == [p \in Eligible(recs, c) |-> [priority |-> Priority(bases[p], recs[p], c), base |-> bases[p]]]
    IN  CHOOSE order \in SetToSeqs(Eligible(recs, c)) :
            \A i, j \in DOMAIN order : i < j => Precedes(order[i], order[j], key)

\* _alternative for a source that is not applicable or deferred.
Alternative(source, ranked) ==
    IF \E i \in DOMAIN ranked : ranked[i] # source
      THEN ranked[CHOOSE i \in DOMAIN ranked :
                    ranked[i] # source /\ \A j \in 1 .. i - 1 : ranked[j] = source]
      ELSE NoProtocol

\* build_browser_priority_presentation: what the page shows, and whether it may call the order
\* context-aware.
Status(recs, c, ranked) ==
    CASE \A p \in Protocol : recs[p] = NoRecord -> "no_candidates"
      [] c \in Missing -> "missing_capacity"
      [] ranked = <<>> -> "no_eligible"
      [] OTHER -> "ranked"

-----------------------------------------------------------------------------
Init ==
    /\ forms \in [Protocol -> Form \cup {NoForm}]
    /\ base \in [Protocol -> Base]
    /\ capacity \in Capacity
    /\ records = [p \in Protocol |-> NoRecord]
    /\ result = NoResult

\* The practice page saves a valid form whose snapshot the contract accepts.
Save(p) ==
    /\ result = NoResult /\ records[p] = NoRecord
    /\ forms[p] # NoForm /\ IsValid(forms[p]) /\ IsContract(ContextInput(forms[p]))
    /\ records' = [records EXCEPT ![p] = ContextInput(forms[p])]
    /\ UNCHANGED <<forms, base, capacity, result>>

\* A page asks for the order, perhaps with an alternative to a practice that is set aside.
Rank(source) ==
    /\ result = NoResult
    /\ \/ source = NoProtocol
       \/ /\ source \in Protocol /\ records[source] # NoRecord
          /\ Disposition(records[source], capacity) \in {"not_applicable", "deferred"}
    /\ LET ranked == Ranked(records, base, capacity) IN
         result' = [status |-> Status(records, capacity, ranked), ranked |-> ranked,
                    source |-> source,
                    alternative |-> IF source = NoProtocol THEN NoProtocol
                                    ELSE Alternative(source, ranked)]
    /\ UNCHANGED <<forms, base, capacity, records>>

Next ==
    \/ \E p \in Protocol : Save(p)
    \/ \E source \in Protocol \cup {NoProtocol} : Rank(source)

Spec == Init /\ [][Next]_vars

-----------------------------------------------------------------------------
\* Type correctness.
TypeOK ==
    /\ forms \in [Protocol -> Form \cup {NoForm}]
    /\ base \in [Protocol -> Base] /\ capacity \in Capacity
    /\ DOMAIN records = Protocol
    /\ result # NoResult => /\ result.status \in {"no_candidates", "missing_capacity",
                                                   "no_eligible", "ranked"}
                            /\ IsInjective(result.ranked)
                            /\ Range(result.ranked) \subseteq Protocol

\* A form the page accepts is never refused by the contract, and comes back as it was posted:
\* saving the page again changes nothing.
FormsComeBack ==
    \A p \in Protocol :
        forms[p] # NoForm /\ IsValid(forms[p]) =>
            /\ IsContract(ContextInput(forms[p]))
            /\ records[p] # NoRecord => Redisplayed(records[p]) = forms[p]

\* Unknown is not zero: a practice is ranked exactly when all seven levels were given, be they
\* zero or not; no missing state is taken for a number.
MissingIsNotZero ==
    result # NoResult =>
        \A p \in Protocol :
            (\E i \in DOMAIN result.ranked : result.ranked[i] = p) <=>
                /\ capacity \notin Missing
                /\ records[p] # NoRecord /\ forms[p].mode = "provide"

\* The order respects what the owner said: of two ranked practices, one with more need and a
\* context that is nowhere worse is not behind the other, even where rounding makes them equal.
DominanceIsRespected ==
    result # NoResult =>
        \A i, j \in DOMAIN result.ranked :
            LET p == result.ranked[i]  q == result.ranked[j] IN
              i < j =>
                ~ /\ base[q] > base[p]
                  /\ \A f \in Factor : IF f = burden THEN forms[q].level[f] =< forms[p].level[f]
                                       ELSE forms[q].level[f] >= forms[p].level[f]

\* An alternative is a ranked practice other than the one set aside, and no ranked practice is
\* before it; there is none only if nothing else is ranked.
AlternativeIsTheBest ==
    result # NoResult /\ result.source # NoProtocol =>
        IF result.alternative = NoProtocol THEN result.ranked = <<>>
        ELSE /\ result.alternative # result.source
             /\ result.ranked # <<>> /\ result.alternative = result.ranked[1]

\* The page calls its order context-aware exactly when there is one.
LabelIsHonest == result # NoResult => (result.status = "ranked" <=> result.ranked # <<>>)
=============================================================================
