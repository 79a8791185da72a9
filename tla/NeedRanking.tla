------------------------------ MODULE NeedRanking ------------------------------
(***************************************************************************)
(* From scores to recommended practices: the need of a lever and the       *)
(* priority of a practice (growth/domain/ranking.py), the home page's      *)
(* summary (growth/services/profile.py), and the base priorities of the    *)
(* context-aware order (growth/services/context_priority.py), which must   *)
(* come from the same source.  A behaviour takes one state of the ledgers, *)
(* draws the page and asks for the base priorities.  Scores are in units   *)
(* of 0.0001.  A gap is given by ten times its root, so that its power 1.5 *)
(* is a whole number.                                                      *)
(***************************************************************************)
EXTENDS Integers, Sequences, FiniteSets, FiniteSetsExt, SequencesExt

CONSTANTS
    Lever,        \* numbers, in the order of their stable ids
    Competency,
    Weight,       \* the canonical lever weights of each competency, in percent
    Protocol,     \* the catalog in display order: numbers
    ParentOf,     \* the competency of a practice
    Active,       \* practices that are available
    Gap,          \* roots of gaps that occur, 0 .. 10, or Unassessed
    Confidence,   \* in percent
    Remaining,    \* composite needs and priorities that occur
    Unassessed, NoPage

VARIABLES
    baseline,    \* gap and confidence of each lever in the assessment
    legacy,      \* the legacy ledger: none, incomplete, verified, or corrupt
    state,       \* gap and confidence of each lever in the legacy ledger
    composite,   \* the composite ledger: none, verified, or corrupt
    needs,       \* remaining need of each lever in the composite ledger
    priorities,  \* remaining priority of each competency in it
    page,        \* the summary, once drawn
    bases        \* the base priorities of the context-aware order, once asked for

vars == <<baseline, legacy, state, composite, needs, priorities, page, bases>>

Score == [gap : Gap, confidence : Confidence]

\* Needs and priorities between 0 and 1.
Amount == 0 .. 10000

-----------------------------------------------------------------------------
\* provisional_need_score: gap^1.5 * (0.60 + 0.40 * confidence), or -1 for an unassessed lever.
Need(score) ==
    IF score.gap = Unassessed THEN -1
    ELSE (score.gap * score.gap * score.gap * (6000 + 40 * score.confidence) + 500) \div 1000

\* From the highest value; stable ids break ties.
InOrder(S, value) ==
    CHOOSE order \in SetToSeqs(S) :
        \A i, j \in DOMAIN order :
            i < j => \/ value[order[i]] > value[order[j]]
                     \/ value[order[i]] = value[order[j]] /\ order[i] < order[j]

\* rank_needs: unassessed levers are last.
Ranked(need) == InOrder(DOMAIN need, need)

\* protocol_priority: an unassessed lever adds nothing.
ProtocolPriority(need, c) ==
    (MapThenSumSet(LAMBDA l : Weight[c][l] * need[l], {l \in DOMAIN Weight[c] : need[l] # -1}) + 50)
      \div 100

\* _rank_recommendations and _rank_composite_recommendations: the three most urgent active
\* practices; the composite one leaves out what has no priority left.
Recommended(priority, floor) ==
    LET order == InOrder({p \in Active : priority[p] > floor}, priority)
    IN  SubSeq(order, 1, IF Len(order) < 3 THEN Len(order) ELSE 3)

-----------------------------------------------------------------------------
\* Whether a ledger the page would use fails its verification.
Failed == legacy = "corrupt" \/ composite = "corrupt"

\* ProfileLever.need_score: composite before legacy before baseline; a failed page falls back
\* to the baseline.  The need of a baseline is stored with it, copied from the ranking that was
\* posted; Need is what the scorer of the repository posts there.
PageNeeds ==
    [l \in Lever |->
        IF ~Failed /\ composite = "verified" THEN needs[l]
        ELSE IF ~Failed /\ legacy = "verified" THEN Need(state[l])
        ELSE Need(baseline[l])]

\* Mutant of PagePriorities: the composite ledger is only used for needs.
PagePrioritiesByLever == [p \in Protocol |-> ProtocolPriority(PageNeeds, ParentOf[p])]

\* The priorities of the recommended practices.
PagePriorities ==
    IF composite = "verified" THEN [p \in Protocol |-> priorities[ParentOf[p]]]
    ELSE [p \in Protocol |-> ProtocolPriority(PageNeeds, ParentOf[p])]

\* _needs_for_epoch and _base_priority; the legacy ledger is verified only without a composite one.
BasePriorities ==
    IF composite = "verified" THEN [p \in Protocol |-> priorities[ParentOf[p]]]
    ELSE LET need == [l \in Lever |->
                        IF legacy = "none" THEN Need(baseline[l]) ELSE Need(state[l])]
         IN  [p \in Protocol |-> ProtocolPriority(need, ParentOf[p])]

Init ==
    /\ baseline \in [Lever -> Score]
    /\ legacy \in {"none", "incomplete", "verified", "corrupt"}
    /\ state \in IF legacy = "verified" THEN [Lever -> Score] ELSE {baseline}
    /\ composite \in {"none", "verified", "corrupt"}
    /\ needs \in IF composite = "verified" THEN [Lever -> Remaining] ELSE {[l \in Lever |-> 0]}
    /\ priorities \in IF composite = "verified" THEN [Competency -> Remaining]
                      ELSE {[c \in Competency |-> 0]}
    /\ page = NoPage /\ bases = NoPage

\* build_profile_summary: refused when the legacy ledger does not cover every lever; nothing is
\* recommended when a ledger does not verify.
DrawPage ==
    /\ page = NoPage /\ legacy # "incomplete"
    /\ page' = [needs |-> PageNeeds, order |-> Ranked(PageNeeds), failed |-> Failed,
                priorities |-> PagePriorities,
                recommended |->
                  IF Failed THEN <<>>
                  ELSE Recommended(PagePriorities, IF composite = "verified" THEN 0 ELSE -1)]
    /\ UNCHANGED <<baseline, legacy, state, composite, needs, priorities, bases>>

\* The part of build_context_priority_for_epoch that reads the ledgers.
AskBases ==
    /\ bases = NoPage
    /\ composite # "corrupt" /\ (composite = "none" => legacy \in {"none", "verified"})
    /\ bases' = BasePriorities
    /\ UNCHANGED <<baseline, legacy, state, composite, needs, priorities, page>>

Next == DrawPage \/ AskBases

Spec == Init /\ [][Next]_vars

-----------------------------------------------------------------------------
\* Type correctness: priorities and needs stay between 0 and 1.
TypeOK ==
    /\ page # NoPage => /\ page.needs \in [Lever -> Amount \cup {-1}]
                        /\ page.priorities \in [Protocol -> Amount]
                        /\ Range(page.order) = Lever /\ IsInjective(page.order)
    /\ bases # NoPage => bases \in [Protocol -> Amount]

\* Better evidence never hides a need: of two levers the page takes from the same ledger, the one
\* with no smaller gap and no less confidence is not ranked behind, unless ids decide.
NeedFollowsEvidence ==
    page # NoPage /\ (Failed \/ composite = "none") =>
        LET score == IF ~Failed /\ legacy = "verified" THEN state ELSE baseline IN
        \A i, j \in DOMAIN page.order :
            LET k == page.order[i]  l == page.order[j] IN
              /\ i < j /\ Unassessed \notin {score[k].gap, score[l].gap}
              /\ score[l].gap >= score[k].gap /\ score[l].confidence >= score[k].confidence
              => page.needs[k] = page.needs[l] /\ k < l

\* An unassessed lever never makes a practice more urgent than if it had no need at all.
UnassessedAddsNothing ==
    page # NoPage /\ ~Failed /\ composite = "none" =>
        LET more == [l \in Lever |-> page.needs[l] + 1] IN
        \A p \in Protocol :
            100 * page.priorities[p] =<
                50 + MapThenSumSet(LAMBDA l : Weight[ParentOf[p]][l] * more[l],
                                   {l \in DOMAIN Weight[ParentOf[p]] : page.needs[l] # -1})

\* The page recommends at most three practices, none that is unavailable, and none behind a more
\* urgent one it leaves out.
TheMostUrgentAreRecommended ==
    page # NoPage =>
        /\ Len(page.recommended) =< 3 /\ Range(page.recommended) \subseteq Active
        /\ Len(page.recommended) = 3 =>
             \A p \in Active \ Range(page.recommended) : \A q \in Range(page.recommended) :
                 page.priorities[p] =< page.priorities[q]

\* A ledger that does not verify recommends nothing and shows nothing of itself.
FailsClosed ==
    page # NoPage /\ Failed =>
        page.recommended = <<>> /\ page.needs = [l \in Lever |-> Need(baseline[l])]

\* The home page and the context-aware order rest on the same priorities.
OnePriority ==
    page # NoPage /\ bases # NoPage /\ ~Failed => page.priorities = bases
=============================================================================
