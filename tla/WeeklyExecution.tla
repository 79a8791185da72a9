---------------------------- MODULE WeeklyExecution ----------------------------
(***************************************************************************)
(* Weekly plans and proof reviews of one assessment run                    *)
(* (growth/services/weekly_execution.py and growth/views_weekly.py).       *)
(* A plan is an append-only revision of one week's intention; a review     *)
(* freezes the evidence that was submitted after the plan, within its      *)
(* week.  Several workers serve the page.  A worker reads the window, the  *)
(* sprint and the review target before it opens the transaction that       *)
(* writes.  A request may reach it late or twice; one that passes the      *)
(* checks of the view could as well have been sent at that moment, so the  *)
(* requests under way need no variable.  A transaction is one step (see    *)
(* PracticeConcurrency for why).  All times are readings of the wall       *)
(* clock, which the operator or a time service may set back.               *)
(***************************************************************************)
EXTENDS Naturals, Sequences, FiniteSets

CONSTANTS
    Worker,
    Sprint,
    Action,          \* the actions of the practices
    SprintOf,        \* the sprint whose protocol an action belongs to
    Day,             \* days of the week an action can be intended on
    Decision,        \* the next step and the adjustment of a review
    WeekLength,
    MaxTime,         \* bound: the latest reading of the clock
    MaxPlans,        \* bound: plan revisions
    MaxEvents,       \* bound: evidence events
    ClockMayGoBack,
    ReviewsFirst,    \* bound: reviews there must be before the clock is set back
    NoSprint, NoRequest, NoReview

VARIABLES
    clock,
    steady,   \* history variable: the clock was never set back
    active,   \* the active sprint
    plans,    \* WeeklyExecutionPlan rows as they were created
    reviews,  \* the review of each plan
    events,   \* the evidence events of the run's check-ins
    busy      \* the request a worker has checked and is about to write

vars == <<clock, steady, active, plans, reviews, events, busy>>

\* A row of WeeklyExecutionPlan; the content hash is over all of it but revision and created.
Plan == [week : Nat, revision : 1 .. MaxPlans, action : Action, day : Day, created : 1 .. MaxTime]
\* A row of WeeklyExecutionReview; `planned` and `seen` are no columns of it but history: how
\* many plans and events there were when it was written.
Review == [at : 1 .. MaxTime, proof : SUBSET (1 .. MaxEvents), decision : Decision,
           outcome : {"completed", "attempted", "no_submitted_evidence"},
           planned : 0 .. MaxPlans, seen : 0 .. MaxEvents]
Event == [action : Action, at : 1 .. MaxTime, completed : BOOLEAN]

\* The requests: the fields of a posted form.
Request == [week : Nat, action : Action, day : Day] \cup [plan : 1 .. MaxPlans, decision : Decision]

IsPlanRequest(r) == "action" \in DOMAIN r

\* Type correctness, and one review at most per plan.
TypeOK ==
    /\ clock \in 1 .. MaxTime + 1 /\ steady \in BOOLEAN
    /\ active \in Sprint \cup {NoSprint}
    /\ plans \in Seq(Plan)
    /\ reviews \in [1 .. Len(plans) -> Review \cup {NoReview}]
    /\ events \in Seq(Event)
    /\ busy \in [Worker -> Request \cup {NoRequest}]

-----------------------------------------------------------------------------
\* current_week_start and _window_bounds, in ticks of the clock.
Week(time) == (time - 1) \div WeekLength
WeekStart(week) == week * WeekLength + 1
WeekEnd(week) == WeekStart(week + 1)

PlansOf(week) == {p \in DOMAIN plans : plans[p].week = week}
IsLatest(p) == \A q \in PlansOf(plans[p].week) : plans[q].revision =< plans[p].revision

\* latest_unreviewed_plan: the latest week whose latest revision has no review.
PendingReviews == {p \in DOMAIN plans : IsLatest(p) /\ reviews[p] = NoReview}
IsReviewTarget(p) ==
    p \in PendingReviews /\ \A q \in PendingReviews : plans[q].week =< plans[p].week

SameContent(p, r) ==
    plans[p].week = r.week /\ plans[p].action = r.action /\ plans[p].day = r.day

\* Mutant of ProofOf: evidence until now counts.
ProofOfNow(plan, through) ==
    {e \in DOMAIN events :
        /\ events[e].action = plan.action
        /\ events[e].at \in WeekStart(plan.week) .. WeekEnd(plan.week) - 1
        /\ events[e].at >= plan.created}

\* proof_events_for_plan
ProofOf(plan, through) ==
    {e \in DOMAIN events :
        /\ events[e].action = plan.action
        /\ events[e].at \in WeekStart(plan.week) .. WeekEnd(plan.week) - 1
        /\ events[e].at >= plan.created
        /\ events[e].at =< through}

\* build_weekly_review_snapshot
Outcome(proof) ==
    IF \E e \in proof : events[e].completed THEN "completed"
    ELSE IF proof # {} THEN "attempted" ELSE "no_submitted_evidence"

ReviewNow(p, decision) ==
    LET proof == ProofOf(plans[p], clock)
    IN  [at |-> clock, proof |-> proof, decision |-> decision, outcome |-> Outcome(proof),
         planned |-> Len(plans), seen |-> Len(events)]

-----------------------------------------------------------------------------
Init ==
    /\ clock = 1 /\ steady = TRUE
    /\ active \in Sprint
    /\ plans = <<>> /\ reviews = <<>> /\ events = <<>>
    /\ busy = [w \in Worker |-> NoRequest]

Tick ==
    /\ clock =< MaxTime
    /\ clock' = clock + 1
    /\ UNCHANGED <<steady, active, plans, reviews, events, busy>>

\* The clock is set back (bound: once).
SetBack ==
    /\ ClockMayGoBack /\ steady
    /\ Cardinality({p \in DOMAIN reviews : reviews[p] # NoReview}) >= ReviewsFirst
    /\ clock' \in 1 .. clock - 1
    /\ steady' = FALSE
    /\ UNCHANGED <<active, plans, reviews, events, busy>>

\* The practice ends or another one begins.
ChangePractice ==
    /\ active' \in (Sprint \cup {NoSprint}) \ {active}
    /\ UNCHANGED <<clock, steady, plans, reviews, events, busy>>

\* A check-in of the active sprint is submitted with its event.
SubmitCheckIn(a, completed) ==
    /\ clock =< MaxTime /\ Len(events) < MaxEvents
    /\ SprintOf[a] = active
    /\ events' = Append(events, [action |-> a, at |-> clock, completed |-> completed])
    /\ clock' = clock + 1
    /\ UNCHANGED <<steady, active, plans, reviews, busy>>

\* The owner fills in a form of the page.  The view and the checks of record_weekly_plan before
\* its transaction: the form is of the active sprint and of the current week.
ReceivePlan(w, a, day) ==
    /\ busy[w] = NoRequest
    /\ SprintOf[a] = active
    /\ busy' = [busy EXCEPT ![w] = [week |-> Week(clock), action |-> a, day |-> day]]
    /\ UNCHANGED <<clock, steady, active, plans, reviews, events>>

\* The view: the form must be about the present review target.
ReceiveReview(w, p, decision) ==
    /\ busy[w] = NoRequest
    /\ IsReviewTarget(p)
    /\ busy' = [busy EXCEPT ![w] = [plan |-> p, decision |-> decision]]
    /\ UNCHANGED <<clock, steady, active, plans, reviews, events>>

\* The request ends without a trace: the store is busy, the worker dies, the transaction's
\* own checks fail.
Abandon(w) ==
    /\ busy[w] # NoRequest
    /\ busy' = [busy EXCEPT ![w] = NoRequest]
    /\ UNCHANGED <<clock, steady, active, plans, reviews, events>>

\* The transaction of record_weekly_plan: equal to the latest revision, or the next one.  The
\* window is not looked at again.
RecordPlan(w) ==
    /\ busy[w] # NoRequest /\ IsPlanRequest(busy[w])
    /\ clock =< MaxTime
    /\ SprintOf[busy[w].action] = active
    /\ LET r == busy[w] IN
         IF \E p \in PlansOf(r.week) : IsLatest(p) /\ SameContent(p, r)
           THEN UNCHANGED <<clock, plans, reviews>>
           ELSE /\ Len(plans) < MaxPlans
                /\ plans' = Append(plans,
                     [week |-> r.week, revision |-> 1 + Cardinality(PlansOf(r.week)),
                      action |-> r.action, day |-> r.day, created |-> clock])
                /\ reviews' = Append(reviews, NoReview)
                /\ clock' = clock + 1
    /\ busy' = [busy EXCEPT ![w] = NoRequest]
    /\ UNCHANGED <<steady, active, events>>

\* The transaction of record_weekly_review: only the latest revision, and only once.  A review
\* that exists is returned if it is equal, else the request fails; neither changes anything.
RecordReview(w) ==
    /\ busy[w] # NoRequest /\ ~IsPlanRequest(busy[w])
    /\ clock =< MaxTime
    /\ LET p == busy[w].plan IN
         /\ IsLatest(p) /\ reviews[p] = NoReview
         /\ reviews' = [reviews EXCEPT ![p] = ReviewNow(p, busy[w].decision)]
         /\ clock' = clock + 1
    /\ busy' = [busy EXCEPT ![w] = NoRequest]
    /\ UNCHANGED <<steady, active, plans, events>>

Next ==
    \/ Tick \/ SetBack \/ ChangePractice
    \/ \E a \in Action, completed \in BOOLEAN : SubmitCheckIn(a, completed)
    \/ \E w \in Worker :
         \/ \E a \in Action, day \in Day : ReceivePlan(w, a, day)
         \/ \E p \in DOMAIN plans, decision \in Decision : ReceiveReview(w, p, decision)
         \/ RecordPlan(w) \/ RecordReview(w) \/ Abandon(w)

Spec == Init /\ [][Next]_vars

-----------------------------------------------------------------------------
\* verify_weekly_execution_readiness: every stored review is rebuilt from today's evidence.
Verifies(p) ==
    reviews[p] # NoReview =>
        /\ reviews[p].proof = ProofOf(plans[p], reviews[p].at)
        /\ reviews[p].outcome = Outcome(reviews[p].proof)

\* An event that came after the review and is stamped before it belongs to its evidence now.
Overtaken(p) == \E e \in ProofOf(plans[p], reviews[p].at) : e > reviews[p].seen

\* Later evidence cannot invalidate or rewrite a completed review, except that of a clock that
\* was set back behind the review.
ReviewsStayValid == \A p \in DOMAIN reviews : Verifies(p) \/ (~steady /\ Overtaken(p))

\* No evidence proves two plans, however the week was planned again in between, while the clock
\* is not set back; otherwise a plan can be older than the evidence of the one it replaced.
NoEvidenceProvesTwoPlans ==
    steady => \A p, q \in DOMAIN reviews :
        p # q /\ NoReview \notin {reviews[p], reviews[q]} =>
            reviews[p].proof \cap reviews[q].proof = {}

\* A review is of the intention that was in force: whatever the clock said, no later revision of
\* the week existed when it was written.
NoReplacedPlanIsReviewed ==
    \A p, q \in DOMAIN reviews :
        /\ reviews[p] # NoReview /\ plans[p].week = plans[q].week
        /\ plans[p].revision < plans[q].revision
        => q > reviews[p].planned

\* History: revisions of a week are numbered without a gap, say something new each time, and
\* neither a plan nor a review ever changes.
HistoryIsKept ==
    [][/\ Len(plans) =< Len(plans') /\ SubSeq(plans', 1, Len(plans)) = plans
       /\ \A p \in DOMAIN reviews : reviews[p] # NoReview => reviews'[p] = reviews[p]
       /\ \A q \in DOMAIN plans' : \A p \in DOMAIN plans :
            /\ q \notin DOMAIN plans /\ IsLatest(p) /\ plans'[q].week = plans[p].week
            => /\ plans'[q].revision = plans[p].revision + 1
               /\ <<plans'[q].action, plans'[q].day>> # <<plans[p].action, plans[p].day>>]_vars

=============================================================================
