------------------------------ MODULE SetupWizard ------------------------------
(***************************************************************************)
(* The seven steps that set up a practice (practice_setup of               *)
(* growth/views_practice.py).  The answers are kept in the owner's         *)
(* session: a request works on the copy it loaded and stores all of it at  *)
(* its end, so the requests of two tabs overwrite one another.             *)
(***************************************************************************)
EXTENDS Naturals, Sequences

CONSTANTS
    Tab,     \* the tabs (requests) of the owner
    Label,   \* the private labels for a person or context
    MaxDay   \* bound on the days that pass

VARIABLES
    session,  \* the stored answers
    request,  \* what each request under way has loaded: its step and its copy of the answers
    today,
    sprint,   \* the practice that was started
    given     \* every answer the owner ever gave by a valid form (known to no code)

vars == <<session, request, today, sprint, given>>

Horizon == 1  \* days ahead a practice may start (14 in the code)
Empty == {}   \* no answer yet

\* An answer is the name of its step and its value; a later one replaces the earlier.
Step == <<"reason", "applicable", "label", "boundaries", "start", "actions">>
Answer(k, value) == [key |-> Step[k], value |-> value]
Given(setup, k) == \E a \in setup : a.key = Step[k]
With(setup, answer) == {a \in setup : a.key # answer.key} \cup {answer}

\* The values a valid form of step k can have on this day.
Values(k) == IF k = 3 THEN Label ELSE IF k = 5 THEN today .. today + Horizon ELSE {0}

Incomplete(setup) == {k \in DOMAIN Step : ~Given(setup, k)}
FirstIncomplete(setup) ==
    IF Incomplete(setup) = {} THEN 7 ELSE CHOOSE k \in Incomplete(setup) : \A j \in Incomplete(setup) : k =< j

Init ==
    /\ session = Empty /\ request = [t \in Tab |-> <<>>] /\ today = 1
    /\ sprint = <<>> /\ given = {}

\* Mutant of Post: every step may be posted at any time.
PostAnyStep(t) ==
    /\ request[t] = <<>> /\ sprint = <<>>
    /\ \E k \in 1 .. 7 : request' = [request EXCEPT ![t] = <<k, session>>]
    /\ UNCHANGED <<session, today, sprint, given>>

\* A request posts a step no further than the first unanswered one; with a practice under way
\* there is nothing to set up.
Post(t) ==
    /\ request[t] = <<>> /\ sprint = <<>>
    /\ \E k \in 1 .. FirstIncomplete(session) : request' = [request EXCEPT ![t] = <<k, session>>]
    /\ UNCHANGED <<session, today, sprint, given>>

Respond(t) == request' = [request EXCEPT ![t] = <<>>]

\* The form of a step is valid: the answers the request loaded are stored with this one.
Save(t) ==
    /\ request[t] # <<>> /\ request[t][1] < 7
    /\ \E v \in Values(request[t][1]) :
         LET answer == Answer(request[t][1], v) IN
         /\ session' = With(request[t][2], answer)
         /\ given' = given \cup {answer}
    /\ Respond(t)
    /\ UNCHANGED <<today, sprint>>

\* "Not right now" drops the answers.
NotApplicable(t) ==
    /\ request[t] # <<>> /\ request[t][1] = 2
    /\ session' = Empty
    /\ Respond(t)
    /\ UNCHANGED <<today, sprint, given>>

\* The form is not valid, or the process dies: nothing is stored.
Drop(t) ==
    /\ request[t] # <<>>
    /\ Respond(t)
    /\ UNCHANGED <<session, today, sprint, given>>

\* The last step starts the practice from the loaded answers, unless another request has or the
\* start date has passed, and drops the answers.
Start(t) ==
    /\ request[t] # <<>> /\ request[t][1] = 7
    /\ LET setup == request[t][2] IN
         IF /\ sprint = <<>> /\ Given(setup, 3) /\ Given(setup, 5)
            /\ \E a \in setup : a.key = "start" /\ a.value \in today .. today + Horizon
         THEN sprint' = <<setup, today>> /\ session' = Empty
         ELSE UNCHANGED <<sprint, session>>
    /\ Respond(t)
    /\ UNCHANGED <<today, given>>

\* The practice ends, and another may be set up.
Stop == sprint # <<>> /\ sprint' = <<>> /\ UNCHANGED <<session, request, today, given>>

Midnight == today < MaxDay /\ today' = today + 1 /\ UNCHANGED <<session, request, sprint, given>>

Next == (\E t \in Tab : Post(t) \/ Save(t) \/ NotApplicable(t) \/ Drop(t) \/ Start(t)) \/ Stop \/ Midnight

Spec == Init /\ [][Next]_vars

-----------------------------------------------------------------------------
\* However the requests of two tabs overwrite one another, a practice is started only with all six
\* answers (its boundaries acknowledged and its actions reviewed), each of which the owner gave, one
\* per step, and not in the past.
StartsOnlyWhatWasReviewed ==
    /\ \A a, b \in session : a.key = b.key => a = b
    /\ sprint # <<>> =>
         /\ sprint[1] \subseteq given /\ \A k \in DOMAIN Step : Given(sprint[1], k)
         /\ \A a \in sprint[1] : a.key = "start" => a.value >= sprint[2]
=============================================================================
