----------------------------- MODULE RecordsProofs -----------------------------
(***************************************************************************)
(* The histories of Records are what they should be, for any number of     *)
(* workers, tabs, runs, check-ins and plans.  The components share no      *)
(* variable: each has an inductive invariant of its own, which the steps   *)
(* of the others keep because they leave its variables alone.              *)
(***************************************************************************)
EXTENDS Records, FiniteSetTheorems, SequenceTheorems, WellFoundedInduction, TLAPS

-----------------------------------------------------------------------------
(* Sequences that grow and sets of positions *)

LEMMA Appended ==
    ASSUME NEW S, NEW s \in Seq(S), NEW e \in S, NEW t, t = Append(s, e)
    PROVE  /\ t \in Seq(S) /\ Len(t) = Len(s) + 1 /\ DOMAIN t = 1 .. Len(s) + 1
           /\ t[Len(s) + 1] = e /\ \A i \in 1 .. Len(s) : t[i] = s[i]
OBVIOUS

LEMMA AppendedIsLonger ==
    ASSUME NEW S, NEW s \in Seq(S), NEW e PROVE Append(s, e) # s
OBVIOUS

LEMMA PositionsAreFinite ==
    ASSUME NEW n \in Nat, NEW T, T \subseteq 1 .. n
    PROVE  IsFiniteSet(T) /\ Cardinality(T) \in Nat /\ Cardinality(T) =< n
<1>1. IsFiniteSet(1 .. n)
  BY FS_Interval
<1>2. Cardinality(1 .. n) = n
  BY FS_Interval
<1>3. IsFiniteSet(T) /\ Cardinality(T) =< Cardinality(1 .. n)
  BY <1>1, FS_Subset
<1> QED BY <1>2, <1>3, FS_CardinalityType

-----------------------------------------------------------------------------
(* SetupWizard *)

\* The answers are the owner's, one per step.
Reviewed(setup) ==
    /\ setup \subseteq given
    /\ \A a, b \in setup : a.key = b.key => a = b

Complete(setup) == \A k \in 1 .. 6 : Wizard!Given(setup, k)

\* A request under way: its step, and the answers it loaded, all of them for the last step.
Loaded(r) ==
    /\ r = <<r[1], r[2]>> /\ r[1] \in 1 .. 7
    /\ Reviewed(r[2])
    /\ r[1] = 7 => Complete(r[2])

\* Two tabs only overwrite one another with answers of the owner, one per step; the last step is
\* posted with all of them.
WizardInv ==
    /\ today \in Nat
    /\ Reviewed(session)
    /\ request = [t \in Tab |-> request[t]]
    /\ \A t \in Tab : request[t] = <<>> \/ Loaded(request[t])
    /\ sprint # <<>> =>
         /\ Reviewed(sprint[1]) /\ Complete(sprint[1])
         /\ \A a \in sprint[1] : a.key = "start" => a.value >= sprint[2]

\* The first step without an answer, or the last one.
LEMMA FirstIncompleteType == ASSUME NEW setup PROVE
    Wizard!FirstIncomplete(setup) \in IF Wizard!Incomplete(setup) = {} THEN {7} ELSE 1 .. 6
<1>1. Wizard!Incomplete(setup) \subseteq 1 .. 6
  BY DEF Wizard!Incomplete, Wizard!Step
<1>2. ASSUME NEW k \in Wizard!Incomplete(setup)
      PROVE  \E m \in Wizard!Incomplete(setup) : \A j \in Wizard!Incomplete(setup) : m =< j
  BY <1>1
<1>3. CASE Wizard!Incomplete(setup) # {}
  <2>1. Wizard!FirstIncomplete(setup) \in Wizard!Incomplete(setup)
    BY <1>2, <1>3 DEF Wizard!FirstIncomplete
  <2> QED BY <1>1, <2>1
<1> QED BY <1>3 DEF Wizard!FirstIncomplete

\* The last step can be posted only when every step has an answer.
LEMMA LastStepIsComplete ==
    ASSUME NEW setup, 7 \in 1 .. Wizard!FirstIncomplete(setup)
    PROVE  Complete(setup)
<1>1. Wizard!FirstIncomplete(setup) = 7
  BY FirstIncompleteType
<1>2. Wizard!Incomplete(setup) = {}
  BY <1>1, FirstIncompleteType
<1> QED BY <1>2 DEF Complete, Wizard!Incomplete, Wizard!Step

\* The owner may give more answers; what was reviewed stays reviewed.
LEMMA ReviewedStays ==
    ASSUME NEW setup, Reviewed(setup), given \subseteq given'
    PROVE  Reviewed(setup)'
BY DEF Reviewed

\* A request that ends leaves nothing behind.
LEMMA OthersStayLoaded ==
    ASSUME WizardInv, NEW t \in Tab, Wizard!Respond(t), given \subseteq given'
    PROVE  /\ (request = [u \in Tab |-> request[u]])'
           /\ (\A u \in Tab : request[u] = <<>> \/ Loaded(request[u]))'
<1>1. request' = [u \in Tab |-> IF u = t THEN <<>> ELSE request[u]]
  BY DEF Wizard!Respond, WizardInv
<1>2. ASSUME NEW u \in Tab
      PROVE  (request[u] = <<>> \/ Loaded(request[u]))'
  <2>1. CASE u = t \/ request[u] = <<>>
    BY <1>1, <2>1
  <2>2. CASE u # t /\ request[u] # <<>>
    <3>1. Loaded(request[u]) /\ request'[u] = request[u]
      BY <1>1, <2>2 DEF WizardInv
    <3>2. Reviewed(request[u][2])'
      BY <1>1, <3>1 DEF Loaded, Reviewed
    <3> QED BY <3>1, <3>2 DEF Loaded, Complete, Wizard!Given
  <2> QED BY <2>1, <2>2
<1> QED BY <1>1, <1>2

\* The six answers, each of them the owner's, are what a practice starts with.
LEMMA WizardStep ==
    ASSUME WizardInv, [Wizard!Next]_wizardVars
    PROVE  WizardInv'
<1>1. CASE UNCHANGED wizardVars
  <2>1. given' = given /\ session' = session /\ request' = request /\ sprint' = sprint /\ today' = today
    BY <1>1 DEF wizardVars
  <2> QED BY <2>1 DEF WizardInv, Reviewed, Complete, Loaded, Wizard!Given
<1>2. ASSUME NEW t \in Tab, Wizard!Post(t)
      PROVE  WizardInv'
  <2>1. PICK k \in 1 .. Wizard!FirstIncomplete(session) :
            request' = [request EXCEPT ![t] = <<k, session>>]
    BY <1>2 DEF Wizard!Post
  <2>2. k \in 1 .. 7 /\ (k = 7 => Complete(session))
    <3>1. Wizard!FirstIncomplete(session) \in 1 .. 7
      BY FirstIncompleteType
    <3> QED BY <2>1, <3>1, LastStepIsComplete
  <2>3. UNCHANGED <<session, today, sprint, given>>
    BY <1>2 DEF Wizard!Post
  <2>4. request' = [u \in Tab |-> IF u = t THEN <<k, session>> ELSE request[u]]
    BY <2>1 DEF WizardInv
  <2>5. Loaded(<<k, session>>)
    BY <2>2 DEF Loaded, WizardInv
  <2>6. \A u \in Tab : (request[u] = <<>> \/ Loaded(request[u]))'
    BY <2>3, <2>4, <2>5 DEF WizardInv, Loaded, Reviewed, Complete, Wizard!Given
  <2> QED BY <2>3, <2>4, <2>6 DEF WizardInv, Reviewed, Complete, Wizard!Given
<1>3. ASSUME NEW t \in Tab, Wizard!Save(t)
      PROVE  WizardInv'
  <2>1. PICK v \in Wizard!Values(request[t][1]) :
            /\ session' = Wizard!With(request[t][2], Wizard!Answer(request[t][1], v))
            /\ given' = given \cup {Wizard!Answer(request[t][1], v)}
    BY <1>3 DEF Wizard!Save
  <2>2. Wizard!Respond(t) /\ UNCHANGED <<today, sprint>>
    BY <1>3 DEF Wizard!Save
  <2>3. Reviewed(request[t][2])
    BY <1>3 DEF Wizard!Save, WizardInv, Loaded
  <2>4. Reviewed(session)'
    BY <2>1, <2>3 DEF Reviewed, Wizard!With
  <2>5. given \subseteq given'
    BY <2>1
  <2> QED BY <2>2, <2>4, <2>5, OthersStayLoaded DEF WizardInv, Reviewed, Complete, Wizard!Given
<1>4. ASSUME NEW t \in Tab, Wizard!NotApplicable(t)
      PROVE  WizardInv'
  <2>1. Wizard!Respond(t) /\ session' = {} /\ UNCHANGED <<today, sprint, given>>
    BY <1>4 DEF Wizard!NotApplicable, Wizard!Empty
  <2> QED BY <2>1, OthersStayLoaded DEF WizardInv, Reviewed, Complete, Wizard!Given
<1>5. ASSUME NEW t \in Tab, Wizard!Drop(t)
      PROVE  WizardInv'
  <2>1. Wizard!Respond(t) /\ UNCHANGED <<session, today, sprint, given>>
    BY <1>5 DEF Wizard!Drop
  <2> QED BY <2>1, OthersStayLoaded DEF WizardInv, Reviewed, Complete, Wizard!Given
<1>6. ASSUME NEW t \in Tab, Wizard!Start(t)
      PROVE  WizardInv'
  <2> DEFINE setup == request[t][2]
  <2>1. Wizard!Respond(t) /\ UNCHANGED <<today, given>>
    BY <1>6 DEF Wizard!Start
  <2>2. Reviewed(setup) /\ Complete(setup)
    BY <1>6 DEF Wizard!Start, WizardInv, Loaded
  <2>3. CASE UNCHANGED <<sprint, session>>
    BY <2>1, <2>3, OthersStayLoaded DEF WizardInv, Reviewed, Complete, Wizard!Given
  <2>4. CASE /\ sprint' = <<setup, today>> /\ session' = {}
             /\ \E a \in setup : a.key = "start" /\ a.value \in today .. today + Wizard!Horizon
    <3>1. \A a \in setup : a.key = "start" => a.value >= today
      BY <2>2, <2>4 DEF Reviewed, WizardInv, Wizard!Horizon
    <3>2. (/\ Reviewed(sprint[1]) /\ Complete(sprint[1])
           /\ \A a \in sprint[1] : a.key = "start" => a.value >= sprint[2])'
      BY <2>1, <2>2, <2>4, <3>1 DEF Reviewed, Complete, Wizard!Given
    <3> QED BY <2>1, <2>4, <3>2, OthersStayLoaded DEF WizardInv, Reviewed
  <2> QED BY <1>6, <2>3, <2>4 DEF Wizard!Start, Wizard!Empty
<1>7. CASE Wizard!Stop
  BY <1>7 DEF Wizard!Stop, WizardInv, Reviewed, Complete, Loaded, Wizard!Given
<1>8. CASE Wizard!Midnight
  BY <1>8 DEF Wizard!Midnight, WizardInv, Reviewed, Complete, Loaded, Wizard!Given
<1> QED BY <1>1, <1>2, <1>3, <1>4, <1>5, <1>6, <1>7, <1>8 DEF Wizard!Next

\* However two tabs overwrite one another's answers, a practice starts with all six of them, each
\* one given by the owner, and not in the past.
THEOREM PracticesStartReviewed == Spec => []StartsOnlyWhatWasReviewed
<1>1. Init => WizardInv
  BY DEF Init, Wizard!Init, Wizard!Empty, WizardInv, Reviewed
<1>2. WizardInv /\ [Next]_vars => WizardInv'
  <2> SUFFICES ASSUME WizardInv, [Next]_vars PROVE WizardInv'
    OBVIOUS
  <2>1. [Wizard!Next]_wizardVars
    BY DEF Next, vars
  <2> QED BY <2>1, WizardStep
<1>3. WizardInv => StartsOnlyWhatWasReviewed
  BY DEF WizardInv, Reviewed, Complete, StartsOnlyWhatWasReviewed, Wizard!StartsOnlyWhatWasReviewed, Wizard!Step
<1> QED BY <1>1, <1>2, <1>3, PTL DEF Spec

-----------------------------------------------------------------------------
(* ContextRevisions *)

\* What a worker is about to write is a form of the run and scope it was sent for, and the season
\* and capacity that go with it are the run's own.
TaskOfForm(t) ==
    /\ t.run = t.form.epoch
    /\ DOMAIN t.bundle = {t.form.scope} \cup (IF t.form.scope \in Protocol THEN {"assessment"} ELSE {})
    /\ t.bundle[t.form.scope] = t.form.value
    /\ \A s \in DOMAIN t.bundle \ {t.form.scope} :
          \/ t.bundle[s] = Unknown
          \/ [epoch |-> t.run, scope |-> s, value |-> t.bundle[s]] \in posted

ContextsInv ==
    /\ Contexts!TypeOK
    /\ task = [w \in Worker |-> task[w]]
    /\ \A w \in Worker : task[w] # None => TaskOfForm(task[w])
    /\ Contexts!AcknowledgedIsStored
    /\ Contexts!NothingIsCarriedOver
    /\ Contexts!PracticeComesWithAssessment

\* The series t is s with v at its end, which may have been there already.
Saved(s, v, t) ==
    /\ t \in Seq(Value) /\ t # <<>> /\ t[Len(t)] = v
    /\ Len(s) =< Len(t)
    /\ \A i \in 1 .. Len(s) : t[i] = s[i]
    /\ \A i \in Len(s) + 1 .. Len(t) :
          i = Len(s) + 1 /\ t[i] = v /\ (i > 1 => s[i - 1] # v)

\* A save keeps the series and ends it with the saved content.
LEMMA ExtendedIsSaved ==
    ASSUME NEW s \in Seq(Value), NEW v \in Value
    PROVE  Saved(s, v, Contexts!Extended(s, v))
<1>1. CASE s # <<>> /\ s[Len(s)] = v
  BY <1>1 DEF Contexts!Extended, Saved
<1>2. CASE ~(s # <<>> /\ s[Len(s)] = v)
  <2>1. Contexts!Extended(s, v) = Append(s, v)
    BY <1>2 DEF Contexts!Extended
  <2> QED BY <1>2, <2>1 DEF Saved
<1> QED BY <1>1, <1>2

\* The content in force is one that the series holds, or unknown.
LEMMA LatestIsOfTheRun ==
    ASSUME ContextsInv, NEW e \in Contexts!Epoch
    PROVE  /\ Contexts!Latest(e, "assessment") \in Value
           /\ \/ Contexts!Latest(e, "assessment") = Unknown
              \/ [epoch |-> e, scope |-> "assessment", value |-> Contexts!Latest(e, "assessment")]
                    \in posted
<1>1. "assessment" \in Contexts!Scope /\ <<e, "assessment">> \in Contexts!Epoch \X Contexts!Scope
  BY DEF Contexts!Scope
<1>2. series[<<e, "assessment">>] \in Seq(Value)
  BY <1>1 DEF ContextsInv, Contexts!TypeOK
<1>3. CASE series[<<e, "assessment">>] = <<>>
  BY <1>3, ContextsAssumption DEF Contexts!Latest
<1>4. CASE series[<<e, "assessment">>] # <<>>
  <2>1. Len(series[<<e, "assessment">>]) \in DOMAIN series[<<e, "assessment">>]
    BY <1>2, <1>4
  <2> QED BY <1>1, <1>2, <1>4, <2>1 DEF ContextsInv, Contexts!NothingIsCarriedOver, Contexts!Latest
<1> QED BY <1>3, <1>4

\* A commit extends the scopes of the bundle and leaves the other series alone.
LEMMA WrittenScopes ==
    ASSUME ContextsInv, NEW w \in Worker, task[w] # None,
           NEW k \in Contexts!Epoch \X Contexts!Scope
    PROVE  /\ series[k] \in Seq(Value)
           /\ k[1] = task[w].run /\ k[2] \in DOMAIN task[w].bundle =>
                 /\ task[w].bundle[k[2]] \in Value
                 /\ Contexts!Written(w)[k] = Contexts!Extended(series[k], task[w].bundle[k[2]])
           /\ ~(k[1] = task[w].run /\ k[2] \in DOMAIN task[w].bundle) =>
                 Contexts!Written(w)[k] = series[k]
<1>1. series[k] \in Seq(Value)
  BY DEF ContextsInv, Contexts!TypeOK
<1>2. task[w] \in Contexts!Task
  BY DEF ContextsInv, Contexts!TypeOK
<1>3. \A s \in DOMAIN task[w].bundle : task[w].bundle[s] \in Value
  BY <1>2 DEF Contexts!Task
<1> QED BY <1>1, <1>3 DEF Contexts!Written

\* A run, a scope and a revision number: what the series hold after a commit is the old content or
\* the saved one.
LEMMA CommitExtends ==
    ASSUME ContextsInv, NEW w \in Worker, Contexts!Commit(w),
           NEW k \in Contexts!Epoch \X Contexts!Scope
    PROVE  /\ series'[k] \in Seq(Value)
           /\ series[k] # <<>> => series'[k] # <<>>
           /\ \A i \in DOMAIN series[k] : i \in DOMAIN series'[k] /\ series'[k][i] = series[k][i]
           /\ k[1] = task[w].run /\ k[2] \in DOMAIN task[w].bundle => series'[k] # <<>>
           /\ \A i \in DOMAIN series'[k] :
                 \/ i \in DOMAIN series[k] /\ series'[k][i] = series[k][i]
                 \/ /\ k[1] = task[w].run /\ k[2] \in DOMAIN task[w].bundle
                    /\ series'[k][i] = task[w].bundle[k[2]]
<1>1. task[w] # None /\ series'[k] = Contexts!Written(w)[k]
  BY DEF Contexts!Commit
<1>2. series[k] \in Seq(Value)
  BY <1>1, WrittenScopes
<1>3. CASE ~(k[1] = task[w].run /\ k[2] \in DOMAIN task[w].bundle)
  <2>1. series'[k] = series[k]
    BY <1>1, <1>3, WrittenScopes
  <2> QED BY <1>2, <1>3, <2>1
<1>4. CASE k[1] = task[w].run /\ k[2] \in DOMAIN task[w].bundle
  <2> DEFINE v == task[w].bundle[k[2]]
  <2>1. v \in Value /\ series'[k] = Contexts!Extended(series[k], v)
    BY <1>1, <1>4, WrittenScopes
  <2> HIDE DEF v
  <2>2. /\ series'[k] \in Seq(Value) /\ series'[k] # <<>>
        /\ Len(series[k]) =< Len(series'[k])
        /\ \A i \in 1 .. Len(series[k]) : series'[k][i] = series[k][i]
        /\ \A i \in Len(series[k]) + 1 .. Len(series'[k]) : series'[k][i] = v
    <3>1. Saved(series[k], v, series'[k])
      BY <1>2, <2>1, ExtendedIsSaved
    <3> QED BY <3>1 DEF Saved
  <2>3. DOMAIN series[k] = 1 .. Len(series[k]) /\ DOMAIN series'[k] = 1 .. Len(series'[k])
        /\ Len(series[k]) \in Nat /\ Len(series'[k]) \in Nat
    BY <1>2, <2>2
  <2> QED BY <1>4, <2>2, <2>3 DEF v
<1> QED BY <1>3, <1>4

LEMMA CommitKeepsContexts ==
    ASSUME ContextsInv, NEW w \in Worker, Contexts!Commit(w)
    PROVE  ContextsInv'
<1> DEFINE form == task[w].form
<1>1. /\ task[w] # None /\ task' = [task EXCEPT ![w] = None] /\ UNCHANGED <<epoch, posted>>
      /\ acknowledged' = acknowledged \cup {form} /\ series' = Contexts!Written(w)
  BY DEF Contexts!Commit
<1>2. TaskOfForm(task[w]) /\ task[w] \in Contexts!Task /\ form \in posted
  BY <1>1 DEF ContextsInv, Contexts!TypeOK
<1>3. /\ form \in Contexts!Form /\ form.epoch \in Contexts!Epoch /\ form.scope \in Contexts!Scope
      /\ form = [epoch |-> form.epoch, scope |-> form.scope, value |-> form.value]
  BY <1>2 DEF ContextsInv, Contexts!TypeOK, Contexts!Form
<1>4. Contexts!TypeOK'
  <2>1. series' \in [Contexts!Epoch \X Contexts!Scope -> Seq(Value)]
    BY <1>1, CommitExtends DEF Contexts!Written
  <2> QED BY <1>1, <1>2, <2>1 DEF ContextsInv, Contexts!TypeOK
<1>5. (/\ task = [v \in Worker |-> task[v]]
       /\ \A v \in Worker : task[v] # None => TaskOfForm(task[v]))'
  BY <1>1 DEF ContextsInv, TaskOfForm
<1>6. Contexts!AcknowledgedIsStored'
  <2> SUFFICES ASSUME NEW f \in acknowledged'
               PROVE  \E i \in DOMAIN series'[<<f.epoch, f.scope>>] :
                          series'[<<f.epoch, f.scope>>][i] = f.value
    BY DEF Contexts!AcknowledgedIsStored
  <2>1. f \in Contexts!Form /\ <<f.epoch, f.scope>> \in Contexts!Epoch \X Contexts!Scope
    BY <1>1, <1>3 DEF ContextsInv, Contexts!TypeOK, Contexts!Form
  <2>2. CASE f \in acknowledged
    BY <2>1, <2>2, CommitExtends DEF ContextsInv, Contexts!AcknowledgedIsStored
  <2>3. CASE f = form
    <3> DEFINE k == <<f.epoch, f.scope>>
    <3>1. k[1] = task[w].run /\ k[2] \in DOMAIN task[w].bundle /\ task[w].bundle[k[2]] = f.value
      BY <1>2, <2>3 DEF TaskOfForm
    <3>2. series[k] \in Seq(Value) /\ f.value \in Value
          /\ series'[k] = Contexts!Extended(series[k], f.value)
      BY <1>1, <2>1, <3>1, WrittenScopes
    <3>3. series'[k] \in Seq(Value) /\ series'[k] # <<>> /\ series'[k][Len(series'[k])] = f.value
      <4>1. Saved(series[k], f.value, series'[k])
        BY <3>2, ExtendedIsSaved
      <4> QED BY <4>1 DEF Saved
    <3>4. Len(series'[k]) \in DOMAIN series'[k]
      BY <3>3
    <3> QED BY <3>3, <3>4
  <2> QED BY <1>1, <2>2, <2>3
<1>7. Contexts!NothingIsCarriedOver'
  <2> SUFFICES ASSUME NEW e \in Contexts!Epoch, NEW scope \in Contexts!Scope,
                      NEW i \in DOMAIN series'[<<e, scope>>]
               PROVE  \/ [epoch |-> e, scope |-> scope, value |-> series'[<<e, scope>>][i]] \in posted
                      \/ scope = "assessment" /\ series'[<<e, scope>>][i] = Unknown
    BY <1>1 DEF Contexts!NothingIsCarriedOver
  <2> DEFINE k == <<e, scope>>
  <2>1. CASE i \in DOMAIN series[k] /\ series'[k][i] = series[k][i]
    BY <2>1 DEF ContextsInv, Contexts!NothingIsCarriedOver
  <2>2. CASE /\ e = task[w].run /\ scope \in DOMAIN task[w].bundle
             /\ series'[k][i] = task[w].bundle[scope]
    <3>1. CASE scope = form.scope
      BY <1>2, <1>3, <2>2, <3>1 DEF TaskOfForm
    <3>2. CASE scope # form.scope
      BY <1>2, <2>2, <3>2 DEF TaskOfForm
    <3> QED BY <3>1, <3>2
  <2> QED BY <2>1, <2>2, CommitExtends
<1>8. Contexts!PracticeComesWithAssessment'
  <2> SUFFICES ASSUME NEW e \in Contexts!Epoch, NEW p \in Protocol, series'[<<e, p>>] # <<>>
               PROVE  series'[<<e, "assessment">>] # <<>>
    BY DEF Contexts!PracticeComesWithAssessment
  <2>1. /\ <<e, p>> \in Contexts!Epoch \X Contexts!Scope
        /\ <<e, "assessment">> \in Contexts!Epoch \X Contexts!Scope
    BY DEF Contexts!Scope
  <2>2. CASE series[<<e, p>>] # <<>>
    BY <2>1, <2>2, CommitExtends DEF ContextsInv, Contexts!PracticeComesWithAssessment
  <2>3. CASE series[<<e, p>>] = <<>>
    <3>1. e = task[w].run /\ p \in DOMAIN task[w].bundle
      BY <1>1, <2>1, <2>3, WrittenScopes
    <3>2. p # "assessment"
      BY ContextsAssumption
    <3>3. "assessment" \in DOMAIN task[w].bundle
      BY <1>2, <3>1, <3>2 DEF TaskOfForm
    <3> QED BY <2>1, <3>1, <3>3, CommitExtends
  <2> QED BY <2>2, <2>3
<1> QED BY <1>4, <1>5, <1>6, <1>7, <1>8 DEF ContextsInv

\* Everything else that happens changes what is under way, the run or the forms, and no series.
LEMMA OthersKeepContexts ==
    ASSUME ContextsInv, UNCHANGED <<series, acknowledged>>, posted \subseteq posted',
           posted' \subseteq Contexts!Form, epoch' \in Contexts!Epoch,
           task' = [w \in Worker |-> task'[w]],
           \A w \in Worker : \/ task'[w] \in {task[w], None}
                             \/ /\ task'[w] \in Contexts!Task /\ task'[w].form \in posted'
                                /\ TaskOfForm(task'[w])
    PROVE  ContextsInv'
<1>1. \A w \in Worker : task'[w] = None \/ (task'[w] \in Contexts!Task /\ task'[w].form \in posted')
  BY DEF ContextsInv, Contexts!TypeOK
<1>2. Contexts!TypeOK'
  BY <1>1 DEF ContextsInv, Contexts!TypeOK
<1>3. \A w \in Worker : task'[w] # None => TaskOfForm(task[w])'
  BY DEF ContextsInv, TaskOfForm
<1>4. Contexts!AcknowledgedIsStored' /\ Contexts!PracticeComesWithAssessment'
  BY DEF ContextsInv, Contexts!AcknowledgedIsStored, Contexts!PracticeComesWithAssessment
<1>5. Contexts!NothingIsCarriedOver'
  BY DEF ContextsInv, Contexts!NothingIsCarriedOver
<1> QED BY <1>2, <1>3, <1>4, <1>5 DEF ContextsInv

LEMMA ContextsStep ==
    ASSUME ContextsInv, [Contexts!Next]_contextVars
    PROVE  ContextsInv'
<1>1. CASE UNCHANGED contextVars
  BY <1>1, OthersKeepContexts DEF contextVars, ContextsInv, Contexts!TypeOK
<1>2. CASE Contexts!Assess
  <2>1. epoch' = epoch + 1 /\ epoch < MaxEpoch /\ UNCHANGED <<series, posted, task, acknowledged>>
    BY <1>2 DEF Contexts!Assess
  <2>2. epoch' \in Contexts!Epoch
    BY <2>1, ContextsAssumption DEF ContextsInv, Contexts!TypeOK, Contexts!Epoch
  <2> QED BY <2>1, <2>2, OthersKeepContexts DEF ContextsInv, Contexts!TypeOK
<1>3. ASSUME NEW scope \in Contexts!Scope, NEW value \in Value, Contexts!Send(scope, value)
      PROVE  ContextsInv'
  <2>1. /\ posted' = posted \cup {[epoch |-> epoch, scope |-> scope, value |-> value]}
        /\ UNCHANGED <<epoch, series, task, acknowledged>>
    BY <1>3 DEF Contexts!Send
  <2>2. posted' \subseteq Contexts!Form
    BY <2>1 DEF ContextsInv, Contexts!TypeOK, Contexts!Form
  <2> QED BY <2>1, <2>2, OthersKeepContexts DEF ContextsInv, Contexts!TypeOK
<1>4. ASSUME NEW w \in Worker, NEW form \in posted, Contexts!Receive(w, form)
      PROVE  ContextsInv'
  <2> DEFINE t == [form |-> form, bundle |-> Contexts!Bundle(form), run |-> epoch, seen |-> <<>>]
  <2>1. /\ form.epoch = epoch /\ task' = [task EXCEPT ![w] = t]
        /\ UNCHANGED <<epoch, series, posted, acknowledged>>
    BY <1>4 DEF Contexts!Receive
  <2>2. form \in Contexts!Form /\ epoch \in Contexts!Epoch /\ form.scope \in Contexts!Scope
        /\ form.value \in Value
        /\ form = [epoch |-> form.epoch, scope |-> form.scope, value |-> form.value]
    BY DEF ContextsInv, Contexts!TypeOK, Contexts!Form
  <2> DEFINE S == {form.scope} \cup (IF form.scope \in Protocol THEN {"assessment"} ELSE {})
             b == Contexts!Bundle(form)
  <2>3. /\ b = [s \in S |-> b[s]] /\ b[form.scope] = form.value
        /\ \A s \in S \ {form.scope} :
              s = "assessment" /\ b[s] = Contexts!Latest(form.epoch, "assessment")
    BY DEF Contexts!Bundle
  <2>4. \A s \in S : b[s] \in Value
    BY <2>1, <2>2, <2>3, LatestIsOfTheRun
  <2>5. S \in SUBSET Contexts!Scope
    BY <2>2 DEF Contexts!Scope
  <2> HIDE DEF b
  <2>6. b \in [S -> Value]
    BY <2>3, <2>4
  <2>7. <<>> \in Seq([Contexts!Epoch \X Contexts!Scope -> Nat])
    OBVIOUS
  <2>8. t \in Contexts!Task
    BY <2>2, <2>5, <2>6, <2>7 DEF Contexts!Task, b
  <2>9. TaskOfForm(t)
    <3>1. \A s \in S \ {form.scope} :
             \/ b[s] = Unknown
             \/ [epoch |-> epoch, scope |-> s, value |-> b[s]] \in posted
      BY <2>1, <2>2, <2>3, LatestIsOfTheRun
    <3>2. t.form = form /\ t.run = epoch /\ t.bundle = b /\ DOMAIN b = S
      BY <2>6 DEF b
    <3> HIDE DEF t
    <3> QED BY <2>1, <2>3, <3>1, <3>2 DEF TaskOfForm
  <2>10. t.form = form
    OBVIOUS
  <2> HIDE DEF t
  <2> QED BY <2>1, <2>2, <2>8, <2>9, <2>10, OthersKeepContexts DEF ContextsInv, Contexts!TypeOK
<1>5. ASSUME NEW w \in Worker, Contexts!Begin(w)
      PROVE  ContextsInv'
  <2> DEFINE t == [task[w] EXCEPT !.seen = <<Contexts!Stored>>]
  <2>1. /\ task[w] # None /\ task' = [task EXCEPT ![w] = t]
        /\ UNCHANGED <<epoch, series, posted, acknowledged>>
    BY <1>5 DEF Contexts!Begin
  <2>2. task[w] \in Contexts!Task /\ task[w].form \in posted /\ TaskOfForm(task[w])
    BY <2>1 DEF ContextsInv, Contexts!TypeOK
  <2>3. Contexts!Stored \in [Contexts!Epoch \X Contexts!Scope -> Nat]
    BY DEF Contexts!Stored, ContextsInv, Contexts!TypeOK
  <2>4. <<Contexts!Stored>> \in Seq([Contexts!Epoch \X Contexts!Scope -> Nat])
    BY <2>3
  <2>5. t \in Contexts!Task /\ t.form = task[w].form /\ t.run = task[w].run /\ t.bundle = task[w].bundle
    BY <2>2, <2>4 DEF Contexts!Task
  <2> HIDE DEF t
  <2>6. TaskOfForm(t)
    BY <2>2, <2>5 DEF TaskOfForm
  <2> QED BY <2>1, <2>2, <2>5, <2>6, OthersKeepContexts DEF ContextsInv, Contexts!TypeOK
<1>6. ASSUME NEW w \in Worker, Contexts!Commit(w)
      PROVE  ContextsInv'
  BY <1>6, CommitKeepsContexts
<1>7. ASSUME NEW w \in Worker, Contexts!Conflict(w) \/ Contexts!Die(w)
      PROVE  ContextsInv'
  <2>1. task' = [task EXCEPT ![w] = None] /\ UNCHANGED <<epoch, series, posted, acknowledged>>
    BY <1>7 DEF Contexts!Conflict, Contexts!Die
  <2> QED BY <2>1, OthersKeepContexts DEF ContextsInv, Contexts!TypeOK
<1> QED BY <1>1, <1>2, <1>3, <1>4, <1>5, <1>6, <1>7 DEF Contexts!Next

LEMMA ContextsInit == Contexts!Init => ContextsInv
<1> SUFFICES ASSUME Contexts!Init PROVE ContextsInv
  OBVIOUS
<1>1. /\ epoch = 1 /\ posted = {} /\ acknowledged = {} /\ task = [w \in Worker |-> None]
      /\ series = [k \in Contexts!Epoch \X Contexts!Scope |-> <<>>]
  BY DEF Contexts!Init
<1>2. series \in [Contexts!Epoch \X Contexts!Scope -> Seq(Value)]
  BY <1>1
<1>3. epoch \in Contexts!Epoch
  BY <1>1, ContextsAssumption DEF Contexts!Epoch
<1>4. \A k \in Contexts!Epoch \X Contexts!Scope : DOMAIN series[k] = {} /\ series[k] = <<>>
  BY <1>1
<1> QED BY <1>1, <1>2, <1>3, <1>4 DEF ContextsInv, Contexts!TypeOK, Contexts!AcknowledgedIsStored,
           Contexts!NothingIsCarriedOver, Contexts!PracticeComesWithAssessment, Contexts!Scope

\* A form that was answered as saved is in the history of its run, also when two workers raced for
\* a revision number; no run takes over what was written for another; and a practice has a context
\* only where the assessment has one.
THEOREM SavedRevisionsAreTrue == Spec => []RevisionsAreTrue
<1>1. Init => ContextsInv
  BY ContextsInit DEF Init
<1>2. ContextsInv /\ [Next]_vars => ContextsInv'
  <2> SUFFICES ASSUME ContextsInv, [Next]_vars PROVE ContextsInv'
    OBVIOUS
  <2>1. [Contexts!Next]_contextVars
    BY DEF Next, vars
  <2> QED BY <2>1, ContextsStep
<1>3. ContextsInv => RevisionsAreTrue
  BY DEF ContextsInv, RevisionsAreTrue
<1> QED BY <1>1, <1>2, <1>3, PTL DEF Spec

\* The revisions of a scope only grow, and each says something new.
LEMMA RevisionsOnlyGrow ==
    ASSUME ContextsInv, [Contexts!Next]_contextVars,
           NEW k \in Contexts!Epoch \X Contexts!Scope
    PROVE  /\ Len(series'[k]) >= Len(series[k])
           /\ SubSeq(series'[k], 1, Len(series[k])) = series[k]
           /\ \A i \in Len(series[k]) + 1 .. Len(series'[k]) :
                 i > 1 => series'[k][i] # series'[k][i - 1]
<1>1. series[k] \in Seq(Value)
  BY DEF ContextsInv, Contexts!TypeOK
<1>2. CASE UNCHANGED series
  BY <1>1, <1>2
<1>3. ASSUME NEW w \in Worker, Contexts!Commit(w), series'[k] # series[k]
      PROVE  \E v \in Value : Saved(series[k], v, series'[k])
  <2>1. task[w] # None /\ series'[k] = Contexts!Written(w)[k]
    BY <1>3 DEF Contexts!Commit
  <2>2. /\ task[w].bundle[k[2]] \in Value
        /\ series'[k] = Contexts!Extended(series[k], task[w].bundle[k[2]])
    BY <1>3, <2>1, WrittenScopes
  <2> QED BY <1>1, <2>2, ExtendedIsSaved
<1>4. ASSUME NEW v \in Value, Saved(series[k], v, series'[k])
      PROVE  /\ Len(series'[k]) >= Len(series[k])
             /\ SubSeq(series'[k], 1, Len(series[k])) = series[k]
             /\ \A i \in Len(series[k]) + 1 .. Len(series'[k]) :
                   i > 1 => series'[k][i] # series'[k][i - 1]
  <2> DEFINE s == series[k]
             t == series'[k]
  <2>1. /\ t \in Seq(Value) /\ Len(s) =< Len(t) /\ \A i \in 1 .. Len(s) : t[i] = s[i]
        /\ \A i \in Len(s) + 1 .. Len(t) : i = Len(s) + 1 /\ t[i] = v /\ (i > 1 => s[i - 1] # v)
    BY <1>4 DEF Saved
  <2>2. s \in Seq(Value)
    BY <1>1
  <2> HIDE DEF s, t
  <2>3. SubSeq(t, 1, Len(s)) = s
    <3>1. SubSeq(t, 1, Len(s)) \in Seq(Value) /\ Len(SubSeq(t, 1, Len(s))) = Len(s)
      BY <2>1, <2>2
    <3>2. \A i \in 1 .. Len(s) : SubSeq(t, 1, Len(s))[i] = s[i]
      BY <2>1, <2>2
    <3> QED BY <2>2, <3>1, <3>2, SeqEqual
  <2>4. \A i \in Len(s) + 1 .. Len(t) : i > 1 => t[i] # t[i - 1]
    BY <2>1, <2>2
  <2> QED BY <2>1, <2>2, <2>3, <2>4 DEF s, t
<1>5. CASE \A w \in Worker : ~Contexts!Commit(w)
  BY <1>2, <1>5 DEF Contexts!Next, contextVars, Contexts!Assess, Contexts!Send, Contexts!Receive,
     Contexts!Begin, Contexts!Conflict, Contexts!Die
<1> QED BY <1>1, <1>3, <1>4, <1>5

-----------------------------------------------------------------------------
(* Evidence *)

\* The clock put a check-in before one of the same action that was submitted earlier.
Reordered ==
    \E i, j \in DOMAIN order :
        /\ i < j /\ GroupOf[order[i]] = GroupOf[order[j]]
        /\ Evidence!Earlier(order[j], order[i], at)

\* The number of an event is its position, unless a check-in was put before another.
EvidenceInv ==
    /\ Evidence!TypeOK
    /\ \A i \in DOMAIN order : at[order[i]] # 0
    /\ \A c \in CheckIn : at[c] # 0 => \E i \in DOMAIN order : order[i] = c
    /\ \A c \in CheckIn : index[c] # 0 => index[c] = Evidence!Position(c, at) \/ Reordered
    /\ Evidence!EveryCheckInHasItsEvent
    /\ container = "stopped" => Reordered

\* The component counts as everybody does.
LEMMA SameCardinality == ASSUME NEW S PROVE Evidence!Cardinality(S) = Cardinality(S)
BY DEF Evidence!Cardinality, Cardinality

\* A position counts a check-in and those before it.
LEMMA PositionType ==
    ASSUME NEW c \in CheckIn, NEW times \in [CheckIn -> Nat]
    PROVE  Evidence!Position(c, times) \in 1 .. Cardinality(CheckIn)
<1> DEFINE before == {d \in CheckIn : /\ times[d] # 0 /\ GroupOf[d] = GroupOf[c]
                                      /\ Evidence!Earlier(d, c, times)}
<1>1. c \notin before
  BY EvidenceAssumption DEF Evidence!Earlier
<1>2. before \subseteq CheckIn \ {c}
  BY <1>1
<1>3. IsFiniteSet(CheckIn \ {c}) /\ Cardinality(CheckIn \ {c}) = Cardinality(CheckIn) - 1
  BY EvidenceAssumption, FS_RemoveElement
<1>4. IsFiniteSet(before) /\ Cardinality(before) =< Cardinality(CheckIn) - 1
  BY <1>2, <1>3, FS_Subset
<1>5. Cardinality(before) \in Nat /\ Cardinality(CheckIn) \in Nat
  BY <1>4, EvidenceAssumption, FS_CardinalityType
<1>6. Evidence!Position(c, times) = 1 + Cardinality(before)
  BY SameCardinality DEF Evidence!Position
<1> HIDE DEF before
<1> QED BY <1>4, <1>5, <1>6

\* A check-in that is submitted now moves an earlier one of its action only by being put before it.
LEMMA StampMovesByReordering ==
    ASSUME EvidenceInv, NEW c \in CheckIn, Evidence!Stamp(c)
    PROVE  /\ at' \in [CheckIn -> 0 .. MaxWall] /\ wall' \in 1 .. MaxWall + 1 /\ order' \in Seq(CheckIn)
           /\ Reordered => Reordered'
           /\ \A d \in CheckIn : index[d] # 0 =>
                 Reordered' \/ Evidence!Position(d, at') = Evidence!Position(d, at)
           /\ \A i \in DOMAIN order' : at'[order'[i]] # 0
           /\ \A d \in CheckIn : at'[d] # 0 => \E i \in DOMAIN order' : order'[i] = d
<1>1. /\ at' = [at EXCEPT ![c] = wall] /\ order' = Append(order, c) /\ wall' = wall + 1
      /\ at[c] = 0 /\ wall =< MaxWall /\ UNCHANGED <<recording, container>>
  BY DEF Evidence!Stamp
<1>2. /\ wall \in 1 .. MaxWall /\ at \in [CheckIn -> 0 .. MaxWall] /\ order \in Seq(CheckIn)
      /\ at' \in [CheckIn -> 0 .. MaxWall]
  BY <1>1, EvidenceAssumption DEF EvidenceInv, Evidence!TypeOK
<1>3. \A d \in CheckIn : at'[d] = IF d = c THEN wall ELSE at[d]
  BY <1>1, <1>2
<1>4. /\ order' \in Seq(CheckIn) /\ Len(order') = Len(order) + 1 /\ order'[Len(order')] = c
      /\ \A i \in 1 .. Len(order) : order'[i] = order[i]
      /\ DOMAIN order = 1 .. Len(order) /\ DOMAIN order' = 1 .. Len(order) + 1
      /\ Len(order) \in Nat
  BY <1>1, <1>2
<1>5. \A i \in DOMAIN order : order[i] \in CheckIn /\ order[i] # c /\ at'[order[i]] = at[order[i]]
  BY <1>1, <1>2, <1>3, <1>4 DEF EvidenceInv
<1>6. Reordered => Reordered'
  <2> SUFFICES ASSUME NEW i \in DOMAIN order, NEW j \in DOMAIN order, i < j,
                      GroupOf[order[i]] = GroupOf[order[j]],
                      Evidence!Earlier(order[j], order[i], at)
               PROVE  Reordered'
    BY DEF Reordered
  <2>1. i \in DOMAIN order' /\ j \in DOMAIN order' /\ order'[i] = order[i] /\ order'[j] = order[j]
    BY <1>4
  <2>2. Evidence!Earlier(order'[j], order'[i], at')
    BY <1>5, <2>1 DEF Evidence!Earlier
  <2> QED BY <2>1, <2>2 DEF Reordered
<1>7. ASSUME NEW d \in CheckIn, index[d] # 0
      PROVE  Reordered' \/ Evidence!Position(d, at') = Evidence!Position(d, at)
  <2>1. at[d] # 0 /\ d # c
    BY <1>1, <1>7 DEF EvidenceInv, Evidence!TypeOK
  <2>2. CASE GroupOf[c] = GroupOf[d] /\ Evidence!Earlier(c, d, at')
    <3>1. PICK i \in DOMAIN order : order[i] = d
      BY <2>1 DEF EvidenceInv
    <3>2. i < Len(order') /\ i \in DOMAIN order' /\ Len(order') \in DOMAIN order' /\ order'[i] = d
      BY <1>4, <3>1
    <3> QED BY <1>4, <2>2, <3>2 DEF Reordered
  <2>3. CASE ~(GroupOf[c] = GroupOf[d] /\ Evidence!Earlier(c, d, at'))
    <3>1. \A e \in CheckIn :
             (at'[e] # 0 /\ GroupOf[e] = GroupOf[d] /\ Evidence!Earlier(e, d, at'))
               <=> (at[e] # 0 /\ GroupOf[e] = GroupOf[d] /\ Evidence!Earlier(e, d, at))
      BY <1>1, <1>3, <2>1, <2>3 DEF Evidence!Earlier
    <3>2. {e \in CheckIn : at'[e] # 0 /\ GroupOf[e] = GroupOf[d] /\ Evidence!Earlier(e, d, at')}
            = {e \in CheckIn : at[e] # 0 /\ GroupOf[e] = GroupOf[d] /\ Evidence!Earlier(e, d, at)}
      BY <3>1
    <3> QED BY <3>2 DEF Evidence!Position
  <2> QED BY <2>2, <2>3
<1>8. ASSUME NEW i \in DOMAIN order'
      PROVE  at'[order'[i]] # 0
  <2>1. CASE i \in DOMAIN order
    BY <1>4, <1>5, <2>1 DEF EvidenceInv
  <2>2. CASE i = Len(order')
    BY <1>2, <1>3, <1>4, <2>2
  <2> QED BY <1>4, <2>1, <2>2
<1>9. \A d \in CheckIn : at'[d] # 0 => \E i \in DOMAIN order' : order'[i] = d
  BY <1>3, <1>4 DEF EvidenceInv
<1>10. wall' \in 1 .. MaxWall + 1
  BY <1>1, <1>2, EvidenceAssumption
<1> QED BY <1>2, <1>4, <1>6, <1>7, <1>8, <1>9, <1>10

\* A submission gives the number of its own position, or none in a release without events.
LEMMA StampKeepsNumbers ==
    ASSUME EvidenceInv, NEW c \in CheckIn, Evidence!Stamp(c),
           \/ recording /\ index' = [index EXCEPT ![c] = Evidence!Position(c, at')]
           \/ ~recording /\ index' = index
    PROVE  EvidenceInv'
<1>1. /\ at' = [at EXCEPT ![c] = wall] /\ UNCHANGED <<recording, container>>
      /\ container = "serving" /\ wall =< MaxWall
  BY DEF Evidence!Stamp
<1>2. /\ index \in [CheckIn -> 0 .. Cardinality(CheckIn)] /\ at \in [CheckIn -> 0 .. MaxWall]
      /\ \A d \in CheckIn : index[d] # 0 => at[d] # 0
      /\ wall \in 1 .. MaxWall
  BY <1>1, SameCardinality, EvidenceAssumption DEF EvidenceInv, Evidence!TypeOK
<1>3. at' \in [CheckIn -> Nat]
  BY <1>1, <1>2, EvidenceAssumption
<1>4. Evidence!Position(c, at') \in 1 .. Cardinality(CheckIn) /\ Evidence!Position(c, at') # 0
  <2>1. Cardinality(CheckIn) \in Nat
    BY EvidenceAssumption, FS_CardinalityType
  <2> QED BY <1>3, <2>1, PositionType
<1>5. \A d \in CheckIn : at'[d] = IF d = c THEN wall ELSE at[d]
  BY <1>1, <1>2
<1>6. CASE recording /\ index' = [index EXCEPT ![c] = Evidence!Position(c, at')]
  <2>1. index' \in [CheckIn -> 0 .. Cardinality(CheckIn)]
    BY <1>2, <1>4, <1>6
  <2>2. \A d \in CheckIn : index'[d] = IF d = c THEN Evidence!Position(c, at') ELSE index[d]
    BY <1>2, <1>6
  <2>3. \A d \in CheckIn : index'[d] # 0 => at'[d] # 0
    BY <1>2, <1>5, <2>2
  <2>4. Evidence!TypeOK'
    BY <1>1, <2>1, <2>3, StampMovesByReordering, SameCardinality DEF EvidenceInv, Evidence!TypeOK
  <2>5. Evidence!EveryCheckInHasItsEvent'
    BY <1>1, <1>4, <1>5, <2>2 DEF EvidenceInv, Evidence!EveryCheckInHasItsEvent, Evidence!Submitted
  <2>6. \A d \in CheckIn : index'[d] # 0 => index'[d] = Evidence!Position(d, at') \/ Reordered'
    BY <2>2, StampMovesByReordering DEF EvidenceInv
  <2> QED BY <1>1, <2>4, <2>5, <2>6, StampMovesByReordering DEF EvidenceInv
<1>7. CASE ~recording /\ index' = index
  <2>1. \A d \in CheckIn : index'[d] # 0 => at'[d] # 0
    BY <1>2, <1>5, <1>7
  <2>2. Evidence!TypeOK'
    BY <1>1, <1>7, <2>1, StampMovesByReordering DEF EvidenceInv, Evidence!TypeOK
  <2>3. Evidence!EveryCheckInHasItsEvent'
    BY <1>1, <1>7 DEF Evidence!EveryCheckInHasItsEvent
  <2>4. \A d \in CheckIn : index'[d] # 0 => index'[d] = Evidence!Position(d, at') \/ Reordered'
    BY <1>7, StampMovesByReordering DEF EvidenceInv
  <2> QED BY <1>1, <2>2, <2>3, <2>4, StampMovesByReordering DEF EvidenceInv
<1> QED BY <1>6, <1>7

\* A backfill gives every check-in its number, and is stopped by one that another put back.
LEMMA BackfillKeepsNumbers ==
    ASSUME EvidenceInv, Evidence!Backfill
    PROVE  /\ EvidenceInv'
           /\ \A c \in CheckIn : index[c] # 0 => index'[c] = index[c]
<1>1. UNCHANGED <<wall, at, recording, order>>
  BY DEF Evidence!Backfill
<1>2. /\ index \in [CheckIn -> 0 .. Cardinality(CheckIn)] /\ at \in [CheckIn -> Nat]
      /\ \A c \in CheckIn : index[c] # 0 => at[c] # 0
  BY SameCardinality, EvidenceAssumption DEF EvidenceInv, Evidence!TypeOK
<1>3. Reordered' = Reordered
  BY <1>1 DEF Reordered
<1>4. CASE /\ \A c \in Evidence!Submitted : index[c] \in {0, Evidence!Position(c, at)}
           /\ index' = [c \in CheckIn |->
                          IF c \in Evidence!Submitted THEN Evidence!Position(c, at) ELSE 0]
           /\ container' = "serving"
  <2>1. \A c \in CheckIn : Evidence!Position(c, at) \in 1 .. Cardinality(CheckIn)
    BY <1>2, PositionType
  <2>2. Cardinality(CheckIn) \in Nat
    BY EvidenceAssumption, FS_CardinalityType
  <2>3. index' \in [CheckIn -> 0 .. Cardinality(CheckIn)]
    BY <1>4, <2>1, <2>2
  <2>4. \A c \in CheckIn : index'[c] = IF at[c] # 0 THEN Evidence!Position(c, at) ELSE 0
    BY <1>4 DEF Evidence!Submitted
  <2>5. Evidence!TypeOK'
    BY <1>1, <1>4, <2>3, <2>4, SameCardinality DEF EvidenceInv, Evidence!TypeOK
  <2>6. Evidence!EveryCheckInHasItsEvent'
    BY <1>1, <2>1, <2>4 DEF Evidence!EveryCheckInHasItsEvent, Evidence!Submitted
  <2>7. \A c \in CheckIn : index[c] # 0 => index'[c] = index[c]
    BY <1>2, <1>4, <2>4 DEF Evidence!Submitted
  <2> QED BY <1>1, <1>4, <2>4, <2>5, <2>6, <2>7 DEF EvidenceInv
<1>5. CASE /\ ~\A c \in Evidence!Submitted : index[c] \in {0, Evidence!Position(c, at)}
           /\ container' = "stopped" /\ UNCHANGED index
  <2>1. Reordered
    BY <1>5 DEF EvidenceInv, Evidence!Submitted
  <2>2. Evidence!TypeOK'
    BY <1>1, <1>5 DEF EvidenceInv, Evidence!TypeOK
  <2> QED BY <1>1, <1>3, <1>5, <2>1, <2>2 DEF EvidenceInv, Evidence!EveryCheckInHasItsEvent
<1> QED BY <1>4, <1>5 DEF Evidence!Backfill

LEMMA EvidenceStep ==
    ASSUME EvidenceInv, [Evidence!Next]_evidenceVars
    PROVE  /\ EvidenceInv'
           /\ \A c \in CheckIn : index[c] # 0 => index'[c] = index[c]
<1>1. CASE UNCHANGED evidenceVars
  BY <1>1 DEF evidenceVars, EvidenceInv, Evidence!TypeOK, Evidence!EveryCheckInHasItsEvent,
     Evidence!Submitted, Reordered
<1>2. CASE Evidence!Backfill
  BY <1>2, BackfillKeepsNumbers
<1>3. CASE Evidence!StartBefore
  <2>1. /\ UNCHANGED <<wall, at, index, recording, order>>
        /\ ~recording /\ container' = "serving"
    BY <1>3 DEF Evidence!StartBefore
  <2>2. Evidence!TypeOK'
    BY <2>1 DEF EvidenceInv, Evidence!TypeOK
  <2>3. Evidence!EveryCheckInHasItsEvent'
    BY <2>1 DEF Evidence!EveryCheckInHasItsEvent
  <2> QED BY <2>1, <2>2, <2>3 DEF EvidenceInv, Reordered
<1>6. CASE Evidence!Restart
  <2>1. /\ UNCHANGED <<wall, at, index, order>>
        /\ recording' \in {recording, TRUE} /\ container' = "starting"
    BY <1>6 DEF Evidence!Restart
  <2>2. recording' \in BOOLEAN
    BY <2>1 DEF EvidenceInv, Evidence!TypeOK
  <2>3. Evidence!TypeOK'
    BY <2>1, <2>2 DEF EvidenceInv, Evidence!TypeOK
  <2> QED BY <2>1, <2>3 DEF EvidenceInv, Evidence!EveryCheckInHasItsEvent, Reordered
<1>4. CASE Evidence!SetClockBack
  <2>1. /\ UNCHANGED <<at, index, recording, container, order>>
        /\ wall' \in 1 .. wall - 1
    BY <1>4 DEF Evidence!SetClockBack
  <2>2. wall' \in 1 .. MaxWall + 1
    BY <2>1, EvidenceAssumption DEF EvidenceInv, Evidence!TypeOK
  <2> QED BY <2>1, <2>2 DEF EvidenceInv, Evidence!TypeOK, Evidence!EveryCheckInHasItsEvent,
                            Evidence!Submitted, Reordered
<1>5. ASSUME NEW c \in CheckIn, Evidence!Submit(c) \/ Evidence!SubmitBefore(c)
      PROVE  /\ EvidenceInv'
             /\ \A d \in CheckIn : index[d] # 0 => index'[d] = index[d]
  <2>1. /\ Evidence!Stamp(c)
        /\ \/ recording /\ index' = [index EXCEPT ![c] = Evidence!Position(c, at')]
           \/ ~recording /\ index' = index
    BY <1>5 DEF Evidence!Submit, Evidence!SubmitBefore
  <2>2. at[c] = 0 /\ index[c] = 0
    BY <2>1 DEF Evidence!Stamp, EvidenceInv, Evidence!TypeOK
  <2>3. \A d \in CheckIn : index[d] # 0 => index'[d] = index[d]
    BY <2>1, <2>2 DEF EvidenceInv, Evidence!TypeOK
  <2> QED BY <2>1, <2>3, StampKeepsNumbers
<1> QED BY <1>1, <1>2, <1>3, <1>4, <1>5, <1>6 DEF Evidence!Next

\* Events whose numbers are their positions pass the audit.
LEMMA OrderIsAudited ==
    ASSUME EvidenceInv, container = "serving", recording, ~Reordered
    PROVE  Evidence!Audited
<1>1. \A c \in CheckIn : index[c] # 0 <=> at[c] # 0
  BY DEF EvidenceInv, Evidence!TypeOK, Evidence!EveryCheckInHasItsEvent, Evidence!Submitted
<1>2. {c \in CheckIn : index[c] # 0} = Evidence!Submitted
  BY <1>1 DEF Evidence!Submitted
<1>3. \A c \in Evidence!Submitted : index[c] = Evidence!Position(c, at)
  BY <1>1 DEF EvidenceInv, Evidence!Submitted
<1> QED BY <1>2, <1>3 DEF Evidence!Audited

LEMMA EvidenceInit == Evidence!Init => EvidenceInv
<1> SUFFICES ASSUME Evidence!Init PROVE EvidenceInv
  OBVIOUS
<1>1. /\ wall = 1 /\ at = [c \in CheckIn |-> 0] /\ index = [c \in CheckIn |-> 0]
      /\ recording \in BOOLEAN /\ container = "starting" /\ order = <<>>
  BY DEF Evidence!Init
<1>2. Cardinality(CheckIn) \in Nat
  BY EvidenceAssumption, FS_CardinalityType
<1> QED BY <1>1, <1>2, SameCardinality, EvidenceAssumption
        DEF EvidenceInv, Evidence!TypeOK, Evidence!EveryCheckInHasItsEvent

\* A serving container has an event for every submitted check-in, and only a clock that was set
\* back puts them in an order that stops the start.
THEOREM EvidenceStaysComplete == Spec => []EvidenceIsComplete
<1>1. Init => EvidenceInv
  BY EvidenceInit DEF Init
<1>2. EvidenceInv /\ [Next]_vars => EvidenceInv'
  <2> SUFFICES ASSUME EvidenceInv, [Next]_vars PROVE EvidenceInv'
    OBVIOUS
  <2>1. [Evidence!Next]_evidenceVars
    BY DEF Next, vars
  <2> QED BY <2>1, EvidenceStep
<1>3. EvidenceInv => EvidenceIsComplete
  BY OrderIsAudited DEF EvidenceInv, EvidenceIsComplete, Evidence!OnlyReorderingStopsStart, Reordered
<1> QED BY <1>1, <1>2, <1>3, PTL DEF Spec

\* Without a clock that is set back the check-ins are in the order of their times.
InOrder ==
    /\ \A i, j \in DOMAIN order : i < j => at[order[i]] < at[order[j]]
    /\ \A c \in CheckIn : at[c] < wall

LEMMA ForwardClockStep ==
    ASSUME ~ClockMayGoBack, EvidenceInv, InOrder, [Evidence!Next]_evidenceVars
    PROVE  InOrder'
<1>1. CASE UNCHANGED <<wall, at, order>>
  BY <1>1 DEF InOrder
<1>2. ASSUME NEW c \in CheckIn, Evidence!Stamp(c)
      PROVE  InOrder'
  <2>1. /\ at' = [at EXCEPT ![c] = wall] /\ order' = Append(order, c) /\ wall' = wall + 1
        /\ at[c] = 0
    BY <1>2 DEF Evidence!Stamp
  <2>2. /\ wall \in Nat /\ at \in [CheckIn -> Nat] /\ order \in Seq(CheckIn)
    BY EvidenceAssumption DEF EvidenceInv, Evidence!TypeOK
  <2>3. \A i \in DOMAIN order : order[i] \in CheckIn /\ order[i] # c
    BY <2>1, <2>2 DEF EvidenceInv
  <2>4. \A d \in CheckIn : at'[d] = (IF d = c THEN wall ELSE at[d]) /\ at[d] < wall
    BY <2>1, <2>2 DEF InOrder
  <2>5. \A d \in CheckIn : at'[d] < wall'
    BY <2>1, <2>2, <2>4
  <2>6. ASSUME NEW i \in DOMAIN order', NEW j \in DOMAIN order', i < j
        PROVE  at'[order'[i]] < at'[order'[j]]
    <3>1. i \in DOMAIN order /\ order'[i] = order[i] /\ at'[order[i]] = at[order[i]]
      BY <2>1, <2>2, <2>3, <2>4, <2>6
    <3>2. CASE j \in DOMAIN order
      BY <2>1, <2>2, <2>3, <2>4, <2>6, <3>1, <3>2 DEF InOrder
    <3>3. CASE j \notin DOMAIN order
      <4>1. order'[j] = c
        BY <2>1, <2>2, <3>3
      <4> QED BY <2>3, <2>4, <3>1, <4>1
    <3> QED BY <3>2, <3>3
  <2> QED BY <2>5, <2>6 DEF InOrder
<1>3. CASE UNCHANGED evidenceVars
  BY <1>1, <1>3 DEF evidenceVars
<1>4. CASE Evidence!Backfill \/ Evidence!StartBefore \/ Evidence!Restart
  BY <1>1, <1>4 DEF Evidence!Backfill, Evidence!StartBefore, Evidence!Restart
<1>5. ~Evidence!SetClockBack
  BY DEF Evidence!SetClockBack
<1> QED BY <1>2, <1>3, <1>4, <1>5 DEF Evidence!Next, Evidence!Submit, Evidence!SubmitBefore

\* A release with events that was started under a clock that only goes forward always starts again,
\* and its events always pass the audit.
NothingStopsTheStart ==
    recording => container # "stopped" /\ (container = "serving" => Evidence!Audited)

\* With a clock that is never set back, no history of submissions, restarts and upgrades stops the
\* container or the audit of its events.
THEOREM ForwardClocksNeverStopTheStart ==
    ASSUME ~ClockMayGoBack
    PROVE  Spec => []NothingStopsTheStart
<1>1. Init => EvidenceInv /\ InOrder
  BY EvidenceInit DEF Init, Evidence!Init, InOrder
<1>2. EvidenceInv /\ InOrder /\ [Next]_vars => (EvidenceInv /\ InOrder)'
  <2> SUFFICES ASSUME EvidenceInv, InOrder, [Next]_vars PROVE (EvidenceInv /\ InOrder)'
    OBVIOUS
  <2>1. [Evidence!Next]_evidenceVars
    BY DEF Next, vars
  <2> QED BY <2>1, EvidenceStep, ForwardClockStep
<1>3. EvidenceInv /\ InOrder => NothingStopsTheStart
  <2> SUFFICES ASSUME EvidenceInv, InOrder PROVE NothingStopsTheStart
    OBVIOUS
  <2>1. order \in Seq(CheckIn) /\ at \in [CheckIn -> Nat]
    BY EvidenceAssumption DEF EvidenceInv, Evidence!TypeOK
  <2>2. ~Reordered
    <3> SUFFICES ASSUME NEW i \in DOMAIN order, NEW j \in DOMAIN order, i < j
                 PROVE  ~Evidence!Earlier(order[j], order[i], at)
      BY DEF Reordered
    <3>1. at[order[i]] < at[order[j]] /\ at[order[i]] \in Nat /\ at[order[j]] \in Nat
      BY <2>1 DEF InOrder
    <3> QED BY <3>1 DEF Evidence!Earlier
  <2> QED BY <2>2, OrderIsAudited DEF EvidenceInv, NothingStopsTheStart
<1> QED BY <1>1, <1>2, <1>3, PTL DEF Spec

-----------------------------------------------------------------------------
(* WeeklyExecution *)

\* The revisions of a week up to one of them.
UpTo(p) == {q \in 1 .. p : plans[q].week = plans[p].week}

\* The evidence of a review is what its window held of the events that were there.
Replayed(p) ==
    /\ reviews[p].proof = {e \in Weekly!ProofOf(plans[p], reviews[p].at) : e =< reviews[p].seen}
    /\ reviews[p].outcome = Weekly!Outcome(reviews[p].proof)

\* While the clock is not set back, a review is earlier than whatever happens after it: an event
\* that arrives later, and the next revision of the week.
InTime(p) ==
    /\ reviews[p].at < clock
    /\ \A e \in DOMAIN events : e > reviews[p].seen => reviews[p].at < events[e].at
    /\ \A q \in DOMAIN plans :
          plans[p].week = plans[q].week /\ plans[p].revision < plans[q].revision
             => reviews[p].at < plans[q].created

\* A revision has the number of those of its week so far, and a review replays.
WeeklyInv ==
    /\ Weekly!TypeOK
    /\ Len(plans) =< MaxPlans /\ Len(events) =< MaxEvents
    /\ \A w \in Worker : busy[w] # None /\ ~Weekly!IsPlanRequest(busy[w]) =>
          busy[w].plan \in DOMAIN plans
    /\ \A p \in DOMAIN plans : plans[p].revision = Cardinality(UpTo(p))
    /\ \A p \in DOMAIN reviews : reviews[p] # None =>
          /\ Replayed(p)
          /\ reviews[p].seen =< Len(events) /\ reviews[p].planned =< Len(plans)
          /\ steady => InTime(p)
    /\ Weekly!NoReplacedPlanIsReviewed

LEMMA SameCardinalityOfPlans == ASSUME NEW S PROVE Weekly!Cardinality(S) = Cardinality(S)
BY DEF Weekly!Cardinality, Cardinality

\* A week is a natural number.
LEMMA WeekType == ASSUME NEW t \in Nat \ {0} PROVE Weekly!Week(t) \in Nat
BY WeeklyAssumption DEF Weekly!Week

\* Weeks do not overlap.
LEMMA WeeksAreApart ==
    ASSUME NEW v \in Nat, NEW w \in Nat, v < w
    PROVE  Weekly!WeekEnd(v) =< Weekly!WeekStart(w)
<1>1. \A a, b, l \in Nat : a =< b => a * l =< b * l
  <2> SUFFICES ASSUME NEW a \in Nat, NEW b \in Nat, NEW l \in Nat, a =< b PROVE a * l =< b * l
    OBVIOUS
  <2>1. PICK d \in Nat : b = a + d
    <3>1. b - a \in Nat /\ b = a + (b - a)
      OBVIOUS
    <3> QED BY <3>1
  <2>2. b * l = a * l + d * l /\ d * l \in Nat /\ a * l \in Nat
    BY <2>1
  <2> QED BY <2>2
<1>2. v + 1 =< w /\ v + 1 \in Nat /\ WeekLength \in Nat
  BY WeeklyAssumption
<1>3. (v + 1) * WeekLength =< w * WeekLength
  BY <1>1, <1>2
<1>4. (v + 1) * WeekLength \in Nat /\ w * WeekLength \in Nat
  BY <1>2
<1> QED BY <1>3, <1>4 DEF Weekly!WeekEnd, Weekly!WeekStart

\* The later of two revisions of a week has the higher number.
LEMMA RevisionsIncrease ==
    ASSUME WeeklyInv, NEW p \in DOMAIN plans, NEW q \in DOMAIN plans, p < q,
           plans[p].week = plans[q].week
    PROVE  plans[p].revision < plans[q].revision
<1>1. p \in Nat /\ q \in Nat
  BY DEF WeeklyInv, Weekly!TypeOK
<1>2. IsFiniteSet(UpTo(q))
  <2>1. IsFiniteSet(1 .. q) /\ UpTo(q) \subseteq 1 .. q
    BY <1>1, FS_Interval DEF UpTo
  <2> QED BY <2>1, FS_Subset
<1>3. UpTo(p) \subseteq UpTo(q) /\ q \in UpTo(q) \ UpTo(p)
  BY <1>1 DEF UpTo, WeeklyInv, Weekly!TypeOK
<1>4. Cardinality(UpTo(p)) < Cardinality(UpTo(q))
  <2>1. /\ IsFiniteSet(UpTo(p)) /\ Cardinality(UpTo(p)) =< Cardinality(UpTo(q))
        /\ Cardinality(UpTo(q)) = Cardinality(UpTo(p)) => UpTo(q) = UpTo(p)
    BY <1>2, <1>3, FS_Subset
  <2>2. Cardinality(UpTo(p)) \in Nat /\ Cardinality(UpTo(q)) \in Nat
    BY <1>2, <2>1, FS_CardinalityType
  <2> QED BY <1>3, <2>1, <2>2
<1> QED BY <1>4 DEF WeeklyInv

\* The latest revision of a week has the number of all of them.
LEMMA LatestCountsAll ==
    ASSUME WeeklyInv, NEW p \in DOMAIN plans, Weekly!IsLatest(p)
    PROVE  /\ UpTo(p) = Weekly!PlansOf(plans[p].week)
           /\ plans[p].revision = Cardinality(Weekly!PlansOf(plans[p].week))
<1>1. plans \in Seq(Weekly!Plan) /\ DOMAIN plans = 1 .. Len(plans) /\ p \in Nat /\ Len(plans) \in Nat
  BY DEF WeeklyInv, Weekly!TypeOK
<1>2. ASSUME NEW q \in Weekly!PlansOf(plans[p].week)
      PROVE  q \in UpTo(p)
  <2>1. q \in DOMAIN plans /\ plans[q].week = plans[p].week /\ q \in Nat
    BY <1>1 DEF Weekly!PlansOf
  <2>2. plans[q].revision =< plans[p].revision
    BY DEF Weekly!IsLatest
  <2>3. plans[q].revision \in Nat /\ plans[p].revision \in Nat
    <3>1. plans[q] \in Weekly!Plan /\ plans[p] \in Weekly!Plan
      BY <1>1, <2>1
    <3> QED BY <3>1, WeeklyAssumption DEF Weekly!Plan
  <2>4. ~(p < q)
    BY <2>1, <2>2, <2>3, RevisionsIncrease
  <2> QED BY <1>1, <2>1, <2>4 DEF UpTo
<1>3. UpTo(p) \subseteq Weekly!PlansOf(plans[p].week)
  BY <1>1 DEF UpTo, Weekly!PlansOf
<1>4. UpTo(p) = Weekly!PlansOf(plans[p].week)
  BY <1>2, <1>3
<1> QED BY <1>4 DEF WeeklyInv

LEMMA ClockRuns ==
    ASSUME WeeklyInv
    PROVE  clock \in Nat \ {0} /\ MaxTime \in Nat /\ clock =< MaxTime + 1
BY WeeklyAssumption DEF WeeklyInv, Weekly!TypeOK

\* What the rows hold.
LEMMA WeeklyRows ==
    ASSUME WeeklyInv
    PROVE  /\ plans \in Seq(Weekly!Plan) /\ events \in Seq(Weekly!Event)
           /\ Len(plans) \in Nat /\ Len(events) \in Nat
           /\ DOMAIN plans = 1 .. Len(plans) /\ DOMAIN reviews = 1 .. Len(plans)
           /\ DOMAIN events = 1 .. Len(events)
           /\ reviews \in Seq(Weekly!Review \cup {None}) /\ Len(reviews) = Len(plans)
           /\ \A p \in DOMAIN plans :
                 /\ plans[p] \in Weekly!Plan /\ p \in Nat /\ plans[p].week \in Nat
                 /\ plans[p].revision \in Nat /\ plans[p].created \in Nat
           /\ \A p \in DOMAIN reviews : reviews[p] # None =>
                 /\ reviews[p] \in Weekly!Review /\ reviews[p].at \in Nat
                 /\ reviews[p].seen \in Nat /\ reviews[p].planned \in Nat
           /\ \A e \in DOMAIN events : events[e] \in Weekly!Event /\ events[e].at \in Nat
           /\ clock \in Nat \ {0} /\ clock \in 1 .. MaxTime + 1
<1>1. /\ plans \in Seq(Weekly!Plan) /\ events \in Seq(Weekly!Event)
      /\ reviews \in [1 .. Len(plans) -> Weekly!Review \cup {None}] /\ clock \in 1 .. MaxTime + 1
  BY DEF WeeklyInv, Weekly!TypeOK
<1>2. /\ Len(plans) \in Nat /\ Len(events) \in Nat
      /\ DOMAIN plans = 1 .. Len(plans) /\ DOMAIN reviews = 1 .. Len(plans)
      /\ DOMAIN events = 1 .. Len(events)
  BY <1>1
<1>3. reviews \in Seq(Weekly!Review \cup {None}) /\ Len(reviews) = Len(plans)
  BY <1>1, <1>2
<1>4. \A p \in DOMAIN plans :
         /\ plans[p] \in Weekly!Plan /\ p \in Nat /\ plans[p].week \in Nat
         /\ plans[p].revision \in Nat /\ plans[p].created \in Nat
  <2> SUFFICES ASSUME NEW p \in DOMAIN plans
               PROVE  /\ plans[p] \in Weekly!Plan /\ p \in Nat /\ plans[p].week \in Nat
                      /\ plans[p].revision \in Nat /\ plans[p].created \in Nat
    OBVIOUS
  <2>1. plans[p] \in Weekly!Plan /\ p \in Nat
    BY <1>1, <1>2
  <2> QED BY <2>1, WeeklyAssumption DEF Weekly!Plan
<1>5. \A p \in DOMAIN reviews : reviews[p] # None =>
         /\ reviews[p] \in Weekly!Review /\ reviews[p].at \in Nat
         /\ reviews[p].seen \in Nat /\ reviews[p].planned \in Nat
  BY <1>1, <1>2, WeeklyAssumption DEF Weekly!Review
<1>6. \A e \in DOMAIN events : events[e] \in Weekly!Event /\ events[e].at \in Nat
  <2> SUFFICES ASSUME NEW e \in DOMAIN events
               PROVE  events[e] \in Weekly!Event /\ events[e].at \in Nat
    OBVIOUS
  <2>1. events[e] \in Weekly!Event
    BY <1>1
  <2> QED BY <2>1, WeeklyAssumption DEF Weekly!Event
<1>7. clock \in Nat \ {0}
  BY <1>1, WeeklyAssumption
<1> QED BY <1>1, <1>2, <1>3, <1>4, <1>5, <1>6, <1>7

\* What does not write a row keeps the reviews true.
LEMMA OthersKeepWeekly ==
    ASSUME WeeklyInv, UNCHANGED <<plans, reviews, events>>,
           clock' \in 1 .. MaxTime + 1, steady' \in BOOLEAN, steady' => steady /\ clock =< clock',
           active' \in Sprint \cup {None}, busy' \in [Worker -> Weekly!Request \cup {None}],
           \A w \in Worker : busy'[w] # None /\ ~Weekly!IsPlanRequest(busy'[w]) =>
              busy'[w].plan \in DOMAIN plans
    PROVE  WeeklyInv'
<1>1. Weekly!TypeOK'
  BY DEF WeeklyInv, Weekly!TypeOK
<1>2. ASSUME NEW p \in DOMAIN reviews, reviews[p] # None
      PROVE  /\ Replayed(p)' /\ (steady' => InTime(p)')
             /\ reviews[p].seen =< Len(events) /\ reviews[p].planned =< Len(plans)
  <2>1. clock \in Nat /\ clock' \in Nat /\ reviews[p].at \in Nat
    BY <1>2, WeeklyRows, WeeklyAssumption
  <2>2. Replayed(p) /\ (steady => InTime(p))
        /\ reviews[p].seen =< Len(events) /\ reviews[p].planned =< Len(plans)
    BY <1>2 DEF WeeklyInv
  <2>3. Replayed(p)'
    BY <2>2 DEF Replayed, Weekly!ProofOf, Weekly!Outcome, Weekly!WeekStart, Weekly!WeekEnd
  <2>4. steady' => InTime(p)'
    BY <2>1, <2>2 DEF InTime
  <2> QED BY <2>2, <2>3, <2>4
<1>3. Weekly!NoReplacedPlanIsReviewed'
  BY DEF WeeklyInv, Weekly!NoReplacedPlanIsReviewed
<1>4. (/\ Len(plans) =< MaxPlans /\ Len(events) =< MaxEvents
       /\ \A w \in Worker : busy[w] # None /\ ~Weekly!IsPlanRequest(busy[w]) =>
             busy[w].plan \in DOMAIN plans
       /\ \A p \in DOMAIN plans : plans[p].revision = Cardinality(UpTo(p)))'
  BY DEF WeeklyInv, Weekly!IsPlanRequest, UpTo
<1> QED BY <1>1, <1>2, <1>3, <1>4 DEF WeeklyInv

\* An event that is submitted now is no evidence of a review, and later than all of them unless
\* the clock was set back.
LEMMA LateEventsProveNothing ==
    ASSUME WeeklyInv, NEW a \in Action, NEW completed \in BOOLEAN, Weekly!SubmitCheckIn(a, completed)
    PROVE  WeeklyInv'
<1>1. /\ clock =< MaxTime /\ Len(events) < MaxEvents /\ clock' = clock + 1
      /\ events' = Append(events, [action |-> a, at |-> clock, completed |-> completed])
      /\ UNCHANGED <<steady, active, plans, reviews, busy>>
  BY DEF Weekly!SubmitCheckIn
<1>2. /\ events \in Seq(Weekly!Event) /\ Len(events) \in Nat /\ clock \in 1 .. MaxTime
      /\ [action |-> a, at |-> clock, completed |-> completed] \in Weekly!Event
  BY <1>1, WeeklyRows, WeeklyAssumption DEF Weekly!Event
<1>3. /\ events' \in Seq(Weekly!Event) /\ Len(events') = Len(events) + 1
      /\ DOMAIN events' = 1 .. Len(events) + 1 /\ DOMAIN events = 1 .. Len(events)
      /\ \A e \in DOMAIN events : events'[e] = events[e]
      /\ events'[Len(events) + 1].at = clock
  BY <1>1, <1>2
<1>4. Weekly!TypeOK'
  BY <1>1, <1>2, <1>3, WeeklyAssumption DEF WeeklyInv, Weekly!TypeOK
<1>5. ASSUME NEW p \in DOMAIN reviews, reviews[p] # None
      PROVE  /\ Replayed(p)' /\ (steady' => InTime(p)')
             /\ reviews[p].seen =< Len(events') /\ reviews[p].planned =< Len(plans)
  <2>1. /\ reviews[p].at \in Nat /\ clock \in Nat /\ reviews[p].seen \in Nat
        /\ reviews[p].seen =< Len(events) /\ reviews[p].planned =< Len(plans)
        /\ reviews[p].proof
             = {e \in Weekly!ProofOf(plans[p], reviews[p].at) : e =< reviews[p].seen}
        /\ reviews[p].outcome = Weekly!Outcome(reviews[p].proof)
        /\ steady => InTime(p)
    BY <1>5, WeeklyRows DEF WeeklyInv, Replayed
  <2>2. \A e : /\ e \in Weekly!ProofOf(plans[p], reviews[p].at)' /\ e =< reviews[p].seen
                <=> e \in Weekly!ProofOf(plans[p], reviews[p].at) /\ e =< reviews[p].seen
    <3> SUFFICES ASSUME NEW e \in DOMAIN events', e =< reviews[p].seen
                 PROVE  e \in Weekly!ProofOf(plans[p], reviews[p].at)'
                          <=> e \in Weekly!ProofOf(plans[p], reviews[p].at)
      BY <1>3 DEF Weekly!ProofOf
    <3>1. e \in DOMAIN events
      BY <1>2, <1>3, <2>1
    <3> QED BY <1>1, <1>3, <3>1 DEF Weekly!ProofOf, Weekly!WeekStart, Weekly!WeekEnd
  <2>3. reviews[p].proof \subseteq DOMAIN events
    BY <2>1 DEF Weekly!ProofOf
  <2>4. Weekly!Outcome(reviews[p].proof)' = Weekly!Outcome(reviews[p].proof)
    BY <1>1, <1>3, <2>3 DEF Weekly!Outcome
  <2>5. Replayed(p)'
    BY <1>1, <2>1, <2>2, <2>4 DEF Replayed
  <2>6. steady' => InTime(p)'
    <3> SUFFICES ASSUME steady PROVE InTime(p)'
      BY <1>1
    <3>1. reviews[p].at < clock /\ clock < clock + 1
      BY <2>1 DEF InTime
    <3>2. ASSUME NEW e \in DOMAIN events', e > reviews[p].seen PROVE reviews[p].at < events'[e].at
      <4>1. CASE e \in DOMAIN events
        BY <1>3, <2>1, <3>2, <4>1 DEF InTime
      <4>2. CASE e = Len(events) + 1
        BY <1>3, <3>1, <4>2
      <4> QED BY <1>2, <1>3, <3>2, <4>1, <4>2
    <3>3. reviews[p].at < clock'
      BY <1>1, <2>1, <3>1
    <3> QED BY <1>1, <2>1, <3>2, <3>3 DEF InTime
  <2> QED BY <1>2, <1>3, <2>1, <2>5, <2>6
<1>7. Weekly!NoReplacedPlanIsReviewed'
  BY <1>1 DEF WeeklyInv, Weekly!NoReplacedPlanIsReviewed
<1>8. Len(events') =< MaxEvents
  BY <1>1, <1>2, <1>3, WeeklyAssumption
<1>9. (/\ Len(plans) =< MaxPlans
       /\ \A w \in Worker : busy[w] # None /\ ~Weekly!IsPlanRequest(busy[w]) =>
             busy[w].plan \in DOMAIN plans
       /\ \A p \in DOMAIN plans : plans[p].revision = Cardinality(UpTo(p)))'
  BY <1>1 DEF WeeklyInv, Weekly!IsPlanRequest, UpTo
<1> QED BY <1>1, <1>4, <1>5, <1>7, <1>8, <1>9 DEF WeeklyInv

\* A request on its way is one of the two kinds.
LEMMA BusyWith ==
    ASSUME WeeklyInv, NEW w \in Worker, busy[w] # None
    PROVE  /\ Weekly!IsPlanRequest(busy[w]) =>
                 busy[w].week \in Nat /\ busy[w].action \in Action /\ busy[w].day \in Day
           /\ ~Weekly!IsPlanRequest(busy[w]) =>
                 busy[w].plan \in DOMAIN plans /\ busy[w].decision \in Decision
<1>1. busy[w] \in Weekly!Request
  BY DEF WeeklyInv, Weekly!TypeOK
<1>2. CASE busy[w] \in [week : Nat, action : Action, day : Day]
  BY <1>1, <1>2 DEF Weekly!IsPlanRequest
<1>3. CASE busy[w] \in [plan : 1 .. MaxPlans, decision : Decision]
  <2>1. ~Weekly!IsPlanRequest(busy[w])
    BY <1>3 DEF Weekly!IsPlanRequest
  <2> QED BY <1>1, <1>3, <2>1 DEF WeeklyInv
<1> QED BY <1>1, <1>2, <1>3 DEF Weekly!Request

\* The next revision of a week is written after every review.
LEMMA NextRevision ==
    ASSUME WeeklyInv, NEW w \in Worker, Weekly!RecordPlan(w), plans' # plans
    PROVE  LET r == busy[w]
               plan == [week |-> r.week, revision |-> 1 + Cardinality(Weekly!PlansOf(r.week)),
                        action |-> r.action, day |-> r.day, created |-> clock]
           IN  /\ busy[w] # None /\ Weekly!IsPlanRequest(r)
               /\ ~\E p \in Weekly!PlansOf(r.week) : Weekly!IsLatest(p) /\ Weekly!SameContent(p, r)
               /\ plan \in Weekly!Plan
               /\ plans' = Append(plans, plan) /\ reviews' = Append(reviews, None)
               /\ clock' = clock + 1 /\ clock =< MaxTime /\ Len(plans) < MaxPlans
               /\ busy' = [busy EXCEPT ![w] = None] /\ UNCHANGED <<steady, active, events>>
<1> DEFINE r == busy[w]
           n == Cardinality(Weekly!PlansOf(r.week))
           plan == [week |-> r.week, revision |-> 1 + n,
                    action |-> r.action, day |-> r.day, created |-> clock]
<1>1. /\ busy[w] # None /\ Weekly!IsPlanRequest(r) /\ clock =< MaxTime
      /\ ~\E p \in Weekly!PlansOf(r.week) : Weekly!IsLatest(p) /\ Weekly!SameContent(p, r)
      /\ plans' = Append(plans, plan) /\ reviews' = Append(reviews, None)
      /\ clock' = clock + 1 /\ Len(plans) < MaxPlans
      /\ busy' = [busy EXCEPT ![w] = None] /\ UNCHANGED <<steady, active, events>>
  BY SameCardinalityOfPlans DEF Weekly!RecordPlan
<1>2. r.week \in Nat /\ r.action \in Action /\ r.day \in Day
  BY <1>1, BusyWith
<1>3. Len(plans) \in Nat
  BY WeeklyRows
<1>4. Weekly!PlansOf(r.week) \subseteq 1 .. Len(plans)
  BY WeeklyRows DEF Weekly!PlansOf
<1>5. n \in Nat /\ n =< Len(plans)
  BY <1>3, <1>4, PositionsAreFinite
<1> HIDE DEF n
<1>7. 1 + n \in 1 .. MaxPlans
  <2>1. MaxPlans \in Nat /\ Len(plans) < MaxPlans
    BY <1>1, WeeklyAssumption
  <2> QED BY <1>3, <1>5, <2>1
<1>8. clock \in 1 .. MaxTime
  BY <1>1, ClockRuns
<1>9. plan \in Weekly!Plan
  BY <1>2, <1>7, <1>8 DEF Weekly!Plan
<1> QED BY <1>1, <1>9 DEF n

LEMMA PlansKeepReviewsTrue ==
    ASSUME WeeklyInv, NEW w \in Worker, Weekly!RecordPlan(w), plans' # plans
    PROVE  WeeklyInv'
<1> DEFINE r == busy[w]
           plan == [week |-> r.week, revision |-> 1 + Cardinality(Weekly!PlansOf(r.week)),
                    action |-> r.action, day |-> r.day, created |-> clock]
           n == Len(plans)
<1>1. /\ busy[w] # None /\ plan \in Weekly!Plan
      /\ plans' = Append(plans, plan) /\ reviews' = Append(reviews, None)
      /\ clock' = clock + 1 /\ clock =< MaxTime /\ n < MaxPlans
      /\ busy' = [busy EXCEPT ![w] = None] /\ UNCHANGED <<steady, active, events>>
  BY NextRevision
<1>2. /\ plans \in Seq(Weekly!Plan) /\ n \in Nat /\ DOMAIN plans = 1 .. n
      /\ reviews \in Seq(Weekly!Review \cup {None}) /\ DOMAIN reviews = 1 .. n /\ Len(reviews) = n
      /\ clock \in Nat
  BY WeeklyRows
<1>3. plan.created = clock /\ plan.week = r.week
      /\ plan.revision = 1 + Cardinality(Weekly!PlansOf(r.week))
  OBVIOUS
<1> HIDE DEF plan
<1> HIDE DEF n
<1>4. /\ plans' \in Seq(Weekly!Plan) /\ Len(plans') = n + 1 /\ DOMAIN plans' = 1 .. n + 1
      /\ plans'[n + 1] = plan /\ \A p \in 1 .. n : plans'[p] = plans[p]
  <2>1. plans \in Seq(Weekly!Plan) /\ plan \in Weekly!Plan /\ plans' = Append(plans, plan)
    BY <1>1, <1>2
  <2>2. /\ plans' \in Seq(Weekly!Plan) /\ Len(plans') = Len(plans) + 1
        /\ DOMAIN plans' = 1 .. Len(plans) + 1 /\ plans'[Len(plans) + 1] = plan
        /\ \A p \in 1 .. Len(plans) : plans'[p] = plans[p]
    BY <2>1, Appended
  <2> QED BY <2>2 DEF n
<1>5. /\ DOMAIN reviews' = 1 .. n + 1 /\ reviews' \in Seq(Weekly!Review \cup {None})
      /\ Len(reviews') = n + 1
      /\ reviews'[n + 1] = None /\ \A p \in 1 .. n : reviews'[p] = reviews[p]
  <2>1. None \in Weekly!Review \cup {None}
    OBVIOUS
  <2> QED BY <1>1, <1>2, <2>1, Appended
<1>6. reviews' \in [1 .. Len(plans') -> Weekly!Review \cup {None}]
  BY <1>4, <1>5
<1>7. clock' \in 1 .. MaxTime + 1
  BY <1>1, <1>2, WeeklyAssumption
<1>8. Weekly!TypeOK'
  BY <1>1, <1>4, <1>6, <1>7 DEF WeeklyInv, Weekly!TypeOK
<1>9. Len(plans') =< MaxPlans /\ Len(events') =< MaxEvents
  BY <1>1, <1>2, <1>4, WeeklyAssumption DEF WeeklyInv
<1>10. \A v \in Worker : busy'[v] # None /\ ~Weekly!IsPlanRequest(busy'[v]) =>
          busy'[v].plan \in DOMAIN plans'
  <2> SUFFICES ASSUME NEW v \in Worker, busy'[v] # None, ~Weekly!IsPlanRequest(busy'[v])
               PROVE  busy'[v].plan \in DOMAIN plans'
    OBVIOUS
  <2>1. busy \in [Worker -> Weekly!Request \cup {None}]
    BY DEF WeeklyInv, Weekly!TypeOK
  <2>2. busy'[v] = busy[v]
    BY <1>1, <2>1
  <2> QED BY <1>2, <1>4, <2>2 DEF WeeklyInv
<1>11. \A p \in DOMAIN plans' : plans'[p].revision = Cardinality(UpTo(p)')
  <2> SUFFICES ASSUME NEW p \in 1 .. n + 1
               PROVE  plans'[p].revision = Cardinality(UpTo(p)')
    BY <1>4
  <2>1. CASE p \in 1 .. n
    <3>1. UpTo(p)' = UpTo(p)
      <4>1. \A q \in 1 .. p : plans'[q].week = plans[q].week
        BY <1>2, <1>4, <2>1
      <4>2. plans'[p].week = plans[p].week
        BY <1>4, <2>1
      <4> QED BY <4>1, <4>2 DEF UpTo
    <3> QED BY <1>2, <1>4, <2>1, <3>1 DEF WeeklyInv
  <2>2. CASE p = n + 1
    <3>1. UpTo(p)' = Weekly!PlansOf(r.week) \cup {n + 1}
      <4>1. \A q : q \in UpTo(p)' <=> q \in 1 .. n + 1 /\ plans'[q].week = r.week
        BY <1>3, <1>4, <2>2 DEF UpTo
      <4>2. \A q : q \in Weekly!PlansOf(r.week) <=> q \in 1 .. n /\ plans'[q].week = r.week
        BY <1>2, <1>4 DEF Weekly!PlansOf
      <4> QED BY <1>2, <1>3, <1>4, <4>1, <4>2
    <3>2. Weekly!PlansOf(r.week) \subseteq 1 .. n /\ n + 1 \notin Weekly!PlansOf(r.week)
      BY <1>2 DEF Weekly!PlansOf
    <3>3. IsFiniteSet(Weekly!PlansOf(r.week))
      BY <1>2, <3>2, PositionsAreFinite
    <3>4. Cardinality(Weekly!PlansOf(r.week) \cup {n + 1}) = Cardinality(Weekly!PlansOf(r.week)) + 1
          /\ Cardinality(Weekly!PlansOf(r.week)) \in Nat
      BY <3>2, <3>3, FS_AddElement, FS_CardinalityType
    <3>5. Cardinality(UpTo(p)') = Cardinality(Weekly!PlansOf(r.week)) + 1
      BY <3>1, <3>4
    <3>6. plans'[p].revision = 1 + Cardinality(Weekly!PlansOf(r.week))
      BY <1>3, <1>4, <2>2
    <3> QED BY <3>4, <3>5, <3>6
  <2> QED BY <1>2, <2>1, <2>2
<1>12. ASSUME NEW p \in DOMAIN reviews', reviews'[p] # None
       PROVE  /\ Replayed(p)' /\ (steady' => InTime(p)')
              /\ reviews'[p].seen =< Len(events) /\ reviews'[p].planned =< Len(plans')
  <2>1. /\ p \in 1 .. n /\ p \in DOMAIN plans /\ reviews'[p] = reviews[p] /\ plans'[p] = plans[p]
    BY <1>2, <1>4, <1>5, <1>12
  <2>2. /\ Replayed(p) /\ (steady => InTime(p)) /\ reviews[p] # None /\ p \in DOMAIN reviews
        /\ reviews[p].seen =< Len(events) /\ reviews[p].planned =< n
    BY <1>2, <1>12, <2>1 DEF WeeklyInv, n
  <2>3. Replayed(p)'
    BY <1>1, <2>1, <2>2 DEF Replayed, Weekly!ProofOf, Weekly!Outcome,
                            Weekly!WeekStart, Weekly!WeekEnd
  <2>4. reviews[p].at \in Nat /\ reviews[p].planned \in Nat
    BY <2>2, WeeklyRows
  <2>5. steady' => InTime(p)'
    <3> SUFFICES ASSUME steady PROVE InTime(p)'
      BY <1>1
    <3>1. InTime(p)
      BY <2>2
    <3>2. ASSUME NEW q \in DOMAIN plans', plans'[p].week = plans'[q].week,
                 plans'[p].revision < plans'[q].revision
          PROVE  reviews'[p].at < plans'[q].created
      <4>1. CASE q \in 1 .. n
        BY <1>2, <1>4, <2>1, <3>1, <3>2, <4>1 DEF InTime
      <4>2. CASE q = n + 1
        BY <1>3, <1>4, <2>1, <3>1, <4>2 DEF InTime
      <4> QED BY <1>2, <1>4, <3>2, <4>1, <4>2
    <3>3. reviews'[p].at < clock'
      BY <1>1, <1>2, <2>1, <2>4, <3>1 DEF InTime
    <3> QED BY <1>1, <2>1, <3>1, <3>2, <3>3 DEF InTime
  <2>6. reviews[p].planned =< n + 1
    BY <1>2, <2>2, <2>4
  <2> QED BY <1>4, <2>1, <2>2, <2>3, <2>5, <2>6
<1>13. Weekly!NoReplacedPlanIsReviewed'
  <2> SUFFICES ASSUME NEW p \in 1 .. n + 1, NEW q \in 1 .. n + 1, reviews'[p] # None,
                      plans'[p].week = plans'[q].week, plans'[p].revision < plans'[q].revision
               PROVE  q > reviews'[p].planned
    BY <1>5 DEF Weekly!NoReplacedPlanIsReviewed
  <2>0. p \in 1 .. n /\ reviews'[p] = reviews[p] /\ plans'[p] = plans[p]
    BY <1>2, <1>4, <1>5
  <2>1. /\ p \in 1 .. n /\ reviews'[p] = reviews[p] /\ plans'[p] = plans[p]
        /\ reviews[p].planned \in Nat /\ reviews[p].planned =< n
    <3>1. p \in DOMAIN reviews /\ reviews[p] # None
      BY <1>2, <2>0
    <3>2. reviews[p].planned \in Nat
      BY <3>1, WeeklyRows
    <3>3. reviews[p].planned =< n
      BY <3>1 DEF WeeklyInv, n
    <3> QED BY <2>0, <3>2, <3>3
  <2>2. CASE q \in 1 .. n
    BY <1>2, <1>4, <2>1, <2>2 DEF WeeklyInv, Weekly!NoReplacedPlanIsReviewed
  <2>3. CASE q = n + 1
    BY <1>2, <2>1, <2>3
  <2> QED BY <1>2, <2>2, <2>3
<1> QED BY <1>1, <1>8, <1>9, <1>10, <1>11, <1>12, <1>13 DEF WeeklyInv

\* A review is of the latest revision, with the evidence of its window until now.
LEMMA ReviewsAreOfTheLatest ==
    ASSUME WeeklyInv, NEW w \in Worker, Weekly!RecordReview(w)
    PROVE  WeeklyInv'
<1> DEFINE p == busy[w].plan
           now == Weekly!ReviewNow(p, busy[w].decision)
<1>1. /\ busy[w] # None /\ ~Weekly!IsPlanRequest(busy[w]) /\ clock =< MaxTime
      /\ Weekly!IsLatest(p) /\ reviews[p] = None
      /\ reviews' = [reviews EXCEPT ![p] = now] /\ clock' = clock + 1
      /\ busy' = [busy EXCEPT ![w] = None] /\ UNCHANGED <<steady, active, plans, events>>
  BY DEF Weekly!RecordReview
<1>2. p \in DOMAIN plans /\ busy[w].decision \in Decision
  BY <1>1, BusyWith
<1>3. clock \in 1 .. MaxTime /\ clock \in Nat
  BY <1>1, ClockRuns
<1>4. Weekly!ProofOf(plans[p], clock) \subseteq 1 .. MaxEvents
  <2>1. /\ DOMAIN events = 1 .. Len(events) /\ Len(events) \in Nat /\ Len(events) =< MaxEvents
        /\ MaxEvents \in Nat
    BY WeeklyRows, WeeklyAssumption DEF WeeklyInv
  <2> QED BY <2>1 DEF Weekly!ProofOf
<1>5. now = [at |-> clock, proof |-> Weekly!ProofOf(plans[p], clock), decision |-> busy[w].decision,
             outcome |-> Weekly!Outcome(Weekly!ProofOf(plans[p], clock)),
             planned |-> Len(plans), seen |-> Len(events)]
  BY DEF Weekly!ReviewNow
<1>6. Weekly!Outcome(Weekly!ProofOf(plans[p], clock)) \in {"completed", "attempted", "no_submitted_evidence"}
  BY DEF Weekly!Outcome
<1>7. now \in Weekly!Review
  <2>1. Len(plans) \in 0 .. MaxPlans /\ Len(events) \in 0 .. MaxEvents
    <3>1. /\ Len(plans) \in Nat /\ Len(plans) =< MaxPlans
          /\ Len(events) \in Nat /\ Len(events) =< MaxEvents
      BY WeeklyRows DEF WeeklyInv
    <3> QED BY <3>1, WeeklyAssumption
  <2> QED BY <1>2, <1>3, <1>4, <1>5, <1>6, <2>1 DEF Weekly!Review
<1> HIDE DEF p, now
<1>8. reviews \in [1 .. Len(plans) -> Weekly!Review \cup {None}] /\ DOMAIN plans = 1 .. Len(plans)
  BY WeeklyRows DEF WeeklyInv, Weekly!TypeOK
<1>9. /\ reviews' \in [1 .. Len(plans) -> Weekly!Review \cup {None}]
      /\ \A q \in DOMAIN reviews' : q \in DOMAIN plans /\ reviews'[q] = IF q = p THEN now ELSE reviews[q]
  BY <1>1, <1>2, <1>7, <1>8
<1>10. Weekly!TypeOK'
  <2>1. clock' \in 1 .. MaxTime + 1
    BY <1>1, <1>3, ClockRuns
  <2> QED BY <1>1, <1>9, <2>1 DEF WeeklyInv, Weekly!TypeOK
<1>11. ASSUME NEW q \in DOMAIN reviews', reviews'[q] # None
       PROVE  /\ Replayed(q)' /\ (steady' => InTime(q)')
              /\ reviews'[q].seen =< Len(events) /\ reviews'[q].planned =< Len(plans)
  <2>1. CASE q = p
    <3>1. /\ reviews'[q] = now /\ now.at = clock /\ now.proof = Weekly!ProofOf(plans[p], clock)
          /\ now.outcome = Weekly!Outcome(now.proof) /\ now.seen = Len(events)
          /\ now.planned = Len(plans)
      BY <1>5, <1>9, <2>1
    <3>2. Len(events) \in Nat /\ DOMAIN events = 1 .. Len(events) /\ Len(plans) \in Nat
      BY WeeklyRows
    <3>3. now.proof = {e \in Weekly!ProofOf(plans[p], now.at) : e =< now.seen}
      BY <3>1, <3>2 DEF Weekly!ProofOf
    <3>4. Replayed(q)'
      BY <1>1, <2>1, <3>1, <3>3 DEF Replayed, Weekly!ProofOf, Weekly!Outcome,
                                    Weekly!WeekStart, Weekly!WeekEnd
    <3>5. ASSUME NEW r \in DOMAIN plans, plans[q].week = plans[r].week,
                 plans[q].revision < plans[r].revision
          PROVE  FALSE
      <4>1. plans[r].revision =< plans[q].revision
        BY <1>1, <2>1, <3>5 DEF Weekly!IsLatest, Weekly!PlansOf
      <4>2. plans[r].revision \in Nat /\ plans[q].revision \in Nat
        BY <1>2, <2>1, <3>5, WeeklyRows
      <4> QED BY <3>5, <4>1, <4>2
    <3>6. InTime(q)'
      BY <1>1, <1>3, <3>1, <3>2, <3>5 DEF InTime
    <3> QED BY <3>1, <3>2, <3>4, <3>6
  <2>2. CASE q # p
    <3>1. /\ reviews'[q] = reviews[q] /\ reviews[q].at \in Nat /\ q \in DOMAIN plans
          /\ Replayed(q) /\ (steady => InTime(q))
          /\ reviews[q].seen =< Len(events) /\ reviews[q].planned =< Len(plans)
      BY <1>8, <1>9, <1>11, <2>2, WeeklyRows DEF WeeklyInv
    <3>2. Replayed(q)'
      BY <1>1, <3>1 DEF Replayed, Weekly!ProofOf, Weekly!Outcome,
                        Weekly!WeekStart, Weekly!WeekEnd
    <3>3. steady' => InTime(q)'
      BY <1>1, <1>3, <3>1 DEF InTime
    <3> QED BY <3>1, <3>2, <3>3
  <2> QED BY <2>1, <2>2
<1>13. Weekly!NoReplacedPlanIsReviewed'
  <2> SUFFICES ASSUME NEW q \in DOMAIN reviews', NEW r \in DOMAIN reviews', reviews'[q] # None,
                      plans[q].week = plans[r].week, plans[q].revision < plans[r].revision
               PROVE  r > reviews'[q].planned
    BY <1>1 DEF Weekly!NoReplacedPlanIsReviewed
  <2>1. q \in DOMAIN plans /\ r \in DOMAIN plans
    BY <1>9
  <2>2. q # p
    <3> SUFFICES ASSUME q = p PROVE FALSE
      OBVIOUS
    <3>1. plans[r].revision =< plans[q].revision
      BY <1>1, <2>1 DEF Weekly!IsLatest, Weekly!PlansOf
    <3>2. plans[r].revision \in Nat /\ plans[q].revision \in Nat
      BY <2>1, WeeklyRows
    <3> QED BY <3>1, <3>2
  <2> QED BY <1>8, <1>9, <2>1, <2>2 DEF WeeklyInv, Weekly!NoReplacedPlanIsReviewed
<1>14. \A v \in Worker : busy'[v] # None /\ ~Weekly!IsPlanRequest(busy'[v]) =>
          busy'[v].plan \in DOMAIN plans'
  <2> SUFFICES ASSUME NEW v \in Worker, busy'[v] # None, ~Weekly!IsPlanRequest(busy'[v])
               PROVE  busy'[v].plan \in DOMAIN plans
    BY <1>1
  <2>1. busy \in [Worker -> Weekly!Request \cup {None}]
    BY DEF WeeklyInv, Weekly!TypeOK
  <2>2. busy'[v] = busy[v]
    BY <1>1, <2>1
  <2> QED BY <2>2 DEF WeeklyInv
<1>15. (/\ Len(plans) =< MaxPlans /\ Len(events) =< MaxEvents
        /\ \A q \in DOMAIN plans : plans[q].revision = Cardinality(UpTo(q)))'
  BY <1>1 DEF WeeklyInv, UpTo
<1> QED BY <1>1, <1>10, <1>11, <1>13, <1>14, <1>15 DEF WeeklyInv

LEMMA WeeklyStep ==
    ASSUME WeeklyInv, [Weekly!Next]_weeklyVars
    PROVE  WeeklyInv'
<1>1. /\ clock \in 1 .. MaxTime + 1 /\ active \in Sprint \cup {None} /\ steady \in BOOLEAN
      /\ busy \in [Worker -> Weekly!Request \cup {None}]
      /\ \A w \in Worker : busy[w] # None /\ ~Weekly!IsPlanRequest(busy[w]) =>
            busy[w].plan \in DOMAIN plans
  BY DEF WeeklyInv, Weekly!TypeOK
<1>2. clock \in Nat \ {0} /\ MaxTime \in Nat
  BY ClockRuns
<1>3. CASE UNCHANGED weeklyVars
  BY <1>1, <1>2, <1>3, OthersKeepWeekly DEF weeklyVars
<1>4. CASE Weekly!Tick
  <2>1. /\ clock' = clock + 1 /\ clock =< MaxTime
        /\ UNCHANGED <<steady, active, plans, reviews, events, busy>>
    BY <1>4 DEF Weekly!Tick
  <2>2. clock' \in 1 .. MaxTime + 1 /\ clock =< clock'
    BY <1>2, <2>1
  <2> QED BY <1>1, <2>1, <2>2, OthersKeepWeekly
<1>5. CASE Weekly!SetBack
  <2>1. /\ clock' \in 1 .. clock - 1 /\ steady' = FALSE
        /\ UNCHANGED <<active, plans, reviews, events, busy>>
    BY <1>5 DEF Weekly!SetBack
  <2>2. clock' \in 1 .. MaxTime + 1
    BY <1>1, <1>2, <2>1
  <2> QED BY <1>1, <2>1, <2>2, OthersKeepWeekly
<1>6. CASE Weekly!ChangePractice
  <2>1. active' \in Sprint \cup {None} /\ UNCHANGED <<clock, steady, plans, reviews, events, busy>>
    BY <1>6 DEF Weekly!ChangePractice
  <2> QED BY <1>1, <1>2, <2>1, OthersKeepWeekly
<1>7. ASSUME NEW a \in Action, NEW completed \in BOOLEAN, Weekly!SubmitCheckIn(a, completed)
      PROVE  WeeklyInv'
  BY <1>7, LateEventsProveNothing
\* A worker takes a request up.
<1>8. ASSUME NEW w \in Worker, NEW r \in Weekly!Request,
             busy' = [busy EXCEPT ![w] = r], UNCHANGED <<clock, steady, active, plans, reviews, events>>,
             Weekly!IsPlanRequest(r) \/ r.plan \in DOMAIN plans
      PROVE  WeeklyInv'
  <2>1. busy' \in [Worker -> Weekly!Request \cup {None}]
    BY <1>1, <1>8
  <2>2. \A v \in Worker : busy'[v] # None /\ ~Weekly!IsPlanRequest(busy'[v]) =>
           busy'[v].plan \in DOMAIN plans
    BY <1>1, <1>8
  <2> QED BY <1>1, <1>2, <1>8, <2>1, <2>2, OthersKeepWeekly
<1>9. ASSUME NEW w \in Worker, NEW a \in Action, NEW day \in Day, Weekly!ReceivePlan(w, a, day)
      PROVE  WeeklyInv'
  <2> DEFINE r == [week |-> Weekly!Week(clock), action |-> a, day |-> day]
  <2>1. busy' = [busy EXCEPT ![w] = r] /\ UNCHANGED <<clock, steady, active, plans, reviews, events>>
    BY <1>9 DEF Weekly!ReceivePlan
  <2>2. r \in Weekly!Request
    BY <1>2, WeekType DEF Weekly!Request
  <2>3. Weekly!IsPlanRequest(r)
    BY DEF Weekly!IsPlanRequest
  <2> QED BY <1>8, <2>1, <2>2, <2>3
<1>10. ASSUME NEW w \in Worker, NEW p \in DOMAIN plans, NEW d \in Decision,
              Weekly!ReceiveReview(w, p, d)
       PROVE  WeeklyInv'
  <2> DEFINE r == [plan |-> p, decision |-> d]
  <2>1. busy' = [busy EXCEPT ![w] = r] /\ UNCHANGED <<clock, steady, active, plans, reviews, events>>
    BY <1>10 DEF Weekly!ReceiveReview
  <2>2. p \in 1 .. MaxPlans
    <3>1. p \in 1 .. Len(plans) /\ Len(plans) \in Nat /\ Len(plans) =< MaxPlans
      BY WeeklyRows DEF WeeklyInv
    <3> QED BY <3>1, WeeklyAssumption
  <2>3. r \in Weekly!Request /\ r.plan = p
    BY <2>2 DEF Weekly!Request
  <2> QED BY <1>8, <2>1, <2>3
\* A worker is done with its request, and wrote nothing.
<1>11. ASSUME NEW w \in Worker, busy' = [busy EXCEPT ![w] = None],
              UNCHANGED <<clock, steady, active, plans, reviews, events>>
       PROVE  WeeklyInv'
  <2>1. busy' \in [Worker -> Weekly!Request \cup {None}]
    BY <1>1, <1>11
  <2>2. \A v \in Worker : busy'[v] # None /\ ~Weekly!IsPlanRequest(busy'[v]) =>
           busy'[v].plan \in DOMAIN plans
    BY <1>1, <1>11
  <2> QED BY <1>1, <1>2, <1>11, <2>1, <2>2, OthersKeepWeekly
<1>12. ASSUME NEW w \in Worker, Weekly!RecordPlan(w)
       PROVE  WeeklyInv'
  <2>1. CASE plans' # plans
    BY <1>12, <2>1, PlansKeepReviewsTrue
  <2>2. CASE plans' = plans
    <3>1. UNCHANGED <<clock, plans, reviews>>
      <4>1. plans \in Seq(Weekly!Plan)
        BY WeeklyRows
      <4>2. \A plan : Append(plans, plan) # plans
        BY <4>1, AppendedIsLonger
      <4> QED BY <1>12, <2>2, <4>2 DEF Weekly!RecordPlan
    <3>2. busy' = [busy EXCEPT ![w] = None] /\ UNCHANGED <<steady, active, events>>
      BY <1>12 DEF Weekly!RecordPlan
    <3> QED BY <1>11, <3>1, <3>2
  <2> QED BY <2>1, <2>2
<1>13. ASSUME NEW w \in Worker, Weekly!RecordReview(w)
       PROVE  WeeklyInv'
  BY <1>13, ReviewsAreOfTheLatest
<1>14. ASSUME NEW w \in Worker, Weekly!Abandon(w)
       PROVE  WeeklyInv'
  BY <1>11, <1>14 DEF Weekly!Abandon
<1> QED BY <1>3, <1>4, <1>5, <1>6, <1>7, <1>9, <1>10, <1>12, <1>13, <1>14 DEF Weekly!Next

\* Every review verifies, unless an event came after it that is stamped before it.
LEMMA ReviewsVerify == ASSUME WeeklyInv PROVE Weekly!ReviewsStayValid
<1> SUFFICES ASSUME NEW p \in DOMAIN reviews, reviews[p] # None
             PROVE  Weekly!Verifies(p) \/ (~steady /\ Weekly!Overtaken(p))
  BY DEF Weekly!ReviewsStayValid, Weekly!Verifies
<1>1. /\ Replayed(p) /\ (steady => InTime(p)) /\ reviews[p].seen \in Nat /\ reviews[p].at \in Nat
      /\ DOMAIN events = 1 .. Len(events) /\ Len(events) \in Nat
      /\ \A e \in DOMAIN events : events[e].at \in Nat
  BY WeeklyRows DEF WeeklyInv
<1>2. CASE Weekly!Overtaken(p)
  <2>1. PICK e \in Weekly!ProofOf(plans[p], reviews[p].at) : e > reviews[p].seen
    BY <1>2 DEF Weekly!Overtaken
  <2>2. e \in DOMAIN events /\ events[e].at =< reviews[p].at
    BY <2>1 DEF Weekly!ProofOf
  <2>3. ~steady
    BY <1>1, <2>1, <2>2 DEF InTime
  <2> QED BY <1>2, <2>3
<1>3. CASE ~Weekly!Overtaken(p)
  <2>1. \A e \in Weekly!ProofOf(plans[p], reviews[p].at) : e =< reviews[p].seen
    BY <1>1, <1>3 DEF Weekly!Overtaken, Weekly!ProofOf
  <2> QED BY <1>1, <2>1 DEF Replayed, Weekly!Verifies
<1> QED BY <1>2, <1>3

\* No event is in the window of two plans with a review: their weeks are apart, or one was reviewed
\* before the other was made.
LEMMA EvidenceProvesOnePlan == ASSUME WeeklyInv PROVE Weekly!NoEvidenceProvesTwoPlans
<1>1. ASSUME steady, NEW p \in DOMAIN reviews, NEW q \in DOMAIN reviews, p < q,
             reviews[p] # None, reviews[q] # None, NEW e \in reviews[p].proof \cap reviews[q].proof
      PROVE  FALSE
  <2>1. p \in DOMAIN plans /\ q \in DOMAIN plans /\ plans[p].week \in Nat /\ plans[q].week \in Nat
    BY WeeklyRows
  <2>2. /\ e \in Weekly!ProofOf(plans[p], reviews[p].at) /\ e \in Weekly!ProofOf(plans[q], reviews[q].at)
    BY <1>1 DEF WeeklyInv, Replayed
  <2> DEFINE v == plans[p].week
             w == plans[q].week
             t == events[e].at
  <2>3. /\ t \in Weekly!WeekStart(v) .. Weekly!WeekEnd(v) - 1
        /\ t \in Weekly!WeekStart(w) .. Weekly!WeekEnd(w) - 1
        /\ t >= plans[q].created /\ t =< reviews[p].at
    BY <2>2 DEF Weekly!ProofOf
  <2>4. e \in DOMAIN events
    BY <2>2 DEF Weekly!ProofOf
  <2>5. t \in Nat /\ plans[q].created \in Nat /\ reviews[p].at \in Nat
    BY <1>1, <2>1, <2>4, WeeklyRows
  <2>6. \A n \in Nat : Weekly!WeekStart(n) \in Int /\ Weekly!WeekEnd(n) \in Int
    <3> SUFFICES ASSUME NEW n \in Nat
                 PROVE  Weekly!WeekStart(n) \in Int /\ Weekly!WeekEnd(n) \in Int
      OBVIOUS
    <3>1. WeekLength \in Nat
      BY WeeklyAssumption
    <3>2. n * WeekLength \in Nat /\ (n + 1) * WeekLength \in Nat
      BY <3>1
    <3> QED BY <3>2 DEF Weekly!WeekStart, Weekly!WeekEnd
  <2>7. v = w
    <3> HIDE DEF v, w, t
    <3>1. v \in Nat /\ w \in Nat
      BY <2>1 DEF v, w
    <3>2. ~(v < w)
      BY <2>3, <2>5, <2>6, <3>1, WeeksAreApart
    <3>3. ~(w < v)
      BY <2>3, <2>5, <2>6, <3>1, WeeksAreApart
    <3> QED BY <3>1, <3>2, <3>3
  <2>8. plans[p].revision < plans[q].revision
    BY <1>1, <2>1, <2>7, RevisionsIncrease
  <2>9. reviews[p].at < plans[q].created
    BY <1>1, <2>1, <2>7, <2>8 DEF WeeklyInv, InTime
  <2> QED BY <2>3, <2>5, <2>9
<1>2. \A p \in DOMAIN reviews : p \in Nat
  BY WeeklyRows
<1> QED BY <1>1, <1>2 DEF Weekly!NoEvidenceProvesTwoPlans

LEMMA WeeklyInit == Weekly!Init => WeeklyInv
<1> SUFFICES ASSUME Weekly!Init PROVE WeeklyInv
  OBVIOUS
<1>1. /\ clock = 1 /\ steady = TRUE /\ active \in Sprint
      /\ plans = <<>> /\ reviews = <<>> /\ events = <<>>
      /\ busy = [w \in Worker |-> None]
  BY DEF Weekly!Init
<1>2. Len(plans) = 0 /\ Len(events) = 0 /\ DOMAIN plans = {} /\ DOMAIN reviews = {} /\ 1 .. 0 = {}
  BY <1>1
<1>3. reviews \in [1 .. Len(plans) -> Weekly!Review \cup {None}]
  BY <1>1, <1>2
<1>4. Weekly!TypeOK
  BY <1>1, <1>3, WeeklyAssumption DEF Weekly!TypeOK
<1> QED BY <1>1, <1>2, <1>4, WeeklyAssumption
        DEF WeeklyInv, Weekly!NoReplacedPlanIsReviewed

\* A weekly review is of the plan that was in force.  While the clock is not set back it verifies for
\* good, with evidence that proves no other plan, whatever arrives late or twice; only an event that
\* came after the review and is stamped before it, by a clock that was set back, undoes it.
THEOREM ReviewsAreTrueForGood == Spec => []WeeklyReviewsStayTrue
<1>1. Init => WeeklyInv
  BY WeeklyInit DEF Init
<1>2. WeeklyInv /\ [Next]_vars => WeeklyInv'
  <2> SUFFICES ASSUME WeeklyInv, [Next]_vars PROVE WeeklyInv'
    OBVIOUS
  <2>1. [Weekly!Next]_weeklyVars
    BY DEF Next, vars
  <2> QED BY <2>1, WeeklyStep
<1>3. WeeklyInv => WeeklyReviewsStayTrue
  BY ReviewsVerify, EvidenceProvesOnePlan DEF WeeklyInv, WeeklyReviewsStayTrue
<1> QED BY <1>1, <1>2, <1>3, PTL DEF Spec

\* Plans and reviews are only added, and the next revision of a week says something new.
LEMMA WeeklyHistoryGrows ==
    ASSUME WeeklyInv, [Weekly!Next]_weeklyVars
    PROVE  /\ Len(plans) =< Len(plans') /\ SubSeq(plans', 1, Len(plans)) = plans
           /\ \A p \in DOMAIN reviews : reviews[p] # None => reviews'[p] = reviews[p]
           /\ \A q \in DOMAIN plans' : \A p \in DOMAIN plans :
                /\ q \notin DOMAIN plans /\ Weekly!IsLatest(p) /\ plans'[q].week = plans[p].week
                => /\ plans'[q].revision = plans[p].revision + 1
                   /\ <<plans'[q].action, plans'[q].day>> # <<plans[p].action, plans[p].day>>
<1>1. /\ plans \in Seq(Weekly!Plan) /\ Len(plans) \in Nat /\ DOMAIN plans = 1 .. Len(plans)
      /\ reviews \in Seq(Weekly!Review \cup {None}) /\ DOMAIN reviews = 1 .. Len(plans)
      /\ Len(reviews) = Len(plans)
  BY WeeklyRows
<1>2. CASE UNCHANGED <<plans, reviews>>
  <2>1. SubSeq(plans', 1, Len(plans)) = plans
    BY <1>1, <1>2, SubSeqFull
  <2> QED BY <1>1, <1>2, <2>1
<1>3. ASSUME NEW w \in Worker, Weekly!RecordReview(w)
      PROVE  UNCHANGED plans /\ \A p \in DOMAIN reviews : reviews[p] # None => reviews'[p] = reviews[p]
  BY <1>1, <1>3 DEF Weekly!RecordReview
<1>4. ASSUME NEW w \in Worker, Weekly!RecordPlan(w), plans' # plans
      PROVE  /\ Len(plans) =< Len(plans') /\ SubSeq(plans', 1, Len(plans)) = plans
             /\ \A p \in DOMAIN reviews : reviews[p] # None => reviews'[p] = reviews[p]
             /\ \A q \in DOMAIN plans' : \A p \in DOMAIN plans :
                  /\ q \notin DOMAIN plans /\ Weekly!IsLatest(p) /\ plans'[q].week = plans[p].week
                  => /\ plans'[q].revision = plans[p].revision + 1
                     /\ <<plans'[q].action, plans'[q].day>> # <<plans[p].action, plans[p].day>>
  <2> DEFINE r == busy[w]
             plan == [week |-> r.week, revision |-> 1 + Cardinality(Weekly!PlansOf(r.week)),
                      action |-> r.action, day |-> r.day, created |-> clock]
  <2>1. /\ ~\E p \in Weekly!PlansOf(r.week) : Weekly!IsLatest(p) /\ Weekly!SameContent(p, r)
        /\ plan \in Weekly!Plan /\ plans' = Append(plans, plan) /\ reviews' = Append(reviews, None)
    BY <1>4, NextRevision
  <2>2. /\ plan.week = r.week /\ plan.action = r.action /\ plan.day = r.day
        /\ plan.revision = 1 + Cardinality(Weekly!PlansOf(r.week))
    OBVIOUS
  <2> HIDE DEF plan
  <2>3. /\ plans' \in Seq(Weekly!Plan) /\ Len(plans') = Len(plans) + 1
        /\ DOMAIN plans' = 1 .. Len(plans) + 1
        /\ plans'[Len(plans) + 1] = plan /\ \A p \in 1 .. Len(plans) : plans'[p] = plans[p]
    BY <1>1, <2>1, Appended
  <2>4. \A p \in 1 .. Len(plans) : reviews'[p] = reviews[p]
    <3>1. None \in Weekly!Review \cup {None}
      OBVIOUS
    <3> QED BY <1>1, <2>1, <3>1, Appended
  <2>5. SubSeq(plans', 1, Len(plans)) = plans
    <3>1. /\ SubSeq(plans', 1, Len(plans)) \in Seq(Weekly!Plan)
          /\ Len(SubSeq(plans', 1, Len(plans))) = Len(plans)
      BY <1>1, <2>3
    <3>2. \A p \in 1 .. Len(plans) : SubSeq(plans', 1, Len(plans))[p] = plans[p]
      BY <1>1, <2>3
    <3> QED BY <1>1, <3>1, <3>2, SeqEqual
  <2>6. ASSUME NEW q \in DOMAIN plans', NEW p \in DOMAIN plans, q \notin DOMAIN plans,
               Weekly!IsLatest(p), plans'[q].week = plans[p].week
        PROVE  /\ plans'[q].revision = plans[p].revision + 1
               /\ <<plans'[q].action, plans'[q].day>> # <<plans[p].action, plans[p].day>>
    <3>1. plans'[q] = plan
      BY <1>1, <2>3, <2>6
    <3>2. p \in Weekly!PlansOf(r.week) /\ plans[p].week = r.week
      BY <2>2, <2>6, <3>1 DEF Weekly!PlansOf
    <3>3. plans[p].revision = Cardinality(Weekly!PlansOf(r.week))
      BY <2>6, <3>2, LatestCountsAll
    <3>4. plans[p].revision \in Nat
      BY <2>6, WeeklyRows
    <3>5. ~Weekly!SameContent(p, r)
      BY <2>1, <2>6, <3>2
    <3> QED BY <2>2, <3>1, <3>2, <3>3, <3>4, <3>5 DEF Weekly!SameContent
  <2> QED BY <1>1, <2>3, <2>4, <2>5, <2>6
<1>5. ASSUME NEW w \in Worker, Weekly!RecordPlan(w), plans' = plans
      PROVE  UNCHANGED reviews
  <2> DEFINE plan == [week |-> busy[w].week,
                      revision |-> 1 + Weekly!Cardinality(Weekly!PlansOf(busy[w].week)),
                      action |-> busy[w].action, day |-> busy[w].day, created |-> clock]
  <2>1. UNCHANGED reviews \/ plans' = Append(plans, plan)
    BY <1>5, Zenon DEF Weekly!RecordPlan
  <2> HIDE DEF plan
  <2>2. Append(plans, plan) # plans
    BY <1>1, AppendedIsLonger
  <2> QED BY <1>5, <2>1, <2>2
<1>6. CASE \A w \in Worker : ~Weekly!RecordPlan(w) /\ ~Weekly!RecordReview(w)
  BY <1>2, <1>6 DEF Weekly!Next, weeklyVars, Weekly!Tick, Weekly!SetBack,
     Weekly!ChangePractice, Weekly!SubmitCheckIn, Weekly!ReceivePlan, Weekly!ReceiveReview, Weekly!Abandon
<1>7. SubSeq(plans, 1, Len(plans)) = plans
  BY <1>1, SubSeqFull
<1> QED BY <1>1, <1>2, <1>3, <1>4, <1>5, <1>6, <1>7

-----------------------------------------------------------------------------
(* LegacyScoreState: lists in the order of submission *)

\* Induction, for the members of a set.
LEMMA AllNumbers ==
    ASSUME NEW T, 0 \in T, \A n \in Nat : n \in T => n + 1 \in T
    PROVE  Nat \subseteq T
<1> DEFINE left == Nat \ T
<1>1. SUFFICES ASSUME left # {} PROVE FALSE
  OBVIOUS
<1>2. PICK m \in left : \A y \in left : ~ (<<y, m>> \in OpToRel(<, Nat))
  <2>1. IsWellFoundedOn(OpToRel(<, Nat), Nat)
    BY NatLessThanWellFounded
  <2> QED BY <1>1, <2>1, WFMin
<1>3. \A y \in left : ~ (y < m)
  BY <1>2 DEF OpToRel
<1>4. m \in Nat /\ m # 0 /\ m \notin T
  OBVIOUS
<1>5. m - 1 \in Nat /\ m - 1 < m /\ (m - 1) + 1 = m
  BY <1>4
<1>6. m - 1 \notin left
  BY <1>3, <1>5
<1>7. m - 1 \in T
  BY <1>5, <1>6
<1> QED BY <1>4, <1>5, <1>7

\* The list of some members of a sequence, in the order of the sequence.
Listing(p, S) ==
    /\ p \in Seq(S)
    /\ \A i, j \in DOMAIN p : p[i] = p[j] => i = j
    /\ \A e \in S : \E i \in DOMAIN p : p[i] = e

\* One step of Ordered; the function that Ordered is defined by.
Longer(p, e, S) == IF e \in S THEN Append(p, e) ELSE p
Prefixes(f, sub, S, m) == f = [n \in 0 .. m |-> IF n = 0 THEN <<>> ELSE Longer(f[n - 1], sub[n], S)]

LEMMA PrefixesExist ==
    ASSUME NEW sub, NEW S, NEW m \in Nat
    PROVE  \E f : Prefixes(f, sub, S, m)
<1> DEFINE T == {n \in Nat : \E f : Prefixes(f, sub, S, n)}
<1>1. 0 \in T
  <2>1. Prefixes([n \in 0 .. 0 |-> <<>>], sub, S, 0)
    BY DEF Prefixes
  <2> QED BY <2>1
<1>2. ASSUME NEW n \in Nat, n \in T PROVE n + 1 \in T
  <2>1. PICK f : Prefixes(f, sub, S, n)
    BY <1>2
  <2> DEFINE last == Longer(f[n], sub[n + 1], S)
             g == [i \in 0 .. n + 1 |-> IF i = n + 1 THEN last ELSE f[i]]
  <2>2. \A i \in 0 .. n : f[i] = IF i = 0 THEN <<>> ELSE Longer(f[i - 1], sub[i], S)
    BY <2>1 DEF Prefixes
  <2>3. \A i \in 0 .. n + 1 :
          g[i] = IF i = 0 THEN <<>> ELSE Longer(g[i - 1], sub[i], S)
    <3> TAKE i \in 0 .. n + 1
    <3>1. CASE i = n + 1
      <4>1. g[i] = last /\ i # 0 /\ i - 1 = n /\ g[n] = f[n]
        BY <3>1
      <4> HIDE DEF g
      <4> QED BY <3>1, <4>1
    <3>2. CASE i # n + 1 /\ i # 0
      <4>1. g[i] = f[i] /\ i \in 0 .. n /\ i - 1 \in 0 .. n /\ g[i - 1] = f[i - 1]
        BY <3>2
      <4> HIDE DEF g
      <4> QED BY <2>2, <3>2, <4>1
    <3>3. CASE i = 0
      <4>1. g[i] = f[i] /\ i \in 0 .. n
        BY <3>3
      <4> HIDE DEF g
      <4> QED BY <2>2, <3>3, <4>1
    <3> QED BY <3>1, <3>2, <3>3
  <2>4. g = [i \in 0 .. n + 1 |-> IF i = 0 THEN <<>> ELSE Longer(g[i - 1], sub[i], S)]
    <3>1. g = [i \in 0 .. n + 1 |-> g[i]]
      OBVIOUS
    <3> HIDE DEF g
    <3> QED BY <2>3, <3>1
  <2>5. Prefixes(g, sub, S, n + 1)
    BY <2>4 DEF Prefixes
  <2> QED BY <2>5
<1>3. Nat \subseteq T
  <2> HIDE DEF T
  <2> QED BY <1>1, <1>2, AllNumbers
<1> QED BY <1>3

\* Ordered lists the events it is given, each once.
LEMMA OrderedLists ==
    ASSUME NEW C, NEW sub \in Seq(C), NEW S,
           \A i, j \in DOMAIN sub : sub[i] = sub[j] => i = j,
           \A e \in S : \E i \in DOMAIN sub : sub[i] = e
    PROVE  Listing(Legacy!Ordered(sub, S), S)
<1> DEFINE first == CHOOSE f : Prefixes(f, sub, S, Len(sub))
           seen(n) == {sub[i] : i \in 1 .. n} \cap S
           T == {n \in Nat : n =< Len(sub) => Listing(first[n], seen(n))}
<1>1. Len(sub) \in Nat /\ DOMAIN sub = 1 .. Len(sub)
  OBVIOUS
<1>2. Legacy!Ordered(sub, S) = first[Len(sub)]
  BY DEF Legacy!Ordered, Prefixes, Longer
<1>3. Prefixes(first, sub, S, Len(sub))
  BY <1>1, PrefixesExist
<1> HIDE DEF first
<1>4. \A n \in 0 .. Len(sub) : first[n] = IF n = 0 THEN <<>> ELSE Longer(first[n - 1], sub[n], S)
  BY <1>1, <1>3 DEF Prefixes
<1>5. 0 \in T
  <2>1. first[0] = <<>> /\ seen(0) = {}
    BY <1>1, <1>4
  <2>2. Listing(<<>>, {})
    BY DEF Listing
  <2> QED BY <2>1, <2>2
<1>6. ASSUME NEW n \in Nat, n \in T PROVE n + 1 \in T
  <2>1. SUFFICES ASSUME n + 1 =< Len(sub) PROVE Listing(first[n + 1], seen(n + 1))
    OBVIOUS
  <2>2. Listing(first[n], seen(n))
    BY <1>1, <1>6, <2>1
  <2>3. first[n + 1] = Longer(first[n], sub[n + 1], S) /\ n + 1 \in DOMAIN sub
    BY <1>1, <1>4, <2>1
  <2>4. 1 .. n + 1 = (1 .. n) \cup {n + 1}
    OBVIOUS
  <2>5. CASE sub[n + 1] \notin S
    <3>1. seen(n + 1) = seen(n)
      BY <2>4, <2>5
    <3> QED BY <2>2, <2>3, <2>5, <3>1 DEF Longer
  <2>6. CASE sub[n + 1] \in S
    <3>1. seen(n + 1) = seen(n) \cup {sub[n + 1]}
      BY <2>4, <2>6
    <3>2. sub[n + 1] \notin seen(n)
      BY <1>1, <2>1, <2>3
    <3>3. first[n + 1] = Append(first[n], sub[n + 1])
      BY <2>3, <2>6 DEF Longer
    <3> DEFINE W == seen(n)
               p == first[n]
               e == sub[n + 1]
               q == Append(p, e)
    <3>4. Listing(p, W) /\ e \notin W
      BY <2>2, <3>2
    <3> HIDE DEF W, p, e
    <3>5. p \in Seq(W) /\ p \in Seq(W \cup {e})
      BY <3>4 DEF Listing
    <3>6. q \in Seq(W \cup {e}) /\ DOMAIN q = 1 .. Len(p) + 1 /\ q[Len(p) + 1] = e
          /\ \A i \in 1 .. Len(p) : q[i] = p[i]
      BY <3>5, Appended
    <3>7. DOMAIN p = 1 .. Len(p) /\ Len(p) \in Nat /\ \A i \in DOMAIN p : p[i] \in W
      BY <3>5
    <3> HIDE DEF q
    <3>8. ASSUME NEW i \in DOMAIN q, NEW j \in DOMAIN q, q[i] = q[j] PROVE i = j
      BY <3>4, <3>6, <3>7, <3>8 DEF Listing
    <3>9. ASSUME NEW x \in W \cup {e} PROVE \E i \in DOMAIN q : q[i] = x
      <4>1. CASE x = e
        BY <3>6, <3>7, <4>1
      <4>2. CASE x \in W
        <5>1. PICK i \in DOMAIN p : p[i] = x
          BY <3>4, <4>2 DEF Listing
        <5> QED BY <3>6, <3>7, <5>1
      <4> QED BY <4>1, <4>2
    <3>10. Listing(q, W \cup {e})
      BY <3>6, <3>8, <3>9 DEF Listing
    <3> QED BY <3>1, <3>3, <3>10 DEF W, p, e, q
  <2> QED BY <2>5, <2>6
<1>7. Nat \subseteq T
  <2> HIDE DEF T
  <2> QED BY <1>5, <1>6, AllNumbers
<1>8. Listing(first[Len(sub)], seen(Len(sub)))
  <2>1. Len(sub) \in T
    <3> HIDE DEF T
    <3> QED BY <1>1, <1>7
  <2> QED BY <1>1, <2>1
<1>9. seen(Len(sub)) = S
  BY <1>1
<1> QED BY <1>2, <1>8, <1>9

-----------------------------------------------------------------------------
(* LegacyScoreState: the ledger of a run *)

\* What Verified asks of a history, whatever the events of the run and its rows are.
Entry(h, i) ==
    /\ i > 1 /\ h[i].op # "rebuild" => h[i].before = h[i - 1].after
    /\ h[i].op = "initialize" => i = 1 /\ h[i].before = Legacy!NoRows
    /\ h[i].op = "process" => h[i].event \in LegacyCheckIn \ Legacy!ActiveAfter(h, i - 1)
    /\ h[i].op = "reverse" => h[i].event \in Legacy!ActiveAfter(h, i - 1)
    /\ h[i].active = Legacy!ActiveAfter(h, i)
    /\ h[i].after = Legacy!Desired(h[i].active)

Trail(h) ==
    /\ h # <<>> /\ h[1].op = "initialize"
    /\ \A i \in DOMAIN h : Entry(h, i)

\* A history with its rows, of a run with the events `evs`.
Replays(evs, h, w) ==
    /\ Trail(h) /\ Legacy!Processed(h) = evs
    /\ w = Legacy!Desired(Legacy!Active(h))

LEMMA ProcessedAreTouched ==
    ASSUME NEW h, NEW n \in Nat, NEW i \in 1 .. n, NEW op, h[i].op = op, h[i].event \in LegacyCheckIn
    PROVE  h[i].event \in Legacy!Touched(h, n, op)
BY DEF Legacy!Touched

LEMMA TouchedAreCheckIns ==
    ASSUME NEW h, NEW n, NEW op
    PROVE  Legacy!Touched(h, n, op) \subseteq LegacyCheckIn
BY DEF Legacy!Touched

LEMMA DesiredIsPayload ==
    ASSUME NEW ids
    PROVE  Legacy!Desired(ids) \in Legacy!Payload /\ Legacy!Desired(ids) # Legacy!NoRows
BY LegacyAssumption
   DEF Legacy!Desired, Legacy!Contributing, Legacy!Payload, Legacy!NoRows

\* The verification passes for a trail of the events whose rows are its last state.
LEMMA VerifiedMeansReplays ==
    ASSUME NEW h \in Seq(Legacy!Snapshot), NEW w, NEW evs \in SUBSET LegacyCheckIn
    PROVE  Legacy!Verified(evs, h, w) <=> Replays(evs, h, w)
<1>1. Len(h) \in Nat /\ DOMAIN h = 1 .. Len(h) /\ (h # <<>> => Len(h) \in DOMAIN h)
  OBVIOUS
<1>2. ASSUME Legacy!Verified(evs, h, w) PROVE Replays(evs, h, w)
  <2>1. ASSUME NEW i \in DOMAIN h PROVE Entry(h, i)
    BY <1>2, <2>1 DEF Legacy!Verified, Entry
  <2> QED BY <1>2, <2>1 DEF Legacy!Verified, Replays, Trail
<1>3. ASSUME Replays(evs, h, w) PROVE Legacy!Verified(evs, h, w)
  <2>1. ASSUME NEW i \in DOMAIN h, h[i].op = "process"
        PROVE  h[i].event \in evs \ Legacy!ActiveAfter(h, i - 1)
    <3>1. h[i].event \in LegacyCheckIn \ Legacy!ActiveAfter(h, i - 1)
      BY <1>3, <2>1 DEF Replays, Trail, Entry
    <3>2. h[i].event \in Legacy!Processed(h)
      BY <1>1, <2>1, <3>1, ProcessedAreTouched DEF Legacy!Processed
    <3> QED BY <1>3, <3>1, <3>2 DEF Replays
  <2>2. \A i \in DOMAIN h : Entry(h, i)
    BY <1>3 DEF Replays, Trail
  <2>3. h # <<>> /\ Entry(h, Len(h))
    BY <1>1, <1>3, <2>2 DEF Replays, Trail
  <2>4. h[Len(h)].active = Legacy!Active(h) /\ w = h[Len(h)].after
    BY <1>3, <2>3 DEF Entry, Replays, Legacy!Active
  <2>5. w # Legacy!NoRows
    BY <1>3, DesiredIsPayload DEF Replays
  <2>6. ASSUME NEW i \in DOMAIN h
        PROVE  /\ i > 1 /\ h[i].op # "rebuild" => h[i].before = h[i-1].after
               /\ h[i].op = "initialize" => i = 1 /\ h[i].before = Legacy!NoRows
               /\ h[i].op = "process" => h[i].event \in evs \ Legacy!ActiveAfter(h, i - 1)
               /\ h[i].op = "reverse" => h[i].event \in Legacy!ActiveAfter(h, i - 1)
               /\ h[i].active = Legacy!ActiveAfter(h, i)
               /\ h[i].after = Legacy!Desired(h[i].active)
    BY <2>1, <2>2 DEF Entry
  <2> QED BY <1>3, <2>4, <2>5, <2>6 DEF Replays, Trail, Legacy!Verified
<1> QED BY <1>2, <1>3

\* What a history says up to a position depends on nothing later.
LEMMA SamePrefix ==
    ASSUME NEW h, NEW g, NEW n \in Nat, \A i \in 1 .. n : g[i] = h[i]
    PROVE  /\ \A op : Legacy!Touched(g, n, op) = Legacy!Touched(h, n, op)
           /\ Legacy!ActiveAfter(g, n) = Legacy!ActiveAfter(h, n)
BY DEF Legacy!Touched, Legacy!ActiveAfter

LEMMA ActiveIsProcessed ==
    ASSUME NEW h PROVE Legacy!Active(h) \subseteq Legacy!Processed(h)
BY DEF Legacy!Active, Legacy!ActiveAfter, Legacy!Processed

\* Only processed events are reversed.
LEMMA ReversedIsProcessed ==
    ASSUME NEW h \in Seq(Legacy!Snapshot), \A i \in DOMAIN h : Entry(h, i)
    PROVE  Legacy!Touched(h, Len(h), "reverse") \subseteq Legacy!Processed(h)
<1>1. SUFFICES ASSUME NEW e \in Legacy!Touched(h, Len(h), "reverse")
               PROVE  e \in Legacy!Processed(h)
  OBVIOUS
<1>2. PICK i \in 1 .. Len(h) : h[i].op = "reverse" /\ h[i].event = e
  BY DEF Legacy!Touched
<1>3. i \in DOMAIN h /\ Entry(h, i)
  OBVIOUS
<1>4. e \in Legacy!ActiveAfter(h, i - 1)
  BY <1>2, <1>3 DEF Entry
<1>5. e \in LegacyCheckIn /\ \E j \in 1 .. i - 1 : h[j].op = "process" /\ h[j].event = e
  BY <1>4 DEF Legacy!ActiveAfter, Legacy!Touched
<1> QED BY <1>2, <1>5 DEF Legacy!Processed, Legacy!Touched

\* A snapshot of the right kind continues a trail.
Continues(h, s) ==
    /\ s.op \in {"process", "rebuild"}
    /\ s.op = "process" =>
         /\ s.event \in LegacyCheckIn \ Legacy!Processed(h)
         /\ s.before = h[Len(h)].after
         /\ s.active = Legacy!Active(h) \cup {s.event}
    /\ s.op = "rebuild" => s.active = Legacy!Active(h)
    /\ s.after = Legacy!Desired(s.active)

LEMMA TrailContinues ==
    ASSUME NEW h \in Seq(Legacy!Snapshot), Trail(h), NEW s \in Legacy!Snapshot, Continues(h, s)
    PROVE  LET g == Append(h, s)
           IN  /\ Trail(g) /\ Legacy!Active(g) = s.active
               /\ Legacy!Processed(g) = Legacy!Processed(h)
                     \cup (IF s.op = "process" THEN {s.event} ELSE {})
<1> DEFINE g == Append(h, s)
           n == Len(h)
<1>1. n \in Nat /\ n # 0 /\ DOMAIN h = 1 .. n /\ Len(g) = n + 1 /\ DOMAIN g = 1 .. n + 1
      /\ g[n + 1] = s /\ (\A i \in 1 .. n : g[i] = h[i])
  BY Appended DEF Trail
<1> HIDE DEF g
<1>2. \A m \in 0 .. n : /\ \A op : Legacy!Touched(g, m, op) = Legacy!Touched(h, m, op)
                        /\ Legacy!ActiveAfter(g, m) = Legacy!ActiveAfter(h, m)
  BY <1>1, SamePrefix
<1>3. \A op : Legacy!Touched(g, n + 1, op)
         = Legacy!Touched(h, n, op) \cup {e \in LegacyCheckIn : s.op = op /\ s.event = e}
  <2>1. TAKE op
  <2>2. Legacy!Touched(g, n, op) = Legacy!Touched(h, n, op)
    BY <1>1, <1>2
  <2>3. 1 .. n + 1 = (1 .. n) \cup {n + 1}
    BY <1>1
  <2> QED BY <1>1, <2>2, <2>3 DEF Legacy!Touched
<1>4. Legacy!Processed(g) = Legacy!Processed(h) \cup (IF s.op = "process" THEN {s.event} ELSE {})
  BY <1>1, <1>3 DEF Legacy!Processed, Continues
<1>5. Legacy!Touched(g, n + 1, "reverse") = Legacy!Touched(h, n, "reverse")
  BY <1>3 DEF Continues
<1>6. Legacy!Active(g) = s.active
  <2>1. CASE s.op = "process"
    <3>1. s.event \notin Legacy!Touched(h, n, "reverse")
      BY <2>1, ReversedIsProcessed DEF Continues, Trail
    <3> QED BY <1>1, <1>4, <1>5, <2>1, <3>1
            DEF Continues, Legacy!Active, Legacy!ActiveAfter, Legacy!Processed
  <2>2. CASE s.op = "rebuild"
    BY <1>1, <1>4, <1>5, <2>2 DEF Continues, Legacy!Active, Legacy!ActiveAfter, Legacy!Processed
  <2> QED BY <2>1, <2>2 DEF Continues
<1>7. ASSUME NEW i \in 1 .. n PROVE Entry(g, i)
  <2>1. Entry(h, i)
    BY <1>1 DEF Trail
  <2>2. g[i] = h[i] /\ (i > 1 => g[i - 1] = h[i - 1])
    BY <1>1
  <2>3. Legacy!ActiveAfter(g, i) = Legacy!ActiveAfter(h, i)
        /\ Legacy!ActiveAfter(g, i - 1) = Legacy!ActiveAfter(h, i - 1)
    BY <1>1, <1>2
  <2> QED BY <2>1, <2>2, <2>3 DEF Entry
<1>8. Entry(g, n + 1)
  <2>1. Legacy!ActiveAfter(g, n + 1) = s.active /\ (n + 1) - 1 = n /\ g[n] = h[n]
    BY <1>1, <1>6 DEF Legacy!Active
  <2>2. Legacy!ActiveAfter(g, n) \subseteq Legacy!Processed(h)
    BY <1>1, <1>2, ActiveIsProcessed DEF Legacy!Active
  <2> QED BY <1>1, <2>1, <2>2 DEF Entry, Continues
<1>9. g # <<>> /\ g[1].op = "initialize"
  BY <1>1 DEF Trail
<1>10. Trail(g)
  BY <1>1, <1>7, <1>8, <1>9 DEF Trail
<1> QED BY <1>4, <1>6, <1>10 DEF g

LEMMA FirstSnapshot ==
    ASSUME NEW w, NEW h, h = <<>>, w = Legacy!NoRows
    PROVE  LET l == Legacy!Initialized(h, w)
           IN  /\ l.history \in Seq(Legacy!Snapshot) /\ Trail(l.history)
               /\ Legacy!Processed(l.history) = {} /\ Legacy!Active(l.history) = {}
               /\ l.rows = Legacy!Desired({})
<1> DEFINE l == Legacy!Initialized(h, w)
           s == Legacy!SnapshotOf("initialize", None, Legacy!NoRows, {})
<1>1. l.history = <<s>> /\ l.rows = Legacy!Desired({})
  BY DEF Legacy!Initialized, Legacy!Ledger
<1>2. s \in Legacy!Snapshot
  BY DesiredIsPayload DEF Legacy!Snapshot, Legacy!SnapshotOf
<1>3. s.op = "initialize" /\ s.before = Legacy!NoRows /\ s.active = {} /\ s.after = Legacy!Desired({})
  BY DEF Legacy!SnapshotOf
<1> DEFINE g == <<s>>
<1>4. g \in Seq(Legacy!Snapshot) /\ g # <<>> /\ Len(g) = 1 /\ DOMAIN g = {1} /\ g[1] = s
  BY <1>2
<1> HIDE DEF s, g
<1>5. \A op : op # "initialize" => Legacy!Touched(g, 1, op) = {}
  BY <1>3, <1>4 DEF Legacy!Touched
<1>6. Legacy!Processed(g) = {} /\ Legacy!Active(g) = {} /\ Legacy!ActiveAfter(g, 1) = {}
  BY <1>4, <1>5 DEF Legacy!Processed, Legacy!Active, Legacy!ActiveAfter
<1>7. Entry(g, 1)
  <2>1. g[1].op = "initialize" /\ g[1].before = Legacy!NoRows
    BY <1>3, <1>4
  <2>2. g[1].active = Legacy!ActiveAfter(g, 1) /\ g[1].after = Legacy!Desired(g[1].active)
    BY <1>3, <1>4, <1>6
  <2>3. g[1].op # "process" /\ g[1].op # "reverse" /\ ~ (1 > 1)
    BY <2>1
  <2> QED BY ONLY <2>1, <2>2, <2>3 DEF Entry
<1>8. Trail(g)
  BY <1>3, <1>4, <1>7 DEF Trail
<1>9. l.history = g
  BY <1>1 DEF g
<1> QED BY <1>1, <1>4, <1>6, <1>8, <1>9

\* The ledger `k` is the trail `h` with its rows `w`, after the events `E` were processed.
ProcessedAll(k, h, w, E) ==
    /\ k.history \in Seq(Legacy!Snapshot) /\ Trail(k.history)
    /\ Legacy!Processed(k.history) = Legacy!Processed(h) \cup E
    /\ k.rows \in Legacy!Payload
    /\ E = {} => k.history = h /\ k.rows = w
    /\ E # {} => k.rows = Legacy!Desired(Legacy!Active(k.history))

\* Pending events are processed one after the other, whatever the ledger was before them.
LEMMA ProcessingContinues ==
    ASSUME NEW h \in Seq(Legacy!Snapshot), Trail(h),
           NEW w \in Legacy!Payload,
           NEW E \in SUBSET LegacyCheckIn, E \cap Legacy!Processed(h) = {},
           NEW pend, Listing(pend, E),
           E # {} => w = h[Len(h)].after
    PROVE  ProcessedAll(Legacy!ProcessAll(Legacy!Ledger(h, w), pend), h, w, E)
<1> DEFINE l == Legacy!Ledger(h, w)
           k == Legacy!ProcessAll(l, pend)
           N == Len(pend)
           upTo(i) == Legacy!Active(h) \cup {pend[j] : j \in 1 .. i}
           before(i) == IF i = 1 THEN w ELSE Legacy!Desired(upTo(i - 1))
           new == [i \in DOMAIN pend |-> Legacy!SnapshotOf("process", pend[i], before(i), upTo(i))]
<1>1. l.history = h /\ l.rows = w
  BY DEF Legacy!Ledger
<1>2. pend \in Seq(E) /\ N \in Nat /\ DOMAIN pend = 1 .. N /\ \A i \in 1 .. N : pend[i] \in E
  BY DEF Listing
<1>3. CASE E = {}
  <2>1. N = 0 /\ pend = <<>>
    <3>1. N # 0 => pend[1] \in E
      BY <1>2
    <3> QED BY <1>2, <1>3, <3>1
  <2>2. k = l
    BY <2>1 DEF Legacy!ProcessAll
  <2> HIDE DEF k
  <2>3. k.history = h /\ k.rows = w
    BY <1>1, <2>2
  <2> QED BY <1>3, <2>3 DEF ProcessedAll, k
<1>4. CASE E # {}
  <2>1. N # 0 /\ pend # <<>>
    BY <1>2, <1>4 DEF Listing
  <2>2. k = Legacy!Ledger(h \o new, Legacy!Desired(upTo(N)))
    BY <1>1, <2>1 DEF Legacy!ProcessAll
  <2>3. k.history = h \o new /\ k.rows = Legacy!Desired(upTo(N))
    <3> HIDE DEF k, new, upTo
    <3> QED BY <2>2 DEF Legacy!Ledger
  <2>4. \A i \in 1 .. N : upTo(i) \in SUBSET LegacyCheckIn
    <3>1. Legacy!Active(h) \subseteq LegacyCheckIn
      BY TouchedAreCheckIns DEF Legacy!Active, Legacy!ActiveAfter
    <3> QED BY <1>2, <3>1
  <2>5. \A i \in 1 .. N : before(i) \in Legacy!Payload
    <3> HIDE DEF upTo
    <3> QED BY DesiredIsPayload
  <2>6. \A i \in 1 .. N : /\ new[i].op = "process" /\ new[i].event = pend[i]
                          /\ new[i].before = before(i) /\ new[i].active = upTo(i)
                          /\ new[i].after = Legacy!Desired(upTo(i))
                          /\ new[i] \in Legacy!Snapshot
    <3> TAKE i \in 1 .. N
    <3>1. new[i] = Legacy!SnapshotOf("process", pend[i], before(i), upTo(i))
      BY <1>2
    <3>2. pend[i] \in LegacyCheckIn /\ before(i) \in Legacy!Payload /\ upTo(i) \in SUBSET LegacyCheckIn
      BY <1>2, <2>4, <2>5
    <3>3. Legacy!Desired(upTo(i)) \in Legacy!Payload
      BY DesiredIsPayload
    <3> HIDE DEF new, before, upTo
    <3> QED BY <3>1, <3>2, <3>3 DEF Legacy!SnapshotOf, Legacy!Snapshot
  <2>7. new \in Seq(Legacy!Snapshot) /\ Len(new) = N
    <3>1. new = [i \in 1 .. N |-> new[i]]
      BY <1>2
    <3> HIDE DEF new, before, upTo
    <3> QED BY <1>2, <2>6, <3>1
  <2> HIDE DEF new
  <2> DEFINE G(n) == h \o SubSeq(new, 1, n)
             Reached(n) == /\ G(n) \in Seq(Legacy!Snapshot) /\ Trail(G(n))
                           /\ Legacy!Active(G(n)) = upTo(n)
                           /\ Legacy!Processed(G(n)) = Legacy!Processed(h) \cup {pend[j] : j \in 1 .. n}
                           /\ n # 0 => G(n)[Len(G(n))].after = Legacy!Desired(upTo(n))
             T == {n \in Nat : n =< N => Reached(n)}
  <2>8. 0 \in T
    <3>1. G(0) = h
      BY <2>7
    <3>2. {pend[j] : j \in 1 .. 0} = {}
      OBVIOUS
    <3> HIDE DEF G
    <3> QED BY <3>1, <3>2
  <2>9. ASSUME NEW n \in Nat, n \in T PROVE n + 1 \in T
    <3>1. SUFFICES ASSUME n + 1 =< N PROVE Reached(n + 1)
      OBVIOUS
    <3>2. Reached(n)
      <4>1. n =< N
        BY <1>2, <3>1
      <4> HIDE DEF Reached
      <4> QED BY <2>9, <4>1
    <3>3. n + 1 \in 1 .. N /\ (n # 0 => n \in 1 .. N)
      BY <1>2, <3>1
    <3>4. G(n + 1) = Append(G(n), new[n + 1])
      <4> HIDE DEF upTo
      <4> QED BY <1>2, <2>7, <3>3
    <3>5. G(0) = h
      BY <2>7
    <3>6. new[n + 1].before = G(n)[Len(G(n))].after
      <4>1. new[n + 1].before = before(n + 1)
        BY <2>6, <3>3
      <4>2. CASE n = 0
        <5>1. new[n + 1].before = w
          <6>1. n + 1 = 1
            BY <4>2
          <6> HIDE DEF upTo
          <6> QED BY <4>1, <6>1
        <5> HIDE DEF G
        <5> QED BY <1>4, <3>5, <4>2, <5>1
      <4>3. CASE n # 0
        <5>1. new[n + 1].before = Legacy!Desired(upTo(n))
          <6>1. n + 1 # 1 /\ (n + 1) - 1 = n
            BY <4>3
          <6> HIDE DEF upTo
          <6> QED BY <4>1, <6>1
        <5> HIDE DEF G, upTo
        <5> QED BY <3>2, <4>3, <5>1
      <4> QED BY <4>2, <4>3
    <3>7. 1 .. n + 1 = (1 .. n) \cup {n + 1}
      OBVIOUS
    <3>8. upTo(n + 1) = upTo(n) \cup {pend[n + 1]}
      BY <3>7
    <3>9. pend[n + 1] \notin Legacy!Processed(G(n))
      <4>1. \A j \in 1 .. n : pend[j] # pend[n + 1]
        <5>1. \A i, j \in DOMAIN pend : pend[i] = pend[j] => i = j
          BY DEF Listing
        <5>2. \A j \in 1 .. n : j \in DOMAIN pend /\ n + 1 \in DOMAIN pend /\ j # n + 1
          BY <1>2, <3>3
        <5> QED BY <5>1, <5>2
      <4>2. pend[n + 1] \notin Legacy!Processed(h)
        BY <1>2, <3>3
      <4> HIDE DEF G
      <4> QED BY <3>2, <4>1, <4>2
    <3>10. pend[n + 1] \in LegacyCheckIn
      BY <1>2, <3>3
    <3> DEFINE s == new[n + 1]
    <3>11. /\ s.op = "process" /\ s.event = pend[n + 1] /\ s.active = upTo(n + 1)
           /\ s.after = Legacy!Desired(upTo(n + 1)) /\ s \in Legacy!Snapshot
      BY <2>6, <3>3
    <3> HIDE DEF G, upTo, s
    <3>12. Continues(G(n), s)
      BY <3>2, <3>6, <3>8, <3>9, <3>10, <3>11 DEF Continues, s
    <3>13. /\ Trail(Append(G(n), s)) /\ Legacy!Active(Append(G(n), s)) = s.active
           /\ Legacy!Processed(Append(G(n), s)) = Legacy!Processed(G(n)) \cup {s.event}
      BY <3>2, <3>11, <3>12, TrailContinues
    <3>14. /\ Append(G(n), s) \in Seq(Legacy!Snapshot)
           /\ Append(G(n), s)[Len(Append(G(n), s))] = s
      BY <3>2, <3>11
    <3>15. {pend[j] : j \in 1 .. n + 1} = {pend[j] : j \in 1 .. n} \cup {pend[n + 1]}
      BY <3>7
    <3>16. G(n + 1) = Append(G(n), s)
      BY <3>4 DEF s
    <3> QED BY <3>2, <3>11, <3>13, <3>14, <3>15, <3>16
  <2>10. Nat \subseteq T
    <3> HIDE DEF T
    <3> QED BY <2>8, <2>9, AllNumbers
  <2>11. Reached(N)
    <3>1. N \in T
      <4> HIDE DEF T
      <4> QED BY <1>2, <2>10
    <3> QED BY <1>2, <3>1
  <2>12. G(N) = h \o new
    <3>1. SubSeq(new, 1, N) = new
      BY <1>2, <2>7
    <3> QED BY <3>1
  <2>13. {pend[j] : j \in 1 .. N} = E
    BY <1>2 DEF Listing
  <2>14. Legacy!Desired(upTo(N)) \in Legacy!Payload
    BY DesiredIsPayload
  <2> HIDE DEF G, upTo, k
  <2>15. ProcessedAll(k, h, w, E)
    BY <1>4, <2>3, <2>11, <2>12, <2>13, <2>14 DEF ProcessedAll
  <2> QED BY <2>15 DEF k
<1> QED BY <1>3, <1>4

\* The tables hold a history and rows.
IsLedger(l) == l.history \in Seq(Legacy!Snapshot) /\ l.rows \in Legacy!Payload

\* A ledger of a run as it can be found: damaged rows, if any, of an intact history.
Found(h, w) ==
    /\ h \in Seq(Legacy!Snapshot) /\ w \in Legacy!Payload \cup {Legacy!NoRows}
    /\ h = <<>> <=> w = Legacy!NoRows
    /\ h # <<>> => Trail(h)

LEMMA InitializedLedger ==
    ASSUME NEW h, NEW w, Found(h, w)
    PROVE  LET l == Legacy!Initialized(h, w)
           IN  /\ IsLedger(l) /\ Trail(l.history)
               /\ Legacy!Processed(l.history) = Legacy!Processed(h)
               /\ h = <<>> => l.rows = l.history[Len(l.history)].after
               /\ h # <<>> => l = Legacy!Ledger(h, w)
               /\ l = Legacy!Ledger(l.history, l.rows)
<1> DEFINE l == Legacy!Initialized(h, w)
<1>1. CASE h = <<>>
  <2>1. w = Legacy!NoRows
    BY <1>1 DEF Found
  <2>2. /\ l.history \in Seq(Legacy!Snapshot) /\ Trail(l.history)
        /\ Legacy!Processed(l.history) = {} /\ Legacy!Active(l.history) = {}
        /\ l.rows = Legacy!Desired({})
    BY <1>1, <2>1, FirstSnapshot
  <2>3. l = Legacy!Ledger(l.history, l.rows)
    BY <2>1 DEF Legacy!Initialized, Legacy!Ledger
  <2> HIDE DEF l
  <2>4. Legacy!Processed(h) = {}
    BY <1>1 DEF Legacy!Processed, Legacy!Touched
  <2>5. l.rows \in Legacy!Payload
    BY <2>2, DesiredIsPayload
  <2>6. l.rows = l.history[Len(l.history)].after
    <3>1. Len(l.history) \in DOMAIN l.history
      BY <2>2 DEF Trail
    <3>2. Entry(l.history, Len(l.history))
      BY <2>2, <3>1 DEF Trail
    <3>3. l.history[Len(l.history)].active = {}
      BY <2>2, <3>2 DEF Entry, Legacy!Active
    <3> QED BY <2>2, <3>2, <3>3 DEF Entry
  <2>7. IsLedger(l)
    BY <2>2, <2>5 DEF IsLedger
  <2> QED BY <1>1, <2>2, <2>3, <2>4, <2>6, <2>7 DEF l
<1>2. CASE h # <<>>
  <2>1. w # Legacy!NoRows /\ Trail(h) /\ w \in Legacy!Payload /\ h \in Seq(Legacy!Snapshot)
    BY <1>2 DEF Found
  <2>2. l = Legacy!Ledger(h, w) /\ l.history = h /\ l.rows = w
    BY <2>1 DEF Legacy!Initialized, Legacy!Ledger
  <2>3. IsLedger(l)
    BY <2>1, <2>2 DEF IsLedger
  <2> HIDE DEF l
  <2> QED BY <1>2, <2>1, <2>2, <2>3 DEF l
<1> QED BY <1>1, <1>2

\* Whatever the rows were, processing leaves rows and snapshots.
LEMMA ProcessAllLedger ==
    ASSUME NEW h \in Seq(Legacy!Snapshot), NEW w \in Legacy!Payload,
           NEW pend \in Seq(LegacyCheckIn)
    PROVE  IsLedger(Legacy!ProcessAll(Legacy!Ledger(h, w), pend))
<1> DEFINE l == Legacy!Ledger(h, w)
           k == Legacy!ProcessAll(l, pend)
           N == Len(pend)
           upTo(i) == Legacy!Active(h) \cup {pend[j] : j \in 1 .. i}
           before(i) == IF i = 1 THEN w ELSE Legacy!Desired(upTo(i - 1))
           new == [i \in DOMAIN pend |-> Legacy!SnapshotOf("process", pend[i], before(i), upTo(i))]
<1>1. l.history = h /\ l.rows = w
  BY DEF Legacy!Ledger
<1>2. N \in Nat /\ DOMAIN pend = 1 .. N /\ \A i \in 1 .. N : pend[i] \in LegacyCheckIn
  OBVIOUS
<1>3. CASE pend = <<>>
  <2>1. k = l
    BY <1>3 DEF Legacy!ProcessAll
  <2> HIDE DEF k
  <2> QED BY <1>1, <2>1 DEF IsLedger, k
<1>4. CASE pend # <<>>
  <2>1. k = Legacy!Ledger(h \o new, Legacy!Desired(upTo(N)))
    BY <1>1, <1>4 DEF Legacy!ProcessAll
  <2>2. k.history = h \o new /\ k.rows = Legacy!Desired(upTo(N))
    <3> HIDE DEF k, new, upTo
    <3> QED BY <2>1 DEF Legacy!Ledger
  <2>3. \A i \in 1 .. N : upTo(i) \in SUBSET LegacyCheckIn
    <3>1. Legacy!Active(h) \subseteq LegacyCheckIn
      BY TouchedAreCheckIns DEF Legacy!Active, Legacy!ActiveAfter
    <3> QED BY <1>2, <3>1
  <2>4. \A i \in 1 .. N : before(i) \in Legacy!Payload
    <3> HIDE DEF upTo
    <3> QED BY DesiredIsPayload
  <2>5. ASSUME NEW i \in 1 .. N PROVE new[i] \in Legacy!Snapshot
    <3>1. new[i] = Legacy!SnapshotOf("process", pend[i], before(i), upTo(i))
      BY <1>2
    <3>2. pend[i] \in LegacyCheckIn /\ before(i) \in Legacy!Payload /\ upTo(i) \in SUBSET LegacyCheckIn
      BY <1>2, <2>3, <2>4
    <3>3. Legacy!Desired(upTo(i)) \in Legacy!Payload
      BY DesiredIsPayload
    <3> HIDE DEF new, before, upTo
    <3> QED BY <3>1, <3>2, <3>3 DEF Legacy!SnapshotOf, Legacy!Snapshot
  <2>6. new \in Seq(Legacy!Snapshot)
    <3>1. new = [i \in 1 .. N |-> new[i]]
      BY <1>2
    <3> HIDE DEF new, before, upTo
    <3> QED BY <1>2, <2>5, <3>1
  <2>7. Legacy!Desired(upTo(N)) \in Legacy!Payload
    BY DesiredIsPayload
  <2> HIDE DEF new, upTo, k
  <2>8. h \o new \in Seq(Legacy!Snapshot)
    BY <2>6
  <2> QED BY <2>2, <2>7, <2>8 DEF IsLedger, k
<1> QED BY <1>3, <1>4

\* The repair gives the rows that the history implies.
LEMMA RepairedReplays ==
    ASSUME NEW l, IsLedger(l)
    PROVE  LET k == Legacy!Repaired(l)
           IN  /\ IsLedger(k)
               /\ Trail(l.history) => Replays(Legacy!Processed(l.history), k.history, k.rows)
<1> DEFINE k == Legacy!Repaired(l)
           ids == Legacy!Active(l.history)
           s == Legacy!SnapshotOf("rebuild", None, l.rows, ids)
<1>1. Legacy!Desired(ids) \in Legacy!Payload
  BY DesiredIsPayload
<1>2. CASE l.rows = Legacy!Desired(ids)
  <2>1. k = l
    BY <1>2 DEF Legacy!Repaired
  <2> HIDE DEF k
  <2> QED BY <1>2, <2>1 DEF Replays, k
<1>3. CASE l.rows # Legacy!Desired(ids)
  <2>1. k.history = Append(l.history, s) /\ k.rows = Legacy!Desired(ids)
    BY <1>3 DEF Legacy!Repaired, Legacy!Ledger
  <2>2. ids \in SUBSET LegacyCheckIn
    BY TouchedAreCheckIns DEF Legacy!Active, Legacy!ActiveAfter
  <2>3. s.op = "rebuild" /\ s.active = ids /\ s.after = Legacy!Desired(ids)
    BY DEF Legacy!SnapshotOf
  <2>4. s \in Legacy!Snapshot
    <3>1. l.rows \in Legacy!Payload
      BY DEF IsLedger
    <3> HIDE DEF ids
    <3> QED BY <1>1, <2>2, <3>1 DEF Legacy!SnapshotOf, Legacy!Snapshot
  <2> HIDE DEF k, s
  <2>5. l.history \in Seq(Legacy!Snapshot) /\ k.history \in Seq(Legacy!Snapshot)
    BY <2>1, <2>4 DEF IsLedger
  <2>6. ASSUME Trail(l.history)
        PROVE  Replays(Legacy!Processed(l.history), k.history, k.rows)
    <3>1. Continues(l.history, s)
      BY <2>3 DEF Continues
    <3>2. /\ Trail(k.history) /\ Legacy!Active(k.history) = ids
          /\ Legacy!Processed(k.history) = Legacy!Processed(l.history)
      BY <2>1, <2>3, <2>4, <2>5, <2>6, <3>1, TrailContinues
    <3> QED BY <2>1, <3>2 DEF Replays
  <2>7. IsLedger(k)
    BY <1>1, <2>1, <2>5 DEF IsLedger
  <2> QED BY <2>6, <2>7 DEF k
<1> QED BY <1>2, <1>3

LEMMA ReconciledLedger ==
    ASSUME NEW h, NEW w, Found(h, w), NEW pend \in Seq(LegacyCheckIn)
    PROVE  IsLedger(Legacy!Reconciled(pend, h, w))
<1> DEFINE l == Legacy!Initialized(h, w)
           k == Legacy!ProcessAll(l, pend)
<1>1. IsLedger(l) /\ l = Legacy!Ledger(l.history, l.rows)
  BY InitializedLedger
<1> HIDE DEF l
<1>2. IsLedger(k)
  BY <1>1, ProcessAllLedger DEF IsLedger
<1> HIDE DEF k
<1>3. IsLedger(Legacy!Repaired(k))
  BY <1>2, RepairedReplays
<1> QED BY <1>3 DEF Legacy!Reconciled, k, l

\* Unless there are events to process on damaged rows, the ledger verifies afterwards.
LEMMA ReconciledReplays ==
    ASSUME NEW h, NEW w, Found(h, w),
           NEW E \in SUBSET LegacyCheckIn, E \cap Legacy!Processed(h) = {},
           NEW pend, Listing(pend, E),
           E = {} \/ h = <<>> \/ w = h[Len(h)].after
    PROVE  LET l == Legacy!Reconciled(pend, h, w)
           IN  Replays(Legacy!Processed(h) \cup E, l.history, l.rows)
<1> DEFINE l == Legacy!Initialized(h, w)
           k == Legacy!ProcessAll(l, pend)
<1>1. /\ IsLedger(l) /\ Trail(l.history) /\ l = Legacy!Ledger(l.history, l.rows)
      /\ Legacy!Processed(l.history) = Legacy!Processed(h)
      /\ h = <<>> => l.rows = l.history[Len(l.history)].after
      /\ h # <<>> => l = Legacy!Ledger(h, w)
  BY InitializedLedger
<1> HIDE DEF l
<1>2. E # {} => l.rows = l.history[Len(l.history)].after
  <2>1. CASE h = <<>>
    BY <1>1, <2>1
  <2>2. CASE h # <<>>
    <3>1. l.history = h /\ l.rows = w
      BY <1>1, <2>2 DEF Legacy!Ledger
    <3> QED BY <2>2, <3>1
  <2> QED BY <2>1, <2>2
<1>3. ProcessedAll(Legacy!ProcessAll(Legacy!Ledger(l.history, l.rows), pend), l.history, l.rows, E)
  BY <1>1, <1>2, ProcessingContinues DEF IsLedger
<1>4. ProcessedAll(k, l.history, l.rows, E)
  BY <1>1, <1>3
<1> HIDE DEF k
<1>5. IsLedger(k) /\ Trail(k.history) /\ Legacy!Processed(k.history) = Legacy!Processed(h) \cup E
  BY <1>1, <1>4 DEF IsLedger, ProcessedAll
<1>6. Replays(Legacy!Processed(k.history), Legacy!Repaired(k).history, Legacy!Repaired(k).rows)
  BY <1>5, RepairedReplays
<1> QED BY <1>5, <1>6 DEF Legacy!Reconciled, k, l

\* Every accepted check-in was submitted once, a trail holds events of its own run, and a run
\* that the command has taken has all of its events in its trail.
LegacyRun(r) ==
    /\ Found(history[r], rows[r])
    /\ Legacy!Processed(history[r]) \subseteq {e \in recorded : RunOf[e] = r}

Taken(r) == \E i \in 1 .. stage - 1 : RunOrder[i] = r

EachOnce(sub) == \A i, j \in DOMAIN sub : sub[i] = sub[j] => i = j

LegacyInv ==
    /\ Legacy!TypeOK
    /\ EachOnce(submitted)
    /\ stage # 0 => recorded = Legacy!ToSet(submitted)
    /\ \A r \in Run : LegacyRun(r)
    /\ \A r \in Run : Taken(r) =>
          history[r] # <<>> /\ Legacy!Processed(history[r]) = Legacy!EventsNow(r)

LEMMA LegacyStart == Legacy!Init => LegacyInv
<1> SUFFICES ASSUME Legacy!Init PROVE LegacyInv
  OBVIOUS
<1>1. PICK n \in 0 .. 2 : submitted \in [1 .. n -> LegacyCheckIn]
  BY DEF Legacy!Init
<1>2. submitted \in Seq(LegacyCheckIn) /\ EachOnce(submitted)
  BY <1>1 DEF Legacy!Init, EachOnce
<1>3. stage = 0 /\ Legacy!Up \in Nat /\ 0 \in 0 .. Legacy!Up
  BY LegacyAssumption DEF Legacy!Init, Legacy!Up
<1>4. Legacy!TypeOK
  <2>1. history \in [Run -> Seq(Legacy!Snapshot)]
    BY DEF Legacy!Init
  <2>2. rows \in [Run -> Legacy!Payload \cup {Legacy!NoRows}]
    BY DEF Legacy!Init
  <2> QED BY <1>2, <1>3, <2>1, <2>2 DEF Legacy!Init, Legacy!TypeOK
<1>5. ASSUME NEW r \in Run PROVE LegacyRun(r) /\ ~Taken(r)
  <2>1. history[r] = <<>> /\ rows[r] = Legacy!NoRows
    BY DEF Legacy!Init
  <2>2. Legacy!Processed(history[r]) = {}
    BY <2>1 DEF Legacy!Processed, Legacy!Touched
  <2>3. history[r] \in Seq(Legacy!Snapshot)
    BY <2>1
  <2> QED BY <1>3, <2>1, <2>2, <2>3 DEF LegacyRun, Found, Taken
<1> QED BY <1>2, <1>3, <1>4, <1>5 DEF LegacyInv

\* The ledger of a run after a call that was committed: it replays all events of the run.
Settled(sub, rec, elig, r, l) ==
    /\ IsLedger(l)
    /\ Replays(Legacy!EventsOf(sub, rec, elig, r, l.history), l.history, l.rows)

LEMMA EventsAreSettled ==
    ASSUME NEW sub, NEW rec, NEW elig, NEW r, NEW h, NEW g,
           Legacy!Processed(g) = Legacy!EventsOf(sub, rec, elig, r, h)
    PROVE  Legacy!EventsOf(sub, rec, elig, r, g) = Legacy!EventsOf(sub, rec, elig, r, h)
BY DEF Legacy!EventsOf

LEMMA EventsAreCheckIns ==
    ASSUME NEW sub \in Seq(LegacyCheckIn), NEW rec, NEW elig, NEW r, NEW h
    PROVE  /\ Legacy!EventsOf(sub, rec, elig, r, h) \in SUBSET LegacyCheckIn
           /\ Legacy!EventsOf(sub, rec, elig, r, h) \subseteq {e \in rec : RunOf[e] = r}
BY DEF Legacy!EventsOf, Legacy!ToSet

LEMMA PendingIsListed ==
    ASSUME NEW sub \in Seq(LegacyCheckIn), EachOnce(sub), NEW rec, NEW elig, NEW r, NEW h
    PROVE  LET E == Legacy!EventsOf(sub, rec, elig, r, h) \ Legacy!Processed(h)
               pend == Legacy!PendingOf(sub, rec, elig, r, h)
           IN  Listing(pend, E) /\ pend \in Seq(LegacyCheckIn)
<1> DEFINE E == Legacy!EventsOf(sub, rec, elig, r, h) \ Legacy!Processed(h)
           pend == Legacy!PendingOf(sub, rec, elig, r, h)
<1>1. pend = Legacy!Ordered(sub, E)
  BY DEF Legacy!PendingOf
<1>2. E \subseteq LegacyCheckIn
  BY EventsAreCheckIns
<1>3. \A e \in E : \E i \in DOMAIN sub : sub[i] = e
  BY DEF Legacy!EventsOf, Legacy!ToSet
<1> HIDE DEF E, pend
<1>4. Listing(pend, E)
  BY <1>1, <1>3, OrderedLists DEF EachOnce
<1>5. pend \in Seq(LegacyCheckIn)
  BY <1>2, <1>4 DEF Listing
<1> QED BY <1>4, <1>5 DEF E, pend

LEMMA SynchronizedSettles ==
    ASSUME NEW sub \in Seq(LegacyCheckIn), EachOnce(sub), NEW rec, NEW elig, NEW r,
           NEW h, NEW w, Found(h, w),
           NEW l, l = Legacy!Synchronized(sub, rec, elig, r, h, w), l # Legacy!NoLedger
    PROVE  /\ Settled(sub, rec, elig, r, l)
           /\ Legacy!EventsOf(sub, rec, elig, r, l.history) = Legacy!EventsOf(sub, rec, elig, r, h)
<1> DEFINE pend == Legacy!PendingOf(sub, rec, elig, r, h)
           k == Legacy!Reconciled(pend, h, w)
           evs == Legacy!EventsOf(sub, rec, elig, r, h)
<1>1. l = k /\ Legacy!Verified(evs, k.history, k.rows)
  BY DEF Legacy!Synchronized
<1>2. pend \in Seq(LegacyCheckIn) /\ evs \in SUBSET LegacyCheckIn
  BY PendingIsListed, EventsAreCheckIns
<1>3. IsLedger(k)
  <2> HIDE DEF pend
  <2> QED BY <1>2, ReconciledLedger
<1> HIDE DEF k, evs
<1>4. Replays(evs, l.history, l.rows)
  BY <1>1, <1>2, <1>3, VerifiedMeansReplays DEF IsLedger
<1>5. Legacy!EventsOf(sub, rec, elig, r, l.history) = evs
  BY <1>4, EventsAreSettled DEF Replays, evs
<1> QED BY <1>1, <1>3, <1>4, <1>5 DEF Settled, evs

LEMMA WithdrawnSettles ==
    ASSUME NEW sub \in Seq(LegacyCheckIn), NEW rec, NEW elig, NEW r, NEW l,
           Settled(sub, rec, elig, r, l), NEW e \in LegacyCheckIn,
           Legacy!Verified(Legacy!EventsOf(sub, rec, elig, r, l.history),
                           Legacy!Withdrawn(l, e).history, Legacy!Withdrawn(l, e).rows)
    PROVE  Settled(sub, rec, elig, r, Legacy!Withdrawn(l, e))
<1> DEFINE k == Legacy!Withdrawn(l, e)
           evs == Legacy!EventsOf(sub, rec, elig, r, l.history)
           ids == Legacy!Active(l.history) \ {e}
           s == Legacy!SnapshotOf("reverse", e, l.rows, ids)
<1>1. CASE e \in Legacy!Touched(l.history, Len(l.history), "reverse")
  <2>1. k = l
    BY <1>1 DEF Legacy!Withdrawn
  <2> HIDE DEF k
  <2> QED BY <2>1 DEF k
<1>2. CASE e \notin Legacy!Touched(l.history, Len(l.history), "reverse")
  <2>1. k.history = Append(l.history, s) /\ k.rows = Legacy!Desired(ids)
    BY <1>2 DEF Legacy!Withdrawn, Legacy!Ledger
  <2>2. Legacy!Desired(ids) \in Legacy!Payload
    BY DesiredIsPayload
  <2>3. s \in Legacy!Snapshot
    <3>1. ids \in SUBSET LegacyCheckIn
      BY TouchedAreCheckIns DEF Legacy!Active, Legacy!ActiveAfter
    <3>2. l.rows \in Legacy!Payload
      BY DEF Settled, IsLedger
    <3> HIDE DEF ids
    <3> QED BY <2>2, <3>1, <3>2 DEF Legacy!SnapshotOf, Legacy!Snapshot
  <2> HIDE DEF s, ids
  <2>4. IsLedger(k)
    <3>1. l.history \in Seq(Legacy!Snapshot)
      BY DEF Settled, IsLedger
    <3>2. Append(l.history, s) \in Seq(Legacy!Snapshot)
      BY <2>3, <3>1
    <3> HIDE DEF k
    <3> QED BY <2>1, <2>2, <3>2 DEF IsLedger
  <2>5. evs \in SUBSET LegacyCheckIn
    BY EventsAreCheckIns
  <2>6. Legacy!Verified(evs, k.history, k.rows)
    OBVIOUS
  <2> HIDE DEF evs, k
  <2>7. Replays(evs, k.history, k.rows)
    BY <2>4, <2>5, <2>6, VerifiedMeansReplays DEF IsLedger
  <2>8. Legacy!EventsOf(sub, rec, elig, r, k.history) = evs
    BY <2>7, EventsAreSettled DEF Replays, evs
  <2> QED BY <2>4, <2>7, <2>8 DEF Settled, k
<1> QED BY <1>1, <1>2

\* A call of the service for the run `r` was committed with the ledger `l`.
LEMMA CommitKeeps ==
    ASSUME LegacyInv,
           submitted' \in Seq(LegacyCheckIn), EachOnce(submitted'),
           recorded' \subseteq Legacy!ToSet(submitted'), recorded \subseteq recorded',
           eligible' \subseteq LegacyProtocol, stage' \in 0 .. Legacy!Up,
           stage' # 0 => recorded' = Legacy!ToSet(submitted'), UNCHANGED astray,
           NEW r \in Run, NEW l, Legacy!Store(r, l),
           Settled(submitted', recorded', eligible', r, l),
           \A q \in Run \ {r} : Taken(q)' =>
               Taken(q) /\ Legacy!EventsOf(submitted', recorded', eligible', q, history[q])
                             = Legacy!EventsNow(q)
    PROVE  LegacyInv'
<1>1. /\ history \in [Run -> Seq(Legacy!Snapshot)]
      /\ rows \in [Run -> Legacy!Payload \cup {Legacy!NoRows}]
  BY DEF LegacyInv, Legacy!TypeOK
<1>2. /\ history' = [history EXCEPT ![r] = l.history]
      /\ rows' = [rows EXCEPT ![r] = l.rows]
  BY DEF Legacy!Store
<1>3. /\ l.history \in Seq(Legacy!Snapshot) /\ l.rows \in Legacy!Payload
      /\ Trail(l.history) /\ l.history # <<>>
      /\ Legacy!Processed(l.history)
           = Legacy!EventsOf(submitted', recorded', eligible', r, l.history)
  BY DEF Settled, IsLedger, Replays, Trail
<1>4. Legacy!NoRows \notin Legacy!Payload
  BY LegacyAssumption DEF Legacy!NoRows, Legacy!Payload
<1>5. Legacy!TypeOK'
  <2>1. history' \in [Run -> Seq(Legacy!Snapshot)]
    BY <1>1, <1>2, <1>3
  <2>2. rows' \in [Run -> Legacy!Payload \cup {Legacy!NoRows}]
    BY <1>1, <1>2, <1>3
  <2>3. astray' \subseteq Run
    BY DEF LegacyInv, Legacy!TypeOK
  <2> QED BY <2>1, <2>2, <2>3 DEF Legacy!TypeOK
<1>6. history'[r] = l.history /\ rows'[r] = l.rows
      /\ \A q \in Run \ {r} : history'[q] = history[q] /\ rows'[q] = rows[q]
  BY <1>1, <1>2
<1>7. ASSUME NEW q \in Run PROVE LegacyRun(q)'
  <2>1. CASE q = r
    <3>1. Found(l.history, l.rows)
      BY <1>3, <1>4 DEF Found
    <3>2. Legacy!Processed(l.history) \subseteq {e \in recorded' : RunOf[e] = r}
      BY <1>3, EventsAreCheckIns
    <3> QED BY <1>6, <2>1, <3>1, <3>2 DEF LegacyRun
  <2>2. CASE q # r
    <3>1. LegacyRun(q)
      BY DEF LegacyInv
    <3> QED BY <1>6, <2>2, <3>1 DEF LegacyRun
  <2> QED BY <2>1, <2>2
<1>8. ASSUME NEW q \in Run, Taken(q)'
      PROVE  history'[q] # <<>> /\ Legacy!Processed(history'[q])
               = Legacy!EventsOf(submitted', recorded', eligible', q, history'[q])
  <2>1. CASE q = r
    BY <1>3, <1>6, <2>1
  <2>2. CASE q # r
    <3>1. Taken(q) /\ Legacy!EventsOf(submitted', recorded', eligible', q, history[q])
            = Legacy!EventsNow(q)
      BY <1>8, <2>2
    <3>2. history[q] # <<>> /\ Legacy!Processed(history[q]) = Legacy!EventsNow(q)
      BY <3>1 DEF LegacyInv
    <3> QED BY <1>6, <2>2, <3>1, <3>2
  <2> QED BY <2>1, <2>2
<1> QED BY <1>5, <1>7, <1>8 DEF LegacyInv, Legacy!EventsNow

LEMMA SubmittedGrows ==
    ASSUME NEW sub \in Seq(LegacyCheckIn), EachOnce(sub), NEW e \in LegacyCheckIn,
           e \notin Legacy!ToSet(sub)
    PROVE  /\ Append(sub, e) \in Seq(LegacyCheckIn) /\ EachOnce(Append(sub, e))
           /\ Legacy!ToSet(Append(sub, e)) = Legacy!ToSet(sub) \cup {e}
<1> DEFINE t == Append(sub, e)
           n == Len(sub)
<1>1. n \in Nat /\ DOMAIN sub = 1 .. n /\ t \in Seq(LegacyCheckIn) /\ DOMAIN t = 1 .. n + 1
      /\ t[n + 1] = e /\ \A i \in 1 .. n : t[i] = sub[i]
  BY Appended
<1> HIDE DEF t
<1>2. \A i \in 1 .. n : sub[i] # e
  BY <1>1 DEF Legacy!ToSet
<1>3. EachOnce(t)
  BY <1>1, <1>2 DEF EachOnce
<1>4. 1 .. n + 1 = (1 .. n) \cup {n + 1}
  BY <1>1
<1>5. Legacy!ToSet(t) = Legacy!ToSet(sub) \cup {e}
  BY <1>1, <1>4 DEF Legacy!ToSet
<1> QED BY <1>1, <1>3, <1>5 DEF t

LEMMA LegacyBackfill ==
    ASSUME LegacyInv, Legacy!Backfill PROVE LegacyInv'
<1>1. /\ recorded' = Legacy!ToSet(submitted) /\ stage = 0 /\ stage' = 1
      /\ UNCHANGED <<submitted, eligible, history, rows, astray>>
  BY DEF Legacy!Backfill
<1>2. 1 \in 0 .. Legacy!Up
  BY LegacyAssumption DEF Legacy!Up
<1>3. Legacy!TypeOK'
  BY <1>1, <1>2 DEF LegacyInv, Legacy!TypeOK
<1>4. ASSUME NEW r \in Run PROVE LegacyRun(r)' /\ ~Taken(r)'
  <2>1. LegacyRun(r) /\ recorded \subseteq recorded'
    BY <1>1 DEF LegacyInv, Legacy!TypeOK
  <2> QED BY <1>1, <2>1 DEF LegacyRun, Taken
<1> QED BY <1>1, <1>3, <1>4 DEF LegacyInv

LEMMA LegacyRebuildNext ==
    ASSUME LegacyInv, Legacy!RebuildNext PROVE LegacyInv'
<1> DEFINE r == RunOrder[stage]
           l == Legacy!Synchronized(submitted, recorded, eligible, r, history[r], rows[r])
<1>1. /\ stage \in 1 .. Len(RunOrder) /\ UNCHANGED <<submitted, recorded, eligible, astray>>
      /\ IF l = Legacy!NoLedger THEN stage' = 0 /\ UNCHANGED <<history, rows>>
         ELSE Legacy!Store(r, l) /\ stage' = stage + 1
  BY DEF Legacy!RebuildNext
<1>2. r \in Run /\ Len(RunOrder) \in Nat
  BY <1>1, LegacyAssumption
<1>3. /\ submitted \in Seq(LegacyCheckIn) /\ EachOnce(submitted) /\ eligible \subseteq LegacyProtocol
      /\ recorded = Legacy!ToSet(submitted) /\ Found(history[r], rows[r])
  BY <1>1, <1>2 DEF LegacyInv, Legacy!TypeOK, LegacyRun
<1> HIDE DEF r, l
<1>4. CASE l = Legacy!NoLedger
  <2>1. Legacy!TypeOK'
    BY <1>1, <1>2, <1>4 DEF LegacyInv, Legacy!TypeOK, Legacy!Up
  <2>2. ASSUME NEW q \in Run PROVE LegacyRun(q)' /\ ~Taken(q)'
    <3>1. LegacyRun(q)
      BY DEF LegacyInv
    <3> QED BY <1>1, <1>4, <3>1 DEF LegacyRun, Taken
  <2> QED BY <1>1, <1>3, <1>4, <2>1, <2>2 DEF LegacyInv
<1>5. CASE l # Legacy!NoLedger
  <2>1. Settled(submitted, recorded, eligible, r, l)
    BY <1>3, <1>5, SynchronizedSettles DEF l
  <2>2. Legacy!Store(r, l) /\ stage' = stage + 1 /\ stage' \in 0 .. Legacy!Up
    BY <1>1, <1>2, <1>5 DEF Legacy!Up
  <2>3. ASSUME NEW q \in Run \ {r}, Taken(q)'
        PROVE  Taken(q) /\ Legacy!EventsOf(submitted', recorded', eligible', q, history[q])
                  = Legacy!EventsNow(q)
    <3>1. PICK i \in 1 .. stage' - 1 : RunOrder[i] = q
      BY <2>3 DEF Taken
    <3>2. i \in 1 .. stage - 1
      BY <1>1, <2>2, <2>3, <3>1 DEF r
    <3> QED BY <1>1, <3>1, <3>2 DEF Taken, Legacy!EventsNow
  <2>4. Settled(submitted', recorded', eligible', r, l)
    BY <1>1, <2>1
  <2>5. /\ submitted' \in Seq(LegacyCheckIn) /\ EachOnce(submitted') /\ UNCHANGED astray
        /\ recorded' \subseteq Legacy!ToSet(submitted') /\ recorded \subseteq recorded'
        /\ eligible' \subseteq LegacyProtocol
        /\ recorded' = Legacy!ToSet(submitted')
    BY <1>1, <1>3
  <2> QED BY <1>2, <2>2, <2>3, <2>4, <2>5, CommitKeeps
<1> QED BY <1>4, <1>5

LEMMA LegacyCalls ==
    ASSUME LegacyInv,
           \/ \E r \in Run : Legacy!Synchronize(r)
           \/ \E e \in LegacyCheckIn : Legacy!ReverseEvent(e)
    PROVE  LegacyInv'
<1>1. PICK r \in Run, e \in LegacyCheckIn \cup {None} :
        Legacy!Synchronize(r) \/ (e \in LegacyCheckIn /\ r = RunOf[e] /\ Legacy!ReverseEvent(e))
  BY LegacyAssumption
<1> DEFINE l == Legacy!Synchronized(submitted, recorded, eligible, r, history[r], rows[r])
<1>2. UNCHANGED <<submitted, recorded, eligible, astray, stage>> /\ stage = Legacy!Up
      /\ l # Legacy!NoLedger
  BY <1>1 DEF Legacy!Synchronize, Legacy!ReverseEvent
<1>3. /\ submitted \in Seq(LegacyCheckIn) /\ EachOnce(submitted) /\ eligible \subseteq LegacyProtocol
      /\ Found(history[r], rows[r]) /\ stage \in 0 .. Legacy!Up
      /\ recorded \subseteq Legacy!ToSet(submitted)
      /\ stage # 0 => recorded = Legacy!ToSet(submitted)
  BY DEF LegacyInv, Legacy!TypeOK, LegacyRun
<1>4. /\ Settled(submitted, recorded, eligible, r, l)
      /\ Legacy!EventsOf(submitted, recorded, eligible, r, l.history)
           = Legacy!EventsOf(submitted, recorded, eligible, r, history[r])
  <2> HIDE DEF LegacyInv
  <2> QED BY <1>2, <1>3, SynchronizedSettles
<1>5. \E k : Legacy!Store(r, k) /\ Settled(submitted, recorded, eligible, r, k)
  <2>1. CASE Legacy!Synchronize(r)
    BY <1>4, <2>1 DEF Legacy!Synchronize
  <2>2. CASE e \in LegacyCheckIn /\ r = RunOf[e] /\ Legacy!ReverseEvent(e)
    <3> DEFINE k == Legacy!Withdrawn(l, e)
    <3>1. /\ Legacy!Verified(Legacy!EventsOf(submitted, recorded, eligible, r, history[r]),
                             k.history, k.rows)
          /\ Legacy!Store(r, k)
      BY <2>2 DEF Legacy!ReverseEvent
    <3> HIDE DEF l
    <3>2. Settled(submitted, recorded, eligible, r, k)
      BY <1>3, <1>4, <2>2, <3>1, WithdrawnSettles
    <3> QED BY <3>1, <3>2
  <2> QED BY <1>1, <2>1, <2>2
<1>6. PICK k : Legacy!Store(r, k) /\ Settled(submitted, recorded, eligible, r, k)
  BY <1>5
<1>7. \A q \in Run \ {r} : Taken(q)' =>
        Taken(q) /\ Legacy!EventsOf(submitted', recorded', eligible', q, history[q])
                      = Legacy!EventsNow(q)
  BY <1>2 DEF Taken, Legacy!EventsNow
<1>8. Settled(submitted', recorded', eligible', r, k)
  BY <1>2, <1>6
<1>9. /\ submitted' \in Seq(LegacyCheckIn) /\ EachOnce(submitted') /\ UNCHANGED astray
      /\ recorded' \subseteq Legacy!ToSet(submitted') /\ recorded \subseteq recorded'
      /\ eligible' \subseteq LegacyProtocol /\ stage' \in 0 .. Legacy!Up
      /\ stage' # 0 => recorded' = Legacy!ToSet(submitted')
  BY <1>2, <1>3
<1> QED BY <1>6, <1>7, <1>8, <1>9, CommitKeeps

LEMMA LegacySubmit ==
    ASSUME LegacyInv, NEW e \in LegacyCheckIn, Legacy!Submit(e)
    PROVE  LegacyInv'
<1> DEFINE r == RunOf[e]
           l == Legacy!Synchronized(submitted', recorded', eligible, r, history[r], rows[r])
<1>1. /\ stage = Legacy!Up /\ e \notin Legacy!ToSet(submitted)
      /\ submitted' = Append(submitted, e) /\ recorded' = recorded \cup {e}
      /\ UNCHANGED <<eligible, astray, stage>>
      /\ IF Legacy!Scored(e, eligible) THEN l # Legacy!NoLedger /\ Legacy!Store(r, l)
         ELSE UNCHANGED <<history, rows>>
  BY DEF Legacy!Submit
<1>2. /\ submitted \in Seq(LegacyCheckIn) /\ EachOnce(submitted) /\ eligible \subseteq LegacyProtocol
      /\ recorded = Legacy!ToSet(submitted) /\ stage \in 0 .. Legacy!Up /\ stage # 0
  <2>1. Legacy!Up # 0
    BY LegacyAssumption DEF Legacy!Up
  <2> QED BY <1>1, <2>1 DEF LegacyInv, Legacy!TypeOK
<1>3. /\ submitted' \in Seq(LegacyCheckIn) /\ EachOnce(submitted')
      /\ Legacy!ToSet(submitted') = Legacy!ToSet(submitted) \cup {e}
  BY <1>1, <1>2, SubmittedGrows
<1>4. /\ recorded' = Legacy!ToSet(submitted') /\ recorded \subseteq recorded' /\ UNCHANGED astray
      /\ stage' \in 0 .. Legacy!Up /\ eligible' \subseteq LegacyProtocol
  BY <1>1, <1>2, <1>3
<1>5. r \in Run /\ Found(history[r], rows[r])
  BY LegacyAssumption DEF LegacyInv, LegacyRun
<1>6. \A q \in Run : e \notin Legacy!Processed(history[q])
  BY <1>1, <1>2 DEF LegacyInv, LegacyRun
\* The other runs do not have the event.
<1>7. ASSUME NEW q \in Run, q # r \/ ~Legacy!Scored(e, eligible)
      PROVE  Legacy!EventsOf(submitted', recorded', eligible', q, history[q]) = Legacy!EventsNow(q)
  <2>1. RunOf[e] # q \/ (~Legacy!Scored(e, eligible) /\ e \notin Legacy!Processed(history[q]))
    BY <1>6, <1>7
  <2>2. Legacy!EventsOf(submitted', recorded \cup {e}, eligible, q, history[q])
          = Legacy!EventsOf(submitted, recorded, eligible, q, history[q])
    BY <1>3, <2>1 DEF Legacy!EventsOf
  <2> QED BY <1>1, <2>2 DEF Legacy!EventsNow
<1>8. \A q \in Run : Taken(q)' => Taken(q)
  BY <1>1 DEF Taken
<1> HIDE DEF r, l
<1>9. CASE Legacy!Scored(e, eligible)
  <2>1. l # Legacy!NoLedger /\ Legacy!Store(r, l)
    BY <1>1, <1>9
  <2>2. Settled(submitted', recorded', eligible, r, l)
    BY <1>3, <1>5, <2>1, SynchronizedSettles DEF l
  <2>3. Settled(submitted', recorded', eligible', r, l)
    BY <1>1, <2>2
  <2>4. \A q \in Run \ {r} : Taken(q)' =>
          Taken(q) /\ Legacy!EventsOf(submitted', recorded', eligible', q, history[q])
                        = Legacy!EventsNow(q)
    BY <1>7, <1>8
  <2> QED BY <1>3, <1>4, <1>5, <2>1, <2>3, <2>4, CommitKeeps
<1>10. CASE ~Legacy!Scored(e, eligible)
  <2>1. UNCHANGED <<history, rows, astray>>
    BY <1>1, <1>10
  <2>2. Legacy!TypeOK'
    BY <1>3, <1>4, <2>1 DEF LegacyInv, Legacy!TypeOK
  <2>3. ASSUME NEW q \in Run PROVE LegacyRun(q)'
    <3>1. LegacyRun(q)
      BY DEF LegacyInv
    <3> QED BY <1>4, <2>1, <3>1 DEF LegacyRun
  <2>4. ASSUME NEW q \in Run, Taken(q)'
        PROVE  history'[q] # <<>> /\ Legacy!Processed(history'[q])
                 = Legacy!EventsOf(submitted', recorded', eligible', q, history'[q])
    <3>1. history[q] # <<>> /\ Legacy!Processed(history[q]) = Legacy!EventsNow(q)
      BY <1>8, <2>4 DEF LegacyInv
    <3> QED BY <1>7, <1>10, <2>1, <3>1
  <2> QED BY <1>3, <1>4, <2>2, <2>3, <2>4 DEF LegacyInv, Legacy!EventsNow
<1> QED BY <1>9, <1>10

LEMMA LegacyRelease ==
    ASSUME LegacyInv, Legacy!Release PROVE LegacyInv'
<1>1. /\ stage' = 0 /\ UNCHANGED <<submitted, recorded, history, rows, astray>>
      /\ \E more \in SUBSET LegacyProtocol : eligible' = eligible \cup more
  BY DEF Legacy!Release
<1>2. 0 \in 0 .. Legacy!Up
  BY LegacyAssumption DEF Legacy!Up
<1>3. Legacy!TypeOK'
  BY <1>1, <1>2 DEF LegacyInv, Legacy!TypeOK
<1>4. ASSUME NEW q \in Run PROVE LegacyRun(q)' /\ ~Taken(q)'
  <2>1. LegacyRun(q)
    BY DEF LegacyInv
  <2> QED BY <1>1, <2>1 DEF LegacyRun, Taken
<1> QED BY <1>1, <1>3, <1>4 DEF LegacyInv

LEMMA LegacyEdit ==
    ASSUME LegacyInv, NEW r \in Run, Legacy!Edit(r),
           UNCHANGED <<submitted, recorded, eligible, history, stage>>
    PROVE  LegacyInv'
<1>1. PICK w \in Legacy!Payload : rows' = [rows EXCEPT ![r] = w]
  BY DEF Legacy!Edit
<1>2. rows[r] # Legacy!NoRows /\ UNCHANGED <<submitted, recorded, eligible, history, astray, stage>>
  BY DEF Legacy!Edit
<1>3. rows \in [Run -> Legacy!Payload \cup {Legacy!NoRows}]
  BY DEF LegacyInv, Legacy!TypeOK
<1>4. /\ rows' \in [Run -> Legacy!Payload \cup {Legacy!NoRows}] /\ rows'[r] = w
      /\ \A q \in Run : q # r => rows'[q] = rows[q]
  BY <1>1, <1>3
<1>5. w # Legacy!NoRows
  BY LegacyAssumption DEF Legacy!NoRows, Legacy!Payload
<1>6. Legacy!TypeOK'
  BY <1>2, <1>4 DEF LegacyInv, Legacy!TypeOK
<1>7. ASSUME NEW q \in Run PROVE LegacyRun(q)'
  <2>1. LegacyRun(q)
    BY DEF LegacyInv
  <2>2. CASE q = r
    <3>1. Found(history[r], w)
      BY <1>2, <1>5, <2>1, <2>2 DEF LegacyRun, Found
    <3> QED BY <1>2, <1>4, <2>1, <2>2, <3>1 DEF LegacyRun
  <2>3. CASE q # r
    BY <1>2, <1>4, <2>1, <2>3 DEF LegacyRun
  <2> QED BY <2>2, <2>3
<1>8. ASSUME NEW q \in Run, Taken(q)'
      PROVE  history'[q] # <<>> /\ Legacy!Processed(history'[q]) = Legacy!EventsNow(q)'
  <2>1. Taken(q)
    BY <1>2, <1>8 DEF Taken
  <2>2. history[q] # <<>> /\ Legacy!Processed(history[q]) = Legacy!EventsNow(q)
    BY <2>1 DEF LegacyInv
  <2> QED BY <1>2, <2>2 DEF Legacy!EventsNow
<1> QED BY <1>2, <1>6, <1>7, <1>8 DEF LegacyInv

\* Where the rows are astray is no matter of the trail.
LEMMA LegacyRowsStay ==
    ASSUME LegacyInv, UNCHANGED <<submitted, recorded, eligible, history, rows, stage>>,
           astray' \subseteq Run
    PROVE  LegacyInv'
<1>2. Legacy!TypeOK'
  BY DEF LegacyInv, Legacy!TypeOK
<1>3. \A r \in Run : LegacyRun(r)'
  BY DEF LegacyInv, LegacyRun
<1>4. ASSUME NEW r \in Run, Taken(r)'
      PROVE  (history[r] # <<>> /\ Legacy!Processed(history[r]) = Legacy!EventsNow(r))'
  <2>1. Taken(r)
    BY <1>4 DEF Taken
  <2>2. history[r] # <<>> /\ Legacy!Processed(history[r]) = Legacy!EventsNow(r)
    BY <2>1 DEF LegacyInv
  <2> QED BY <2>2 DEF Legacy!EventsNow
<1> QED BY <1>2, <1>3, <1>4 DEF LegacyInv

LEMMA LegacyDamage ==
    ASSUME LegacyInv, NEW r \in Run, Legacy!Damage(r) PROVE LegacyInv'
<1>1. UNCHANGED <<submitted, recorded, eligible, history, stage>>
  BY DEF Legacy!Damage
<1>2. CASE Legacy!Edit(r)
  BY <1>1, <1>2, LegacyEdit
<1>3. CASE Legacy!Relink(r)
  <2>1. UNCHANGED rows /\ astray' \subseteq Run
    BY <1>3 DEF Legacy!Relink, LegacyInv, Legacy!TypeOK
  <2> QED BY <1>1, <2>1, LegacyRowsStay
<1> QED BY <1>2, <1>3 DEF Legacy!Damage

LEMMA LegacyStep ==
    ASSUME LegacyInv, [Legacy!Next]_legacyVars
    PROVE  LegacyInv'
<1>1. CASE UNCHANGED legacyVars
  <2>1. UNCHANGED <<submitted, recorded, eligible, history, rows, stage>> /\ astray' \subseteq Run
    BY <1>1 DEF legacyVars, LegacyInv, Legacy!TypeOK
  <2> QED BY <2>1, LegacyRowsStay
<1>2. CASE Legacy!Backfill
  BY <1>2, LegacyBackfill
<1>3. CASE Legacy!RebuildNext
  BY <1>3, LegacyRebuildNext
<1>4. CASE Legacy!Release
  BY <1>4, LegacyRelease
<1>5. CASE \/ \E r \in Run : Legacy!Synchronize(r)
           \/ \E e \in LegacyCheckIn : Legacy!ReverseEvent(e)
  BY <1>5, LegacyCalls
<1>6. ASSUME NEW r \in Run, Legacy!Damage(r) PROVE LegacyInv'
  BY <1>6, LegacyDamage
<1>7. ASSUME NEW e \in LegacyCheckIn, Legacy!Submit(e) PROVE LegacyInv'
  BY <1>7, LegacySubmit
<1> QED BY <1>1, <1>2, <1>3, <1>4, <1>5, <1>6, <1>7 DEF Legacy!Next

\* The last entry of a trail is the state that its active events imply.
LEMMA TrailEnds ==
    ASSUME NEW h \in Seq(Legacy!Snapshot), Trail(h)
    PROVE  h[Len(h)].after = Legacy!Desired(Legacy!Active(h))
<1>1. Len(h) \in DOMAIN h
  BY DEF Trail
<1>2. Entry(h, Len(h))
  BY <1>1 DEF Trail
<1> QED BY <1>2 DEF Entry, Legacy!Active

LEMMA ServedRuns ==
    ASSUME LegacyInv, stage = Legacy!Up, NEW r \in Run
    PROVE  /\ history[r] # <<>> /\ Trail(history[r]) /\ history[r] \in Seq(Legacy!Snapshot)
           /\ Legacy!Processed(history[r]) = Legacy!EventsNow(r)
           /\ Legacy!EventsNow(r) \in SUBSET LegacyCheckIn
<1>1. Taken(r)
  BY LegacyAssumption DEF Taken, Legacy!Up
<1>2. Found(history[r], rows[r])
  BY DEF LegacyInv, LegacyRun
<1>3. Legacy!EventsNow(r) \in SUBSET LegacyCheckIn
  BY EventsAreCheckIns DEF LegacyInv, Legacy!TypeOK, Legacy!EventsNow
<1> QED BY <1>1, <1>2, <1>3 DEF LegacyInv, Found

\* A serving container has taken every run: while nobody edits the rows, they are the replay of
\* the events of the run, all of them.
THEOREM LegacyScoresStayVerified == Spec => []LegacyScoresAreVerified
<1>1. Init => LegacyInv
  BY LegacyStart DEF Init
<1>2. LegacyInv /\ [Next]_vars => LegacyInv'
  <2> SUFFICES ASSUME LegacyInv, [Next]_vars PROVE LegacyInv'
    OBVIOUS
  <2>1. [Legacy!Next]_legacyVars
    BY DEF Next, vars
  <2> QED BY <2>1, LegacyStep
<1>3. LegacyInv => LegacyScoresAreVerified
  <2> SUFFICES ASSUME LegacyInv
               PROVE  Legacy!TypeOK /\ Legacy!ServesVerifiedScores /\ Legacy!NothingLeftOver
    BY DEF LegacyScoresAreVerified
  <2>1. ASSUME stage = Legacy!Up, NEW r \in Run, Legacy!Intact(r)
        PROVE  Legacy!Verified(Legacy!EventsNow(r), history[r], rows[r])
    <3>1. /\ history[r] # <<>> /\ Trail(history[r]) /\ history[r] \in Seq(Legacy!Snapshot)
          /\ Legacy!Processed(history[r]) = Legacy!EventsNow(r)
          /\ Legacy!EventsNow(r) \in SUBSET LegacyCheckIn
      BY <2>1, ServedRuns
    <3>2. rows[r] = Legacy!Desired(Legacy!Active(history[r]))
      BY <2>1, <3>1, TrailEnds DEF Legacy!Intact, Legacy!Drifted
    <3>3. Replays(Legacy!EventsNow(r), history[r], rows[r])
      BY <3>1, <3>2 DEF Replays
    <3> QED BY <3>1, <3>3, VerifiedMeansReplays
  <2>2. ASSUME stage = Legacy!Up, NEW r \in Run PROVE Legacy!Pending(r) = {}
    BY <2>2, ServedRuns DEF Legacy!Pending
  <2>3. Legacy!TypeOK
    BY DEF LegacyInv
  <2> QED BY <2>1, <2>2, <2>3 DEF Legacy!ServesVerifiedScores, Legacy!NothingLeftOver
<1> QED BY <1>1, <1>2, <1>3, PTL DEF Spec

\* The start of a container fails for no other reason than rows that are astray or an event that
\* cannot be processed.
LEMMA RebuildFails ==
    ASSUME LegacyInv, Legacy!RebuildNext, stage' = 0
    PROVE  LET r == RunOrder[stage]
           IN  \/ r \in astray
               \/ /\ Legacy!Pending(r) # {}
                  /\ Legacy!Drifted(r) \/ \E e \in Legacy!Pending(r) : ~Legacy!HasBaseline(e)
<1> DEFINE r == RunOrder[stage]
           h == history[r]
           w == rows[r]
           evs == Legacy!EventsNow(r)
           E == Legacy!Pending(r)
           pend == Legacy!PendingOf(submitted, recorded, eligible, r, h)
           l == Legacy!Reconciled(pend, h, w)
<1>1. /\ stage \in 1 .. Len(RunOrder)
      /\ Legacy!Synchronized(submitted, recorded, eligible, r, h, w) = Legacy!NoLedger
  BY LegacyAssumption DEF Legacy!RebuildNext
<1>2. r \in Run
  BY <1>1, LegacyAssumption
<1>3. /\ submitted \in Seq(LegacyCheckIn) /\ EachOnce(submitted)
      /\ recorded = Legacy!ToSet(submitted) /\ Found(h, w)
      /\ Legacy!Processed(h) \subseteq {e \in recorded : RunOf[e] = r}
  BY <1>1, <1>2 DEF LegacyInv, Legacy!TypeOK, LegacyRun
<1>4. /\ evs \in SUBSET LegacyCheckIn /\ E = evs \ Legacy!Processed(h)
      /\ Legacy!Processed(h) \subseteq evs
  <2>1. evs \in SUBSET LegacyCheckIn
    BY <1>3, EventsAreCheckIns DEF Legacy!EventsNow
  <2>2. Legacy!Processed(h) \subseteq evs
    BY <1>3 DEF Legacy!EventsNow, Legacy!EventsOf
  <2> QED BY <2>1, <2>2 DEF Legacy!Pending
<1>5. Listing(pend, E) /\ pend \in Seq(LegacyCheckIn)
  BY <1>3, <1>4, PendingIsListed DEF Legacy!EventsNow
<1>6. Legacy!ToSet(pend) = E
  BY <1>5 DEF Listing, Legacy!ToSet
<1>7. Legacy!Complete(submitted, recorded, eligible, r)
  BY <1>3 DEF Legacy!Complete
<1>8. IsLedger(l) /\ l # Legacy!NoLedger
  <2> HIDE DEF pend, h, w
  <2>1. IsLedger(l)
    BY <1>3, <1>5, ReconciledLedger
  <2>2. Legacy!NoLedger.rows = Legacy!NoRows
    BY DEF Legacy!NoLedger, Legacy!Ledger
  <2>3. Legacy!NoRows \notin Legacy!Payload
    BY LegacyAssumption DEF Legacy!NoRows, Legacy!Payload
  <2> QED BY <2>1, <2>2, <2>3 DEF IsLedger
<1>9. \/ r \in astray
      \/ ~ (/\ \A e \in E : Legacy!HasBaseline(e)
            /\ Legacy!Verified(evs, l.history, l.rows))
  BY <1>1, <1>6, <1>7, <1>8 DEF Legacy!Synchronized, Legacy!EventsNow
<1> HIDE DEF E, evs, pend, h, w, l
<1>10. ASSUME E = {} \/ h = <<>> \/ w = h[Len(h)].after
       PROVE  Legacy!Verified(evs, l.history, l.rows)
  <2>1. Replays(Legacy!Processed(h) \cup E, l.history, l.rows)
    BY <1>3, <1>4, <1>5, <1>10, ReconciledReplays DEF l
  <2>2. Legacy!Processed(h) \cup E = evs
    BY <1>4
  <2> QED BY <1>4, <1>8, <2>1, <2>2, VerifiedMeansReplays DEF IsLedger
<1>11. r \in astray \/ E # {}
  BY <1>9, <1>10
<1>12. ~Legacy!Drifted(r) => h = <<>> \/ w = h[Len(h)].after
  BY DEF Legacy!Drifted, h, w
<1> QED BY <1>9, <1>10, <1>11, <1>12 DEF E

-----------------------------------------------------------------------------
(* No step rewrites a record. *)

\* The inductive invariants of the four components give the four action properties: numbers of
\* events stay, plans and revisions are only added to and say something new, reviews stay, and a
\* start fails only for a run with rows that nothing repairs or with an event that cannot be
\* processed.
THEOREM RecordsStay == Spec => RecordsAreKept
<1> DEFINE Inv == EvidenceInv /\ WeeklyInv /\ ContextsInv /\ LegacyInv
<1>1. Init => Inv
  BY EvidenceInit, WeeklyInit, ContextsInit, LegacyStart DEF Init
<1>2. Inv /\ [Next]_vars => Inv'
  <2> SUFFICES ASSUME Inv, [Next]_vars PROVE Inv'
    OBVIOUS
  <2>1. /\ [Evidence!Next]_evidenceVars /\ [Weekly!Next]_weeklyVars
        /\ [Contexts!Next]_contextVars /\ [Legacy!Next]_legacyVars
    BY DEF Next, vars
  <2> QED BY <2>1, EvidenceStep, WeeklyStep, ContextsStep, LegacyStep
<1>3. Inv /\ [Next]_vars => [\A c \in CheckIn : index[c] # 0 => index'[c] = index[c]]_(Evidence!vars)
  <2> SUFFICES ASSUME Inv, [Next]_vars
               PROVE  \A c \in CheckIn : index[c] # 0 => index'[c] = index[c]
    OBVIOUS
  <2>1. [Evidence!Next]_evidenceVars
    BY DEF Next, vars
  <2> QED BY <2>1, EvidenceStep
<1>4. Inv /\ [Next]_vars =>
        [/\ Len(plans) =< Len(plans') /\ SubSeq(plans', 1, Len(plans)) = plans
         /\ \A p \in DOMAIN reviews : reviews[p] # None => reviews'[p] = reviews[p]
         /\ \A q \in DOMAIN plans' : \A p \in DOMAIN plans :
              /\ q \notin DOMAIN plans /\ Weekly!IsLatest(p) /\ plans'[q].week = plans[p].week
              => /\ plans'[q].revision = plans[p].revision + 1
                 /\ <<plans'[q].action, plans'[q].day>>
                      # <<plans[p].action, plans[p].day>>]_(Weekly!vars)
  <2> SUFFICES ASSUME Inv, [Next]_vars
               PROVE  /\ Len(plans) =< Len(plans') /\ SubSeq(plans', 1, Len(plans)) = plans
                      /\ \A p \in DOMAIN reviews : reviews[p] # None => reviews'[p] = reviews[p]
                      /\ \A q \in DOMAIN plans' : \A p \in DOMAIN plans :
                           /\ q \notin DOMAIN plans /\ Weekly!IsLatest(p)
                           /\ plans'[q].week = plans[p].week
                           => /\ plans'[q].revision = plans[p].revision + 1
                              /\ <<plans'[q].action, plans'[q].day>>
                                   # <<plans[p].action, plans[p].day>>
    OBVIOUS
  <2>1. [Weekly!Next]_weeklyVars
    BY DEF Next, vars
  <2> QED BY <2>1, WeeklyHistoryGrows
<1>5. Inv /\ [Next]_vars =>
        [\A k \in Contexts!Epoch \X Contexts!Scope :
            /\ Len(series'[k]) >= Len(series[k])
            /\ SubSeq(series'[k], 1, Len(series[k])) = series[k]
            /\ \A i \in Len(series[k]) + 1 .. Len(series'[k]) :
                  i > 1 => series'[k][i] # series'[k][i - 1]]_(Contexts!vars)
  <2> SUFFICES ASSUME Inv, [Next]_vars, NEW k \in Contexts!Epoch \X Contexts!Scope
               PROVE  /\ Len(series'[k]) >= Len(series[k])
                      /\ SubSeq(series'[k], 1, Len(series[k])) = series[k]
                      /\ \A i \in Len(series[k]) + 1 .. Len(series'[k]) :
                            i > 1 => series'[k][i] # series'[k][i - 1]
    OBVIOUS
  <2>1. [Contexts!Next]_contextVars
    BY DEF Next, vars
  <2> QED BY <2>1, RevisionsOnlyGrow
<1>6. Inv /\ [Next]_vars =>
        [\A r \in Run :
            stage \in 1 .. Len(RunOrder) /\ stage' = 0 /\ RunOrder[stage] = r
              => \/ r \in astray
                 \/ Legacy!Pending(r) # {}
                      /\ (Legacy!Drifted(r)
                            \/ \E e \in Legacy!Pending(r) : ~Legacy!HasBaseline(e))]_(Legacy!vars)
  <2> SUFFICES ASSUME Inv, [Next]_vars,
                      stage \in 1 .. Len(RunOrder), stage' = 0
               PROVE  LET r == RunOrder[stage]
                      IN  \/ r \in astray
                          \/ /\ Legacy!Pending(r) # {}
                             /\ Legacy!Drifted(r)
                                \/ \E e \in Legacy!Pending(r) : ~Legacy!HasBaseline(e)
    OBVIOUS
  <2>1. [Legacy!Next]_legacyVars
    BY DEF Next, vars
  <2>2. stage # stage' /\ stage # 0 /\ stage # Legacy!Up
    BY LegacyAssumption DEF Legacy!Up
  <2>3. Legacy!RebuildNext
    BY <2>1, <2>2 DEF Legacy!Next, legacyVars, Legacy!Backfill, Legacy!Release, Legacy!Synchronize,
       Legacy!Damage, Legacy!Submit, Legacy!ReverseEvent
  <2> QED BY <2>3, RebuildFails
<1>7. Spec => Evidence!NumbersStay
  BY <1>1, <1>2, <1>3, PTL DEF Spec, Evidence!NumbersStay
<1>8. Spec => Weekly!HistoryIsKept
  BY <1>1, <1>2, <1>4, PTL DEF Spec, Weekly!HistoryIsKept
<1>9. Spec => Contexts!HistoryIsKept
  BY <1>1, <1>2, <1>5, PTL DEF Spec, Contexts!HistoryIsKept
<1>10. Spec => Legacy!OnlyPendingEventsStopStart
  BY <1>1, <1>2, <1>6, PTL DEF Spec, Legacy!OnlyPendingEventsStopStart
<1> QED BY <1>7, <1>8, <1>9, <1>10 DEF RecordsAreKept
=============================================================================
