-------------------------------- MODULE Startup --------------------------------
(***************************************************************************)
(* The container's start (docker-entrypoint.sh): a chain of commands, each *)
(* in a transaction of its own, that stops at the first failure and is     *)
(* begun again whenever the container restarts.  The server runs only at   *)
(* its end.  A release brings a schema and a catalog: the text of each     *)
(* action of a practice.  Seeding the catalog refuses to change a practice *)
(* somebody is doing.                                                      *)
(***************************************************************************)
EXTENDS Naturals, Sequences

CONSTANTS
    Action,      \* the actions practices have had in some release
    Releases,    \* the releases, in order: [catalog: an action's text or 0, valid: BOOLEAN]
    MaxAccounts  \* bound on the accounts ever created

VARIABLES
    release,   \* the installed release
    step,      \* the next command of the chain; Serving: the server is up
    schema,    \* the release whose migrations were applied last
    catalog,   \* the text of each action in the database; 0: not there
    user,   \* the user; 0: none
    accounts,  \* accounts created so far
    demo,      \* whether the user has the demonstration assessment
    ongoing,   \* what the user was told to do in the practice under way; <<>>: none is
    recorded,  \* the actions with submitted check-ins
    events,    \* whether every submitted check-in has its evidence event
    states,    \* whether every score state has processed the events there are
    failure    \* why the last start failed

vars == <<release, step, schema, catalog, user, accounts, demo, ongoing, recorded, events,
          states, failure>>
data == <<schema, catalog, user, accounts, demo, ongoing, recorded, events, states>>

Chain == <<"validate", "migrate", "bootstrap", "seed", "backfill", "rebuild", "rebuild composite">>
Serving == Len(Chain) + 1

Incoming == Releases[release].catalog

Init ==
    /\ release = 1 /\ step = 1 /\ schema = 0
    /\ catalog = [a \in Action |-> 0]
    /\ user = 0 /\ accounts = 0 /\ demo = FALSE
    /\ ongoing = <<>> /\ recorded = {}
    /\ events = TRUE /\ states = TRUE /\ failure = "none"

At(command) == step < Serving /\ Chain[step] = command
Pass == step' = step + 1 /\ failure' = "none" /\ UNCHANGED release

\* A command fails: the shell ends, and the container is started again from the first command.
Fail(why) == step' = 1 /\ failure' = why /\ UNCHANGED <<release, data>>

Validate ==
    /\ At("validate")
    /\ IF Releases[release].valid THEN Pass /\ UNCHANGED data ELSE Fail("content")

Migrate ==
    /\ At("migrate") /\ Pass
    /\ schema' = release
    /\ UNCHANGED <<catalog, user, accounts, demo, ongoing, recorded, events, states>>

\* An account is made when there is none: at the first start, and after its owner deleted it.
Bootstrap ==
    /\ At("bootstrap") /\ Pass
    /\ IF user = 0 THEN accounts' = accounts + 1 /\ user' = accounts' ELSE UNCHANGED <<user, accounts>>
    /\ UNCHANGED <<schema, catalog, demo, ongoing, recorded, events, states>>

\* Whether the incoming catalog gives the person a different task.
Redefines == ongoing # <<>> /\ catalog # Incoming

\* Actions the release lacks are deleted; one that a check-in refers to is protected.
Dropped == {a \in Action : catalog[a] # 0 /\ Incoming[a] = 0}

\* Mutant of Seed: ongoing practices are not looked at.
SeedRegardless ==
    /\ At("seed")
    /\ IF Dropped \cap recorded # {} THEN Fail("protected")
       ELSE /\ Pass
            /\ catalog' = Incoming /\ demo' = TRUE
            /\ UNCHANGED <<schema, user, accounts, ongoing, recorded, events, states>>

\* One transaction: the catalog, and the demonstration assessment of the oldest account.
Seed ==
    /\ At("seed")
    /\ IF Redefines THEN Fail("ongoing practice")
       ELSE IF Dropped \cap recorded # {} THEN Fail("protected")
       ELSE /\ Pass
            /\ catalog' = Incoming /\ demo' = TRUE
            /\ UNCHANGED <<schema, user, accounts, ongoing, recorded, events, states>>

Backfill ==
    /\ At("backfill") /\ Pass
    /\ events' = TRUE
    /\ states' = (states /\ events)
    /\ UNCHANGED <<schema, catalog, user, accounts, demo, ongoing, recorded>>

\* The two ledgers are synchronised by two commands.
Rebuild ==
    /\ (At("rebuild") \/ At("rebuild composite")) /\ Pass
    /\ states' = (At("rebuild composite") \/ states)
    /\ UNCHANGED <<schema, catalog, user, accounts, demo, ongoing, recorded, events>>

-----------------------------------------------------------------------------
(* While the server is up. *)

Up == step = Serving /\ UNCHANGED <<release, step, schema, catalog, accounts, failure>>

StartPractice ==
    /\ Up /\ user # 0 /\ ongoing = <<>>
    /\ ongoing' = <<catalog>>
    /\ UNCHANGED <<user, demo, recorded, events, states>>

CheckIn(a) ==
    /\ Up /\ ongoing # <<>> /\ catalog[a] # 0
    /\ recorded' = recorded \cup {a}
    /\ UNCHANGED <<user, demo, ongoing, events, states>>

EndPractice ==
    /\ Up /\ ongoing # <<>>
    /\ ongoing' = <<>>
    /\ UNCHANGED <<user, demo, recorded, events, states>>

DeleteAccount ==
    /\ Up /\ user # 0 /\ accounts < MaxAccounts
    /\ user' = 0 /\ demo' = FALSE /\ ongoing' = <<>> /\ recorded' = {}
    /\ UNCHANGED <<events, states>>

\* A database of an earlier version, or an edit of it, lacks events or has states behind them.
Restore ==
    /\ step = Serving
    /\ \E e, s \in BOOLEAN : events' = e /\ states' = s
    /\ step' = 1
    /\ UNCHANGED <<release, schema, catalog, user, accounts, demo, ongoing, recorded, failure>>

\* The container dies, during the start or after it, or is stopped for the next release.
Crash == step # 1 /\ step' = 1 /\ UNCHANGED <<release, failure, data>>

Upgrade ==
    /\ release < Len(Releases)
    /\ release' = release + 1 /\ step' = 1 /\ failure' = "none"
    /\ UNCHANGED data

Next ==
    \/ Validate \/ Migrate \/ Bootstrap \/ Seed \/ Backfill \/ Rebuild
    \/ StartPractice \/ (\E a \in Action : CheckIn(a)) \/ EndPractice \/ DeleteAccount
    \/ Restore \/ Crash \/ Upgrade

Spec == Init /\ [][Next]_vars

-----------------------------------------------------------------------------
\* The server never answers from a database the release is not ready for: wherever a start was
\* cut short, the next one has made up for it before gunicorn runs.  (An account deleted while
\* the server is up is made again by the next start.)
ServesAReadyDatabase ==
    step = Serving =>
        /\ schema = release /\ catalog = Incoming
        /\ user # 0 => demo
        /\ events /\ states

\* canonical_import.py: no ongoing task instructions are replaced, whatever releases are installed
\* and however often their start fails.
OngoingTasksAreKept == ongoing # <<>> => ongoing = <<catalog>>

StartIsSafe == ServesAReadyDatabase /\ OngoingTasksAreKept

\* canonical_import.py:456: finish or stop the practice before retrying the catalog import; a
\* refused catalog becomes importable that way.
FinishingUnblocksTheUpgrade == failure # "protected"
=============================================================================
