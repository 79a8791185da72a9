---------------------------- MODULE CreditLedger ----------------------------
(***************************************************************************)
(* What the composite score ledger promises to the rest of the             *)
(* application, without snapshots or transactions: a closeout is recorded  *)
(* once, may be withdrawn once, and the published credits of an assessment *)
(* run are always the best standing credit of each competency, except      *)
(* while somebody has damaged them.  A damaged publication stops further   *)
(* closeouts of its run until it is restored.  Damage no restoration       *)
(* reaches blocks the run: nothing is recorded, withdrawn or restored for  *)
(* it until whoever did it puts it right.                                  *)
(***************************************************************************)
EXTENDS Naturals

CONSTANTS Run, Sprint, Competency, RunOf, CompetencyOf, Credit, NoState

Level == Credit \cup {0}
State == [Competency -> Level]

VARIABLES
    event,      \* the credit recorded for a sprint, 0 when there is none
    reversed,   \* the sprints whose credit was withdrawn
    published,  \* the credits of each run, NoState before the first use and while blocked
    blocked     \* the runs whose publication was deleted, or is not recognised as theirs

Standing(E, R, r) == {s \in Sprint : RunOf[s] = r /\ E[s] # 0 /\ s \notin R}

\* The state in which each competency has its best standing credit.
IsBest(st, E, R, r) ==
    /\ st \in State
    /\ \A c \in Competency :
         LET mine == {s \in Standing(E, R, r) : CompetencyOf[s] = c}
         IN  /\ \A s \in mine : E[s] =< st[c]
             /\ st[c] = 0 \/ \E s \in mine : E[s] = st[c]

Intact(r) == published[r] = NoState \/ IsBest(published[r], event, reversed, r)

Publish(r, E, R) ==
    \E st \in State : IsBest(st, E, R, r) /\ published' = [published EXCEPT ![r] = st]

Init ==
    /\ event = [s \in Sprint |-> 0]
    /\ reversed = {}
    /\ published = [r \in Run |-> NoState]
    /\ blocked = {}

\* First use of a run, or the restoration of a damaged publication.
Restore(r) ==
    /\ r \notin blocked
    /\ Publish(r, event, reversed)
    /\ UNCHANGED <<event, reversed, blocked>>

\* Mutant of Award: the publication is replaced even if it is damaged.
AwardOverDamage(s, credit) ==
    /\ event[s] = 0
    /\ RunOf[s] \notin blocked
    /\ event' = [event EXCEPT ![s] = credit]
    /\ Publish(RunOf[s], event', reversed)
    /\ UNCHANGED <<reversed, blocked>>

Award(s, credit) ==
    /\ event[s] = 0
    /\ Intact(RunOf[s])
    /\ RunOf[s] \notin blocked
    /\ event' = [event EXCEPT ![s] = credit]
    /\ Publish(RunOf[s], event', reversed)
    /\ UNCHANGED <<reversed, blocked>>

Withdraw(s) ==
    /\ event[s] # 0
    /\ s \notin reversed
    /\ RunOf[s] \notin blocked
    /\ reversed' = reversed \cup {s}
    /\ Publish(RunOf[s], event, reversed')
    /\ UNCHANGED <<event, blocked>>

\* Somebody edits what is published, or puts it right.
Damage(r) ==
    /\ published[r] # NoState \/ r \in blocked
    /\ \/ /\ \E st \in State : published' = [published EXCEPT ![r] = st]
          /\ blocked' = blocked \ {r}
       \/ /\ published' = [published EXCEPT ![r] = NoState]
          /\ blocked' = blocked \cup {r}
    /\ UNCHANGED <<event, reversed>>

Next ==
    \/ \E r \in Run : Restore(r) \/ Damage(r)
    \/ \E s \in Sprint, credit \in Credit : Award(s, credit)
    \/ \E s \in Sprint : Withdraw(s)

Spec == Init /\ [][Next]_<<event, reversed, published, blocked>>
=============================================================================
