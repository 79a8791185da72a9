------------------------------- MODULE MCRecords -------------------------------
(* Records on small instances. *)
EXTENDS Records, TLC

\* Two runs and two protocols, of which a release may make the second one count later; an event
\* of the first run contributes nothing and the second run has no baseline for its event.
MCRunOf == [e \in LegacyCheckIn |-> IF e = "e3" THEN "r2" ELSE "r1"]
MCProtocolOf == [e \in LegacyCheckIn |-> IF e = "e1" THEN "p1" ELSE "p2"]
MCRunOrder == <<"r1", "r2">>

\* Three check-ins of one action and one of another, under a clock that may be set back.
MCGroupOf == [c \in CheckIn |-> IF c = 4 THEN "g2" ELSE "g1"]

\* One action, a week of four ticks; besides "unknown" one value of a context tells a change from
\* the way back.
MCSprintOf == [a \in Action |-> "s1"]

\* The workers are alike.
Interchangeable == Permutations(Worker)
=============================================================================
