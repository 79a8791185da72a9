----------------------- MODULE MCCompositeScoreState -----------------------
(* Two sprints of one run on one competency, so that a credit can be          *)
(* superseded, reversed and fall back.                                        *)
EXTENDS CompositeScoreState, TLC

CONSTANTS r1, s1, s2, c1

\* One run with two sprints.
OneRun == [s \in Sprint |-> r1]
OneCompetency == [s \in Sprint |-> c1]
=============================================================================
