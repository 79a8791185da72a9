--------------------------- MODULE MCScoredPractice ---------------------------
(* Two sprints whose protocols share a competency, and a second assessment that  *)
(* may come at any moment.                                                       *)
EXTENDS ScoredPractice

CONSTANTS s1, s2, c1, c2, a1, a2, m1, p, q, k1

MCProtocolOf == [s \in Sprint |-> IF s = s1 THEN p ELSE q]
MCRunOf == [s \in Sprint |-> 1]
\* Closing out p after one check-in earns the minimum, q the full credit.
MCActionsOf == [x \in Protocol |-> IF x = p THEN {a1, a2} ELSE {a1}]
MCMinimumOf == [x \in Protocol |-> 1]
MCMarkersOf == [x \in Protocol |-> {m1}]
\* The marker shows in one of the two actions only.
MCObservable == [a \in Action |-> IF a = a1 THEN {m1} ELSE {}]
SharedParent == [x \in Protocol |-> k1]
=============================================================================
