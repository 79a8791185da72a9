-------------------------- MODULE MCPracticeWorkflow --------------------------
(* Two composite sprints, before and after a second assessment, and one of the  *)
(* legacy contract; a protocol of two actions of which one must be completed.   *)
EXTENDS PracticeWorkflow, TLC

CONSTANTS s1, s2, legacy, c1, c2, c3, a1, a2, m1, m2, p, strict

MCProtocolOf == [s \in Sprint |-> IF s = s2 THEN strict ELSE p]
MCRunOf == [s \in Sprint |-> IF s = s2 THEN 2 ELSE 1]
MCActionsOf == [q \in Protocol |-> {a1, a2}]
MCMinimumOf == [q \in Protocol |-> IF q = p THEN 1 ELSE 2]
MCMarkersOf == [q \in Protocol |-> {m1, m2}]
MCObservable == [a \in Action |-> IF a = a1 THEN {m1} ELSE {m1, m2}]
CheckInSymmetry == Permutations(CheckIn)
=============================================================================
