------------------------- MODULE MCPracticeConcurrency -------------------------
(* Two workers on the tables of one owner: two sprints that compete for being     *)
(* the current one, two check-ins that compete for being the first record.        *)
EXTENDS PracticeConcurrency, TLC

CONSTANTS w1, w2, s1, s2, c1, c2, a1, a2, m1, p

MCProtocolOf == [s \in Sprint |-> p]
MCRunOf == [s \in Sprint |-> 1]
MCActionsOf == [x \in Protocol |-> Action]
MCMinimumOf == [x \in Protocol |-> 1]
MCMarkersOf == [x \in Protocol |-> {m1}]
MCObservable == [a \in Action |-> {m1}]
Interchangeable == Permutations(CheckIn) \cup Permutations(Worker) \cup Permutations(Sprint)
=============================================================================
