----------------------------- MODULE MCOperations -----------------------------
(* Operations on small instances. *)
EXTENDS Operations, TLC

\* Two assessment runs of one participant, none of them the demonstration seed.
MCOwner == [r \in {"r1", "r2"} |-> 1]

\* The tables of the owner and their keys, which are the same whatever histories are tried.
Schema == INSTANCE DataLifecycle WITH Histories <- {}

\* Owners with a row of one table and the rows it needs, and an owner with rows in every table.
Needs[t \in Schema!Table] ==
    {t} \cup UNION {Needs[e[2]] : e \in {x \in Schema!Protects \cup Schema!Cascades : x[1] = t}}
MCHistories == {Needs[t] : t \in Schema!Table} \cup {Schema!Table}

\* A release that changes one action and drops another one, and one that is broken.
MCReleases ==
    << [catalog |-> ("a1" :> 1) @@ ("a2" :> 1), valid |-> TRUE],
       [catalog |-> ("a1" :> 2) @@ ("a2" :> 0), valid |-> TRUE],
       [catalog |-> ("a1" :> 1) @@ ("a2" :> 1), valid |-> FALSE] >>

\* The workers are alike, and so are the processes and the paths.
Interchangeable == Permutations(Worker) \cup Permutations(Process) \cup Permutations(Path)
=============================================================================
