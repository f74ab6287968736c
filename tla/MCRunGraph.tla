----------------------------- MODULE MCRunGraph -----------------------------
(* Instances of RunGraph.                                                  *)
EXTENDS RunGraph

\* Two roots, of which the second has a dependent: a failure of the first
\* meets a branch that does not depend on it.
MCParents == [n \in 1 .. 3 |-> IF n = 3 THEN {2} ELSE {}]

\* One edge.
MCChain == [n \in 1 .. 2 |-> IF n = 2 THEN {1} ELSE {}]
=============================================================================
