---------------------------- MODULE MCPersister ----------------------------
(* Instances of Persister for TLC. *)
EXTENDS Persister, TLC

CONSTANTS c1, c2, p1, p2, e1, e2, e3

\* e1 and e2 are events of vehicles on p1, e3 of one on p2.
Placement == [e \in Events |-> IF e = e3 THEN p2 ELSE p1]

Symmetry == Permutations(Consumers)
=============================================================================
