---- MODULE MCWritePath ----
(* Nodes n1 and n2 hold the copies of the key; n3 may lead without one, and *)
(* is what CHOOSE takes for the node of a write nobody has routed.          *)
EXTENDS WritePath, TLC
CONSTANTS n3, n1, n2
ASSUME UnroutedAssumption == n3 = CHOOSE n \in Node : TRUE
Symmetry == Permutations(Write) \cup Permutations(Copies)
====
