---- MODULE MCSchema ----
(* A create beside a delete, and beside a create with another document.     *)
(* Nodes are interchangeable.                                               *)
EXTENDS Schema, TLC
MCRequests == {("a" :> "doc" @@ "b" :> t) : t \in {NoTable, "other"}}
Symmetry == Permutations(Node)
====
