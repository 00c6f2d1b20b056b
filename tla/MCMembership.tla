---- MODULE MCMembership ----
(* Four nodes, three zones, and one partition for every way the nodes can   *)
(* score it with the values 0..2, ties included.                            *)
EXTENDS Membership
MCNode == 1 .. 4
MCMaxScore == 2
MCPart == [MCNode -> 0 .. MCMaxScore]
MCScore == [p \in MCPart |-> p]
====
