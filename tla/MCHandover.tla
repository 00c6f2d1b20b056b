---- MODULE MCHandover ----
(* Three nodes of one zone, the later named scoring the partition higher. *)
EXTENDS Handover
MCNode == 1 .. 3
MCZoneOf == [n \in Node |-> "a"]
MCScore == [p \in Part |-> [n \in Node |-> n]]
====
