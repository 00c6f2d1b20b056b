---- MODULE MCReads ----
(* Two copies and a node that holds none, three keys and two deaths.  The     *)
(* instances all draw the same name: std::rand() is never seeded.             *)
EXTENDS Reads
Between(lo, hi, reverse) ==
    [task |-> "scan", lo |-> lo, hi |-> hi, reverse |-> reverse, limit |-> 2]
MCTasks ==
    {[task |-> "get", key |-> 1]}
        \cup {Between(1, 4, reverse) : reverse \in BOOLEAN} \cup {Between(2, 4, FALSE)}
        \cup [task : {"walk"}, source : {CHOOSE n \in Copies : TRUE}, points : {{}, {2}, {1, 2}}]
====
