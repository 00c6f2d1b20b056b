---- MODULE MCEtcdCluster ----
(* Nodes 1, 2 and 3 of one partition, each scoring it by its name: 3 is     *)
(* named whenever it is registered, and 2 otherwise.  Node 1 is there so    *)
(* that either of them alone still finds a membership of two.  The request  *)
(* threads are node 3's.                                                    *)
EXTENDS EtcdCluster
MCNode == 1 .. 3
MCScore == [p \in {P} |-> [n \in MCNode |-> n]]
MCHost == [t \in Thread |-> 3]
\* Nodes 2 and 3 trade the claim; or 3 is alone with an etcd that is silent,
\* or with everything that may go wrong.
World(f, q, c) ==
    [faults |-> f, orderly |-> f \cap Disorder = {}, quiet |-> q, claims |-> c]
MCWorlds == {World({"reboot"}, {1}, 2), World({"silent", "reboot"}, {1, 2}, 3),
             World(FaultKinds, {1, 2}, 3)}
MCRaceWorlds == {World({"race"}, {1}, 3)}
====
