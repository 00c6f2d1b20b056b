------------------------------ MODULE Partition ------------------------------
(***************************************************************************)
(* Where a partition lives (cluster/partition.cpp).  Every node scores     *)
(* every partition; a partition has one copy per zone, at the node of the  *)
(* zone that scores it highest, and it is led by the node that scores it   *)
(* highest of all.  Nothing here is state: the placement is a function of  *)
(* the membership alone, and every node computes it for itself.            *)
(*                                                                         *)
(* A membership is a function from the registered nodes to their zones,    *)
(* which is the vector of cluster::member the code keeps (one registration *)
(* key per node in etcd, so a node is listed once).                        *)
(***************************************************************************)
EXTENDS Naturals, FiniteSets, SequencesExt

CONSTANTS
    Node,       \* node names; only their order is used, so they are naturals
    Zone,       \* availability zones
    Part,       \* the partitions (256 in the code)
    Score,      \* Score[p][n], the hash of a node and a partition's name
    MaxScore    \* the largest score, 2^64 - 1 in the code

ASSUME NodesAreOrdered == Node \subseteq Nat
ASSUME ScoreIsBounded ==
    /\ MaxScore \in Nat
    /\ Score \in [Part -> [Node -> 0 .. MaxScore]]

\* Every membership that may be read out of etcd.
Memberships == UNION {[S -> Zone] : S \in SUBSET Node}

\* One step of the loop of owner_of: node n displaces the best node so far.
Displaces(p, n, best) ==
    \/ Score[p][n] > Score[p][best]
    \/ Score[p][n] = Score[p][best] /\ n < best

\* Mutant of OwnerOf: the nodes counted off, as a hash modulo their number does.
OwnerByCount(p, nodes) ==
    CHOOSE n \in nodes :
        Cardinality({m \in nodes : m < n})
          = Score[p][CHOOSE m \in nodes : TRUE] % Cardinality(nodes)

\* owner_of as what it finds: the node no other node of the set displaces.
OwnerOf(p, nodes) ==
    CHOOSE n \in nodes : \A m \in nodes : ~Displaces(p, m, n)

\* Mutant of OwnerLoop: the first of two equal scores stands.
FirstOwnerLoop(p, listed) ==
    LET best[i \in 1 .. Len(listed)] ==
          IF i = 1 THEN listed[1]
          ELSE IF Score[p][listed[i]] > Score[p][best[i - 1]] THEN listed[i] ELSE best[i - 1]
    IN  best[Len(listed)]

\* owner_of as it looks: one pass over the nodes in the order they are listed, the
\* first of them taken as it comes.
OwnerLoop(p, listed) ==
    LET best[i \in 1 .. Len(listed)] ==
          IF i = 1 THEN listed[1]
          ELSE IF Displaces(p, listed[i], best[i - 1]) THEN listed[i] ELSE best[i - 1]
    IN  best[Len(listed)]

\* The nodes a membership lists in one zone.
InZone(members, z) == {n \in DOMAIN members : members[n] = z}

\* The zones a membership has nodes in.
ZonesIn(members) == {members[n] : n \in DOMAIN members}

\* owners_of: the nodes holding a copy, one per zone.
OwnersOf(p, members) ==
    {OwnerOf(p, InZone(members, z)) : z \in ZonesIn(members)}

\* Mutant of LeaderOf: the first node by name.
FirstNamed(p, members) ==
    CHOOSE n \in DOMAIN members : \A m \in DOMAIN members : n <= m

\* leader_of: the same hashing over every node of every zone.
LeaderOf(p, members) == OwnerOf(p, DOMAIN members)

\* Mutant of ZonesOf: the node is left in its own zone.
ZonesWithSelf(members, self, zone) ==
    {InZone(members, z) : z \in (ZonesIn(members) \cup {zone})}

\* zones_of: the other nodes, zone by zone.  The node's own zone is always
\* among them, without the node itself, even when that leaves it empty.
ZonesOf(members, self, zone) ==
    {InZone(members, z) \ {self} : z \in (ZonesIn(members) \cup {zone})}

\* holders_in: which of the nodes holds each of the partitions asked about; a
\* zone of no nodes holds none.
HoldersIn(parts, nodes) ==
    IF nodes = {} THEN {} ELSE {<<OwnerOf(p, nodes), p>> : p \in parts}

\* holders_of: whom to ask for the partitions, in every zone.
HoldersOf(parts, members, self, zone) ==
    UNION {HoldersIn(parts, nodes) : nodes \in ZonesOf(members, self, zone)}

\* copies_of: where a write to a partition goes when ordered at node self.  A
\* membership of fewer than two nodes is the node standing alone.
CopiesOf(p, members, self) ==
    IF Cardinality(DOMAIN members) < 2 THEN {self} ELSE OwnersOf(p, members)

\* holdings_of: the partitions a node holds under a membership.
HoldingsOf(members, self) ==
    IF Cardinality(DOMAIN members) < 2
    THEN Part
    ELSE {p \in Part : self \in OwnersOf(p, members)}
=============================================================================
