----------------------------- MODULE Membership -----------------------------
(***************************************************************************)
(* The registered nodes coming and going one at a time, and what that does *)
(* to the placement of module Partition: the moves reconciling is built    *)
(* on.  A registration is written by register_node and disappears with     *)
(* the lease it was written on.                                            *)
(***************************************************************************)
EXTENDS Partition

VARIABLE registry    \* the registrations, a function from nodes to zones

RegistryTypeOK == registry \in Memberships

RegistryInit == registry = [n \in {} |-> CHOOSE z \in Zone : TRUE]

\* A node registers itself with the zone it was configured with.
RegisterNode(n, z) ==
    /\ n \notin DOMAIN registry
    /\ registry' = [m \in DOMAIN registry \cup {n} |->
                     IF m = n THEN z ELSE registry[m]]

\* The lease of a registration is revoked or runs out.
UnregisterNode(n) ==
    /\ n \in DOMAIN registry
    /\ registry' = [m \in DOMAIN registry \ {n} |-> registry[m]]

RegistryNext ==
    \E n \in Node :
        \/ \E z \in Zone : RegisterNode(n, z)
        \/ UnregisterNode(n)

RegistrySpec == RegistryInit /\ [][RegistryNext]_registry
-----------------------------------------------------------------------------
\* The node a membership names to lead a partition is one of those holding a
\* copy of it: lead_write relies on it ("the leader holds one, always",
\* doc/database/cluster.md), because owner_of is run over all nodes for the
\* leader and zone by zone for the copies.
LeaderHoldsCopy ==
    DOMAIN registry # {} =>
        \A p \in Part : LeaderOf(p, registry) \in OwnersOf(p, registry)

\* A node coming or going moves only what it gains or gives up: the copy of a
\* partition in a zone changes hands only to a node that came or from one that
\* went, in its own zone, and so does the lead.  This is why a pass of
\* reconcile has so little to move.
OnlyItsShareMoves ==
    [][\A p \in Part :
        /\ \A z \in ZonesIn(registry) \cap ZonesIn(registry)' :
             LET before == OwnerOf(p, InZone(registry, z))
                 after  == OwnerOf(p, InZone(registry', z))
             IN  before # after =>
                   \/ before \notin DOMAIN registry'
                   \/ after \notin DOMAIN registry
        /\ (DOMAIN registry # {} /\ DOMAIN registry' # {}) =>
             LET before == LeaderOf(p, registry)
                 after  == LeaderOf(p, registry')
             IN  before # after =>
                   \/ before \notin DOMAIN registry'
                   \/ after \notin DOMAIN registry
      ]_registry

\* A node that is handed a partition by joining asks, among others, the very
\* node that held it in this zone until then: holders_of leaves the asking
\* node out so that the hashing names the previous holder (the comment in
\* holders_of, partition.cpp).
PreviousHolderIsAsked ==
    [][\A n \in DOMAIN registry' \ DOMAIN registry, p \in Part :
         LET z == registry'[n]
         IN  (z \in ZonesIn(registry) /\ n \in OwnersOf(p, registry')) =>
               <<OwnerOf(p, InZone(registry, z)), p>>
                 \in HoldersOf({p}, registry', n, z)
      ]_registry

\* The one pass of owner_of finds the same node in whatever order the nodes
\* are listed, so nodes that list them differently still agree.
LoopFindsOwner ==
    DOMAIN registry # {} =>
        \A p \in Part, listed \in SetToSeqs(DOMAIN registry) :
            OwnerLoop(p, listed) = OwnerOf(p, DOMAIN registry)
=============================================================================
