------------------------------ MODULE Handover ------------------------------
(***************************************************************************)
(* One record moving between the nodes that are handed its partition       *)
(* (reconcile/reconcile.cpp: the fetch and the clear down of a pass), while *)
(* every node goes by the membership it last read, which no two nodes need *)
(* have in common.                                                         *)
(*                                                                         *)
(* A node holds one version of the record or none.  A call of its store is *)
(* one step here; what a write does to a call it lands in the middle of is *)
(* module Store's.                                                         *)
(***************************************************************************)
EXTENDS Partition

CONSTANTS
    P,          \* the partition of the record
    ZoneOf,     \* the zone each node is configured with
    MaxVersion, \* bound: versions written
    Torn        \* whether a membership may be read between holdings() and
                \* copies_of() of one walk

ASSUME HandoverAssumption ==
    /\ P \in Part
    /\ ZoneOf \in [Node -> Zone]
    /\ MaxVersion \in Nat
    /\ Torn \in BOOLEAN

VARIABLES
    listed,     \* listed[n], the nodes of the membership n goes by
    held,       \* held[n], the version in n's store, 0 for none
    pass        \* pass[n], where n's reconciling thread is

vars == <<listed, held, pass>>

\* The membership of node n as the code has it.
View(n) == [m \in listed[n] |-> ZoneOf[m]]
Alone(n) == Cardinality(listed[n]) < 2
Holds(n) == P \in HoldingsOf(View(n), n)

Idle == [at |-> "idle", asked |-> {}, from |-> 0, file |-> 0]

TypeOK ==
    /\ listed \in [Node -> SUBSET Node]
    /\ \A n \in Node : n \in listed[n]
    /\ held \in [Node -> 0 .. MaxVersion]
    /\ pass \in [Node -> [at : {"idle", "holders", "fetch", "take", "copies",
                               "ask", "clear"},
                         asked : SUBSET Node, from : Node \cup {0},
                         file : 0 .. MaxVersion]]
    /\ \A n \in Node : pass[n].at \in {"ask", "clear"} => pass[n].from \in Node

Init ==
    /\ listed = [n \in Node |-> {n}]
    /\ held = [n \in Node |-> 0]
    /\ pass = [n \in Node |-> Idle]
-----------------------------------------------------------------------------
(* Around the pass *)

\* Mutant of ReadMembers: the node is not put among them.
ReadOthers(n, S) ==
    /\ pass[n].at = "copies" => Torn
    /\ listed' = [listed EXCEPT ![n] = S]
    /\ UNCHANGED <<held, pass>>

\* The membership thread reads who is registered, and puts itself among them.
ReadMembers(n, S) ==
    /\ pass[n].at = "copies" => Torn
    /\ listed' = [listed EXCEPT ![n] = S \cup {n}]
    /\ UNCHANGED <<held, pass>>

\* write_record: a write reaches the node, in whatever order writes do.
Write(n, v) ==
    /\ v > held[n]
    /\ held' = [held EXCEPT ![n] = v]
    /\ UNCHANGED <<listed, pass>>
-----------------------------------------------------------------------------
(* The fetch *)

\* A pass of a node alone ends where it begins; one that does not hold the
\* partition asks nobody for it.
Begin(n) ==
    /\ pass[n].at = "idle"
    /\ ~Alone(n)
    /\ pass' = [pass EXCEPT ![n].at = IF Holds(n) THEN "holders" ELSE "fetch"]
    /\ UNCHANGED <<listed, held>>

\* holders(): by the membership there is by then.
ReadHolders(n) ==
    /\ pass[n].at = "holders"
    /\ pass' = [pass EXCEPT ![n].at = "fetch",
                            ![n].asked = IF Alone(n) THEN {}
                              ELSE {a[1] : a \in HoldersOf({P}, View(n), n, ZoneOf[n])}]
    /\ UNCHANGED <<listed, held>>

\* A holder answers with the file of what it holds, or does not answer.
Fetch(n, m) ==
    /\ pass[n].at = "fetch"
    /\ m \in pass[n].asked
    /\ \/ pass' = [pass EXCEPT ![n].at = "take", ![n].asked = @ \ {m},
                               ![n].file = held[m]]
       \/ pass' = [pass EXCEPT ![n].asked = @ \ {m}]
    /\ UNCHANGED <<listed, held>>

\* import_records keeps the later of the two.
Take(n) ==
    /\ pass[n].at = "take"
    /\ held' = [held EXCEPT ![n] = IF pass[n].file > @ THEN pass[n].file ELSE @]
    /\ pass' = [pass EXCEPT ![n].at = "fetch", ![n].file = 0]
    /\ UNCHANGED listed
-----------------------------------------------------------------------------
(* The clear down *)

EndPass(n) == pass' = [pass EXCEPT ![n] = Idle]

\* walk_table: only partitions the node does not hold are looked into.
Walk(n) ==
    /\ pass[n].at = "fetch"
    /\ pass[n].asked = {}
    /\ IF Holds(n) THEN EndPass(n) ELSE pass' = [pass EXCEPT ![n].at = "copies"]
    /\ UNCHANGED <<listed, held>>

\* Whom copies_of() names first: the owner in the node's own zone, unless that
\* is the node itself; then an owner of another zone.  Nobody where the node
\* is alone by now.
FirstCopy(n) ==
    LET near == OwnerOf(P, InZone(View(n), ZoneOf[n]))
    IN  IF Alone(n) THEN {}
        ELSE IF near # n THEN {near}
        ELSE OwnersOf(P, View(n)) \ {n}

\* walk_partition finds a record here, and whom to ask about it.
Copies(n) ==
    /\ pass[n].at = "copies"
    /\ IF held[n] = 0 \/ FirstCopy(n) = {} THEN EndPass(n)
       ELSE \E m \in FirstCopy(n) :
              pass' = [pass EXCEPT ![n].at = "ask", ![n].from = m]
    /\ UNCHANGED <<listed, held>>

\* The owner answers with the keys and versions it holds, or does not answer.
AskOwner(n) ==
    /\ pass[n].at = "ask"
    /\ \/ pass' = [pass EXCEPT ![n].at = "clear",
                               ![n].file = held[pass[n].from]]
       \/ EndPass(n)
    /\ UNCHANGED <<listed, held>>

\* Mutant of Displaced: any version of the owner's will do.
DisplacedByAny(n) == pass[n].file > 0

\* clear_records: the file has the record, and not an older one than is here.
Displaced(n) == pass[n].file > 0 /\ held[n] <= pass[n].file

Clear(n) ==
    /\ pass[n].at = "clear"
    /\ held' = [held EXCEPT ![n] = IF Displaced(n) THEN 0 ELSE @]
    /\ EndPass(n)
    /\ UNCHANGED listed

\* The pass throws, runs out of patience, or ends with its process.
Abandon(n) ==
    /\ pass[n].at # "idle"
    /\ EndPass(n)
    /\ UNCHANGED <<listed, held>>
-----------------------------------------------------------------------------
Step(n) ==
    \/ \E S \in SUBSET Node : ReadMembers(n, S)
    \/ \E v \in 1 .. MaxVersion : Write(n, v)
    \/ Begin(n) \/ ReadHolders(n) \/ Take(n)
    \/ \E m \in Node : Fetch(n, m)
    \/ Walk(n) \/ Copies(n) \/ AskOwner(n) \/ Clear(n) \/ Abandon(n)

Next == \E n \in Node : Step(n)

Spec == Init /\ [][Next]_vars
-----------------------------------------------------------------------------
\* "Deleting it because another zone still has one is a zone left holding
\* nothing" (doc/runbook/rebuild.md): whatever memberships the nodes go by, and
\* however their passes interleave, a version a node gives up stays with a node
\* of its zone, or a later one does.
ZoneKeepsNewest ==
    [][\A n \in Node : held'[n] < held[n] =>
         \E m \in Node : ZoneOf[m] = ZoneOf[n] /\ held'[m] >= held[n]]_vars
=============================================================================
