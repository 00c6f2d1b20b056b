----------------------------- MODULE Leadership -----------------------------
(***************************************************************************)
(* What leadership promises the writes of a partition, and no more: terms  *)
(* are issued one after another, each to one node; only that node orders   *)
(* writes in it; a node takes a write ordered elsewhere only in a term no  *)
(* older than the newest it has seen, its fence; and a node that starts    *)
(* again is fenced by the newest term its store kept.                      *)
(*                                                                         *)
(* How a term is claimed, heard of and lost is EtcdCluster's, and what is  *)
(* done with the writes WritePath's: each is shown to implement this.      *)
(***************************************************************************)
EXTENDS Naturals, Sequences

CONSTANT Node

VARIABLES
    issued,     \* issued[t]: the node term t was issued to
    fence,      \* the newest term each node refuses older writes by
    kept,       \* the newest term of a record in each node's store
    ordered     \* <<n, t>>: node n has ordered writes in term t

vars == <<issued, fence, kept, ordered>>

Init ==
    /\ issued = <<>>
    /\ fence = [n \in Node |-> 0]
    /\ kept = [n \in Node |-> 0]
    /\ ordered = {}

\* f with the value at n raised to t, or left where it is.
Raised(f, n, t) == [f EXCEPT ![n] = IF t > @ THEN t ELSE @]

\* The next term is issued; its node may hear of it later.
Issue(n) ==
    /\ issued' = Append(issued, n)
    /\ fence' \in {fence, Raised(fence, n, Len(issued) + 1)}
    /\ UNCHANGED <<kept, ordered>>

\* A node hears that a term was issued to it.
Hear(n, t) ==
    /\ issued[t] = n
    /\ fence' = Raised(fence, n, t)
    /\ UNCHANGED <<issued, kept, ordered>>

\* A node orders a write in a term of its own, and keeps the record if it has a
\* copy.
Order(n, t) ==
    /\ issued[t] = n
    /\ ordered' = ordered \cup {<<n, t>>}
    /\ fence' \in {fence, Raised(fence, n, t)}
    /\ kept' \in {kept, Raised(kept, n, t)}
    /\ UNCHANGED issued

\* A write ordered in term t passes the fence of a node, which keeps the record
\* then or later.
Take(n, t) ==
    /\ \E m \in Node : <<m, t>> \in ordered
    /\ t >= fence[n]
    /\ fence' = Raised(fence, n, t)
    /\ kept' \in {kept, Raised(kept, n, t)}
    /\ UNCHANGED <<issued, ordered>>

\* A record that passed the fence, or was ordered here, is kept.
Keep(n, t) ==
    /\ \E m \in Node : <<m, t>> \in ordered
    /\ kept' = Raised(kept, n, t)
    /\ t <= fence[n]
    /\ UNCHANGED <<issued, fence, ordered>>

\* A node starts again.
Restore(n) ==
    /\ fence' = [fence EXCEPT ![n] = kept[n]]
    /\ UNCHANGED <<issued, kept, ordered>>

\* Most steps of an implementation change nothing here, which is listed first.
Next ==
    \/ UNCHANGED vars
    \/ \E n \in Node : Issue(n) \/ Restore(n)
    \/ \E n \in Node, t \in 1 .. Len(issued) :
         Hear(n, t) \/ Order(n, t) \/ Take(n, t) \/ Keep(n, t)

Spec == Init /\ [][Next]_vars
=============================================================================
