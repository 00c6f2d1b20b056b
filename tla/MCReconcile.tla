---- MODULE MCReconcile ----
(* A walk of a share, of two pieces of up to three files each; and node 1   *)
(* with node 2 beside it in either zone, or alone.  In node 1's own zone    *)
(* node 2 takes the first partition from it and leaves it the second.  The  *)
(* two share no state, so that they are explored one after the other: the   *)
(* node starts where a walk of pieces of one file has ended well.           *)
EXTENDS Vouching, Transfer
MCNode == 1 .. 2
MCPart == {"p", "q"}
MCScore == [p \in MCPart |-> [n \in MCNode |-> IF (p = "p") = (n = 2) THEN 1 ELSE 0]]

Walked == walk.at = "done" /\ Whole /\ \A i \in Piece : files[i] = 1
ReconcileNext ==
    \/ WalkNext /\ UNCHANGED vars
    \/ Next /\ Walked /\ UNCHANGED walkVars
ReconcileInit == Init /\ WalkInit
ReconcileSpec ==
    /\ ReconcileInit
    /\ [][ReconcileNext]_<<vars, walkVars>>
    /\ WF_walkVars(Asking) /\ \A i \in Piece : WF_walkVars(Taking(i))
    /\ WF_vars(Loop)
====
