---- MODULE MCStore ----
(* Versions of two terms, the first with two counts, so that both ways of   *)
(* being newer are there; files with each of the two keys and with both.    *)
(* The records of a store and its counts share nothing, so that the two are *)
(* explored apart.  Threads are interchangeable.                            *)
EXTENDS Store, Counts, TLC
V(t, c) == [term |-> t, count |-> c]
MCVersion == {V(1, 1), V(1, 2), V(2, 1)}
MCFile ==
    {[k \in Key |-> IF k \in S THEN v ELSE NoRecord] :
        S \in SUBSET Key \ {{}}, v \in {V(1, 2), V(2, 1)}}
Symmetry == Permutations(Thread)

Apart == written = 0 \/ (remembered = 0 /\ \A t \in Thread : at[t] = "idle")
ApartNext ==
    /\ \/ Next /\ UNCHANGED countsVars
       \/ CountsNext /\ UNCHANGED vars
    /\ Apart'
ApartInit == Init /\ CountsInit
ApartSpec == ApartInit /\ [][ApartNext]_<<vars, countsVars>>
====
