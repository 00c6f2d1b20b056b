---- MODULE MCExchange ----
(* Two calls, two processes to ask, four connections and a pool that keeps    *)
(* one.  A stream shares nothing with the calls, so that the two are explored *)
(* apart.                                                                     *)
EXTENDS Exchange

\* Staying is the filter of a sequence: on pools of up to four of three.
ASSUME \A n \in 0 .. 4 : \A conns \in [1 .. n -> 1 .. 3] : \A S \in SUBSET (1 .. 3) :
    Staying(conns, {k \in 1 .. n : conns[k] \in S}) = SelectSeq(conns, LAMBDA c : c \in S)

Symmetry == Permutations(Call)
Apart == stream = "none" \/ \A r \in Call : at[r] = "unmade"
ApartSpec == Init /\ [][Next /\ Apart']_vars
====
