--------------------------- MODULE PartitionProofs ---------------------------
(***************************************************************************)
(* The placement facts of module Membership, for every set of nodes, every *)
(* set of zones and every scoring, and the facts about owner_of that they  *)
(* and the proofs of reconciling rest on: whatever the scores, exactly one *)
(* node of a non-empty set is displaced by no other.                       *)
(***************************************************************************)
EXTENDS Membership, WellFoundedInduction, FiniteSetTheorems, TLAPS

(* A non-empty set of naturals has a least element. *)
LEMMA LeastNatural ==
    ASSUME NEW S \in SUBSET Nat, S # {}
    PROVE  \E x \in S : \A y \in S : x <= y
  <1> DEFINE R == OpToRel(<, Nat)
  <1>1. IsWellFoundedOn(R, Nat)
    BY NatLessThanWellFounded
  <1>2. PICK x \in S : \A y \in S : ~(<<y, x>> \in R)
    <2> HIDE DEF R
    <2> QED BY <1>1, WFMin
  <1>3. ASSUME NEW y \in S PROVE x <= y
    <2>1. x \in Nat /\ y \in Nat
      OBVIOUS
    <2>2. ~(y < x)
      BY <1>2, <2>1, Zenon DEF OpToRel
    <2> QED BY <2>1, <2>2
  <1> QED BY <1>3

(* Scores are naturals no larger than the largest. *)
LEMMA ScoreType ==
    ASSUME NEW p \in Part, NEW n \in Node
    PROVE  Score[p][n] \in Nat /\ Score[p][n] <= MaxScore
  BY ScoreIsBounded

(* Displacing is a strict total order on the nodes, for one partition. *)
LEMMA DisplacesOrder ==
    ASSUME NEW p \in Part, NEW m \in Node, NEW n \in Node,
           ~Displaces(p, m, n), ~Displaces(p, n, m)
    PROVE  m = n
  BY NodesAreOrdered, ScoreType DEF Displaces

(* owner_of names a node of the set it was given, displaced by no other. *)
LEMMA OwnerExists ==
    ASSUME NEW p \in Part, NEW nodes \in SUBSET Node, nodes # {}
    PROVE  /\ OwnerOf(p, nodes) \in nodes
           /\ \A m \in nodes : ~Displaces(p, m, OwnerOf(p, nodes))
  <1> DEFINE Short == {MaxScore - Score[p][n] : n \in nodes}
  <1>1. Short \in SUBSET Nat /\ Short # {}
    BY ScoreIsBounded, ScoreType
  <1>2. PICK d \in Short : \A e \in Short : d <= e
    BY <1>1, LeastNatural
  <1>3. PICK top \in nodes : d = MaxScore - Score[p][top]
    BY <1>2
  <1>4. ASSUME NEW n \in nodes PROVE Score[p][n] <= Score[p][top]
    <2>1. d <= MaxScore - Score[p][n]
      BY <1>2
    <2>2. /\ MaxScore \in Nat
          /\ Score[p][n] \in Nat
          /\ Score[p][top] \in Nat
      BY ScoreIsBounded, ScoreType
    <2> HIDE DEF Short
    <2> QED BY <1>3, <2>1, <2>2
  <1> HIDE DEF Short
  <1> DEFINE Best == {n \in nodes : Score[p][n] = Score[p][top]}
  <1>5. Best \in SUBSET Nat /\ Best # {}
    BY NodesAreOrdered
  <1>6. PICK first \in Best : \A n \in Best : first <= n
    BY <1>5, LeastNatural
  <1>7. ASSUME NEW m \in nodes PROVE ~Displaces(p, m, first)
    BY <1>4, <1>6, NodesAreOrdered, ScoreType DEF Displaces
  <1>8. \E n \in nodes : \A m \in nodes : ~Displaces(p, m, n)
    BY <1>6, <1>7
  <1> QED BY <1>8 DEF OwnerOf

(* A node of the set that no other displaces is the one owner_of names. *)
LEMMA OwnerIsUnique ==
    ASSUME NEW p \in Part, NEW nodes \in SUBSET Node, NEW n \in nodes,
           \A m \in nodes : ~Displaces(p, m, n)
    PROVE  OwnerOf(p, nodes) = n
  <1>1. /\ OwnerOf(p, nodes) \in nodes
        /\ \A m \in nodes : ~Displaces(p, m, OwnerOf(p, nodes))
    BY OwnerExists
  <1> QED BY <1>1, DisplacesOrder

(* Two sets whose owners are both in both have the same owner. *)
LEMMA OwnerIsStable ==
    ASSUME NEW p \in Part, NEW S \in SUBSET Node, NEW T \in SUBSET Node,
           S # {}, T # {}, OwnerOf(p, S) \in T, OwnerOf(p, T) \in S
    PROVE  OwnerOf(p, S) = OwnerOf(p, T)
  <1>1. /\ OwnerOf(p, S) \in S
        /\ \A m \in S : ~Displaces(p, m, OwnerOf(p, S))
    BY OwnerExists
  <1>2. /\ OwnerOf(p, T) \in T
        /\ \A m \in T : ~Displaces(p, m, OwnerOf(p, T))
    BY OwnerExists
  <1> QED BY <1>1, <1>2, DisplacesOrder

(* The nodes of a membership, and of one zone of it, are nodes. *)
LEMMA MembershipType ==
    ASSUME NEW M \in Memberships
    PROVE  /\ DOMAIN M \in SUBSET Node
           /\ \A n \in DOMAIN M : M[n] \in Zone
           /\ \A z : InZone(M, z) \in SUBSET Node
           /\ \A z \in ZonesIn(M) : InZone(M, z) # {}
  BY DEF Memberships, InZone, ZonesIn

(* A node that displaces one displacing a third displaces the third. *)
LEMMA DisplacesTransitive ==
    ASSUME NEW p \in Part, NEW l \in Node, NEW m \in Node, NEW n \in Node,
           Displaces(p, l, m), Displaces(p, m, n)
    PROVE  Displaces(p, l, n)
  BY NodesAreOrdered, ScoreType DEF Displaces

(* No node displaces itself. *)
LEMMA DisplacesIrreflexive ==
    ASSUME NEW p \in Part, NEW n \in Node
    PROVE  ~Displaces(p, n, n)
  BY NodesAreOrdered, ScoreType DEF Displaces

(* Every pair holders_of answers is another node and a partition asked for. *)
LEMMA HoldersType ==
    ASSUME NEW parts \in SUBSET Part, NEW M \in Memberships,
           NEW self \in Node, NEW zone \in Zone
    PROVE  HoldersOf(parts, M, self, zone) \in SUBSET (Node \X parts)
  <1>1. ASSUME NEW nodes \in ZonesOf(M, self, zone)
        PROVE  HoldersIn(parts, nodes) \in SUBSET (Node \X parts)
    <2>1. nodes \in SUBSET Node
      BY MembershipType DEF ZonesOf
    <2>2. ASSUME nodes # {}, NEW p \in parts
          PROVE  OwnerOf(p, nodes) \in Node
      BY <2>1, <2>2, OwnerExists
    <2> QED BY <2>2 DEF HoldersIn
  <1> QED BY <1>1 DEF HoldersOf
-----------------------------------------------------------------------------
(* Registrations coming and going keep the list a membership. *)
THEOREM RegistryTypeCorrect == RegistrySpec => []RegistryTypeOK
  <1>1. RegistryInit => RegistryTypeOK
    <2> SUFFICES ASSUME RegistryInit PROVE registry \in [{} -> Zone]
      BY DEF RegistryTypeOK, Memberships
    <2> QED BY DEF RegistryInit
  <1>2. RegistryTypeOK /\ [RegistryNext]_registry => RegistryTypeOK'
    <2> SUFFICES ASSUME RegistryTypeOK, [RegistryNext]_registry PROVE RegistryTypeOK'
      OBVIOUS
    <2>0. DOMAIN registry \in SUBSET Node /\ \A n \in DOMAIN registry : registry[n] \in Zone
      BY MembershipType DEF RegistryTypeOK
    <2>1. ASSUME NEW n \in Node, NEW z \in Zone, RegisterNode(n, z) PROVE RegistryTypeOK'
      <3>1. registry' \in [DOMAIN registry \cup {n} -> Zone]
        BY <2>0, <2>1 DEF RegisterNode
      <3> QED BY <3>1, <2>0 DEF RegistryTypeOK, Memberships
    <2>2. ASSUME NEW n \in Node, UnregisterNode(n) PROVE RegistryTypeOK'
      <3>1. registry' \in [DOMAIN registry \ {n} -> Zone]
        BY <2>0, <2>2 DEF UnregisterNode
      <3> QED BY <3>1, <2>0 DEF RegistryTypeOK, Memberships
    <2>3. CASE UNCHANGED registry
      BY <2>3 DEF RegistryTypeOK
    <2> QED BY <2>1, <2>2, <2>3 DEF RegistryNext
  <1> QED BY <1>1, <1>2, PTL DEF RegistrySpec

(* The node named to lead a partition holds a copy of it, whatever the     *)
(* scores: nothing displaces it in the whole membership, and so nothing    *)
(* displaces it in its own zone.                                           *)
THEOREM LeaderIsAnOwner == RegistrySpec => []LeaderHoldsCopy
  <1>1. RegistryTypeOK => LeaderHoldsCopy
    <2> SUFFICES ASSUME registry \in Memberships, DOMAIN registry # {},
                        NEW p \in Part
                 PROVE  LeaderOf(p, registry) \in OwnersOf(p, registry)
      BY DEF RegistryTypeOK, LeaderHoldsCopy
    <2> DEFINE l == LeaderOf(p, registry)
    <2>1. /\ l \in DOMAIN registry
          /\ \A m \in DOMAIN registry : ~Displaces(p, m, l)
      BY OwnerExists, MembershipType DEF LeaderOf
    <2>2. /\ registry[l] \in ZonesIn(registry)
          /\ l \in InZone(registry, registry[l])
          /\ InZone(registry, registry[l]) \subseteq DOMAIN registry
      BY <2>1 DEF ZonesIn, InZone
    <2>3. OwnerOf(p, InZone(registry, registry[l])) = l
      BY <2>1, <2>2, MembershipType, OwnerIsUnique
    <2> QED BY <2>2, <2>3 DEF OwnersOf
  <1> QED BY <1>1, RegistryTypeCorrect, PTL

(* A node that stays keeps its zone. *)
LEMMA ZonesAreKept ==
    ASSUME RegistryTypeOK, RegistryNext, NEW n \in DOMAIN registry, n \in DOMAIN registry'
    PROVE  registry'[n] = registry[n]
  BY MembershipType DEF RegistryTypeOK, RegistryNext, RegisterNode, UnregisterNode

(* A copy, or the lead, changes hands only to a node that came or from one *)
(* that went: two owners each present on both sides of the step are one.   *)
THEOREM OnlyOwnShareMoves == RegistrySpec => OnlyItsShareMoves
  <1> DEFINE Same(before, after) ==
        before # after => \/ before \notin DOMAIN registry'
                          \/ after \notin DOMAIN registry
  <1>1. ASSUME RegistryTypeOK, RegistryTypeOK', RegistryNext, NEW p \in Part,
               NEW z \in ZonesIn(registry) \cap ZonesIn(registry')
        PROVE  Same(OwnerOf(p, InZone(registry, z)), OwnerOf(p, InZone(registry', z)))
    <2> DEFINE a == OwnerOf(p, InZone(registry, z))
               b == OwnerOf(p, InZone(registry', z))
    <2>1. /\ InZone(registry, z) \in SUBSET Node /\ InZone(registry, z) # {}
          /\ InZone(registry', z) \in SUBSET Node /\ InZone(registry', z) # {}
      BY <1>1, MembershipType DEF RegistryTypeOK
    <2>2. a \in InZone(registry, z) /\ b \in InZone(registry', z)
      BY <2>1, OwnerExists
    <2>3. SUFFICES ASSUME a \in DOMAIN registry', b \in DOMAIN registry
                   PROVE  a = b
      OBVIOUS
    <2>4. a \in InZone(registry', z) /\ b \in InZone(registry, z)
      BY <1>1, <2>2, <2>3, ZonesAreKept DEF InZone
    <2> QED BY <2>1, <2>4, OwnerIsStable
  <1>2. ASSUME RegistryTypeOK, RegistryTypeOK', NEW p \in Part,
               DOMAIN registry # {}, DOMAIN registry' # {}
        PROVE  Same(LeaderOf(p, registry), LeaderOf(p, registry'))
    BY <1>2, MembershipType, OwnerIsStable DEF RegistryTypeOK, LeaderOf
  <1>3. RegistryTypeOK /\ RegistryTypeOK' /\ [RegistryNext]_registry =>
          [\A p \in Part :
             /\ \A z \in ZonesIn(registry) \cap ZonesIn(registry)' :
                  Same(OwnerOf(p, InZone(registry, z)), OwnerOf(p, InZone(registry', z)))
             /\ (DOMAIN registry # {} /\ DOMAIN registry' # {}) =>
                  Same(LeaderOf(p, registry), LeaderOf(p, registry'))]_registry
    <2> SUFFICES ASSUME RegistryTypeOK, RegistryTypeOK', RegistryNext, NEW p \in Part
                 PROVE
             /\ \A z \in ZonesIn(registry) \cap ZonesIn(registry)' :
                  Same(OwnerOf(p, InZone(registry, z)), OwnerOf(p, InZone(registry', z)))
             /\ (DOMAIN registry # {} /\ DOMAIN registry' # {}) =>
                  Same(LeaderOf(p, registry), LeaderOf(p, registry'))
      OBVIOUS
    <2>1. ZonesIn(registry)' = ZonesIn(registry')
      BY DEF ZonesIn
    <2> HIDE DEF Same
    <2> QED BY <1>1, <1>2, <2>1
  <1> QED BY <1>3, RegistryTypeCorrect, PTL DEF RegistrySpec, OnlyItsShareMoves

(* Without itself, what is left of the zone of a node that has just joined *)
(* is the zone as it was, so the node asked there is the previous holder.  *)
THEOREM PreviousHolderAsked == RegistrySpec => PreviousHolderIsAsked
  <1>1. ASSUME RegistryTypeOK, RegistryTypeOK', RegistryNext,
               NEW n \in DOMAIN registry' \ DOMAIN registry, NEW p \in Part,
               registry'[n] \in ZonesIn(registry)
        PROVE  <<OwnerOf(p, InZone(registry, registry'[n])), p>>
                 \in HoldersOf({p}, registry', n, registry'[n])
    <2> DEFINE z == registry'[n]
               left == InZone(registry', z) \ {n}
    <2>1. left = InZone(registry, z)
      <3>1. PICK zz \in Zone : RegisterNode(n, zz)
        <4>1. ASSUME NEW m \in Node, UnregisterNode(m) PROVE FALSE
          BY <1>1, <4>1 DEF UnregisterNode
        <4>2. ASSUME NEW m \in Node, NEW y \in Zone, RegisterNode(m, y) PROVE n = m
          BY <1>1, <4>2 DEF RegisterNode
        <4> QED BY <1>1, <4>1, <4>2 DEF RegistryNext
      <3> QED BY <3>1, <1>1 DEF RegisterNode, InZone
    <2>2. left # {}
      BY <1>1, <2>1, MembershipType DEF RegistryTypeOK
    <2>3. left \in ZonesOf(registry', n, z)
      BY DEF ZonesOf
    <2>4. <<OwnerOf(p, left), p>> \in HoldersIn({p}, left)
      BY <2>2 DEF HoldersIn
    <2> HIDE DEF left, z
    <2> QED BY <2>1, <2>3, <2>4 DEF HoldersOf, z
  <1>2. RegistryTypeOK /\ RegistryTypeOK' /\ [RegistryNext]_registry =>
          [\A n \in DOMAIN registry' \ DOMAIN registry, p \in Part :
             LET z == registry'[n]
             IN  (z \in ZonesIn(registry) /\ n \in OwnersOf(p, registry')) =>
                   <<OwnerOf(p, InZone(registry, z)), p>>
                     \in HoldersOf({p}, registry', n, z)]_registry
    BY <1>1
  <1> QED BY <1>2, RegistryTypeCorrect, PTL DEF RegistrySpec, PreviousHolderIsAsked
-----------------------------------------------------------------------------
(* The best of one node more: it is the new one, or it stays. *)
LEMMA OneMore ==
    ASSUME NEW p \in Part, NEW nodes \in SUBSET Node, nodes # {}, NEW n \in Node
    PROVE  OwnerOf(p, nodes \cup {n})
             = IF Displaces(p, n, OwnerOf(p, nodes)) THEN n ELSE OwnerOf(p, nodes)
  <1> DEFINE best == OwnerOf(p, nodes)
  <1>1. best \in nodes /\ \A m \in nodes : ~Displaces(p, m, best)
    BY OwnerExists
  <1> HIDE DEF best
  <1>2. CASE Displaces(p, n, best)
    <2>1. ASSUME NEW m \in nodes PROVE ~Displaces(p, m, n)
      BY <1>1, <1>2, DisplacesTransitive
    <2>2. \A m \in nodes \cup {n} : ~Displaces(p, m, n)
      BY <2>1, DisplacesIrreflexive
    <2>3. OwnerOf(p, nodes \cup {n}) = n
      BY <2>2, OwnerIsUnique
    <2> QED BY <1>2, <2>3 DEF best
  <1>3. CASE ~Displaces(p, n, best)
    <2>1. \A m \in nodes \cup {n} : ~Displaces(p, m, best)
      BY <1>1, <1>3
    <2>2. OwnerOf(p, nodes \cup {n}) = best
      BY <1>1, <2>1, OwnerIsUnique
    <2> QED BY <1>3, <2>2 DEF best
  <1> QED BY <1>2, <1>3

(* What the loop has come to at each position of the list.  The function   *)
(* that names the owner of the nodes listed so far steps as the loop does, *)
(* and no other does, for the first position where another differed would  *)
(* step from the same node to another.                                     *)
LEMMA LoopFindsBest ==
    ASSUME NEW p \in Part, NEW N \in Nat, N # 0, NEW listed \in [1 .. N -> Node],
           NEW best, best[1] = listed[1],
           \A i \in 2 .. N :
             best[i] = IF Displaces(p, listed[i], best[i - 1]) THEN listed[i] ELSE best[i - 1]
    PROVE  best[N] = OwnerOf(p, {listed[i] : i \in 1 .. N})
  <1> DEFINE upto(i) == {listed[j] : j \in 1 .. i}
             wrong == {i \in 1 .. N : best[i] # OwnerOf(p, upto(i))}
  <1>1. SUFFICES ASSUME wrong # {} PROVE FALSE
    <2>1. N \in 1 .. N
      OBVIOUS
    <2> QED BY <1>1, <2>1
  <1>2. wrong \in SUBSET Nat
    OBVIOUS
  <1>3. PICK i \in wrong : \A j \in wrong : i <= j
    BY <1>1, <1>2, LeastNatural
  <1>4. i \in 1 .. N /\ best[i] # OwnerOf(p, upto(i))
    BY <1>3
  <1>5. CASE i = 1
    <2>1. upto(1) = {listed[1]} /\ listed[1] \in Node
      OBVIOUS
    <2>2. OwnerOf(p, upto(1)) = listed[1]
      <3>1. \A m \in {listed[1]} : ~Displaces(p, m, listed[1])
        BY <2>1, DisplacesIrreflexive
      <3> QED BY <2>1, <3>1, OwnerIsUnique
    <2>3. best[1] = listed[1]
      OBVIOUS
    <2> QED BY <1>4, <1>5, <2>2, <2>3
  <1>6. CASE i # 1
    <2>1. i - 1 \in 1 .. N /\ ~(i <= i - 1)
      BY <1>4, <1>6
    <2>2. best[i - 1] = OwnerOf(p, upto(i - 1))
      BY <1>3, <2>1
    <2>3. upto(i) = upto(i - 1) \cup {listed[i]}
      <3>1. 1 .. i = 1 .. (i - 1) \cup {i}
        BY <1>4
      <3> QED BY <3>1
    <2>4. upto(i - 1) \in SUBSET Node /\ upto(i - 1) # {} /\ listed[i] \in Node
      <3>1. 1 .. (i - 1) \subseteq 1 .. N /\ 1 \in 1 .. (i - 1)
        BY <1>4, <1>6
      <3> QED BY <1>4, <3>1
    <2>5. best[i] = IF Displaces(p, listed[i], best[i - 1]) THEN listed[i] ELSE best[i - 1]
      <3>1. i \in 2 .. N
        BY <1>4, <1>6
      <3> QED BY <3>1
    <2> DEFINE before == upto(i - 1)
    <2> HIDE DEF upto
    <2>6. OwnerOf(p, upto(i))
            = IF Displaces(p, listed[i], best[i - 1]) THEN listed[i] ELSE best[i - 1]
      <3>1. /\ before \in SUBSET Node /\ before # {}
            /\ upto(i) = before \cup {listed[i]} /\ best[i - 1] = OwnerOf(p, before)
        BY <2>2, <2>3, <2>4
      <3> HIDE DEF before
      <3> QED BY <2>4, <3>1, OneMore
    <2> QED BY <1>4, <2>5, <2>6
  <1> QED BY <1>5, <1>6

LEMMA LoopExists ==
    ASSUME NEW p \in Part, NEW N \in Nat, N # 0, NEW listed \in [1 .. N -> Node]
    PROVE  \E best : best = [i \in 1 .. N |->
                               IF i = 1 THEN listed[1]
                               ELSE IF Displaces(p, listed[i], best[i - 1]) THEN listed[i]
                               ELSE best[i - 1]]
  <1> DEFINE upto(i) == {listed[j] : j \in 1 .. i}
             found == [i \in 1 .. N |-> OwnerOf(p, upto(i))]
             step(i) == IF i = 1 THEN listed[1]
                        ELSE IF Displaces(p, listed[i], found[i - 1]) THEN listed[i]
                        ELSE found[i - 1]
  <1>1. ASSUME NEW i \in 1 .. N PROVE OwnerOf(p, upto(i)) = step(i)
    <2>1. CASE i = 1
      <3>1. upto(1) = {listed[1]} /\ listed[1] \in Node
        OBVIOUS
      <3>2. OwnerOf(p, upto(1)) = listed[1]
        <4>1. \A m \in {listed[1]} : ~Displaces(p, m, listed[1])
          BY <3>1, DisplacesIrreflexive
        <4> QED BY <3>1, <4>1, OwnerIsUnique
      <3> QED BY <2>1, <3>2
    <2>2. CASE i # 1
      <3>1. 1 .. i = 1 .. (i - 1) \cup {i} /\ 1 .. (i - 1) \subseteq 1 .. N
            /\ 1 \in 1 .. (i - 1) /\ i - 1 \in 1 .. N
        BY <2>2
      <3>2. upto(i) = upto(i - 1) \cup {listed[i]}
        BY <3>1
      <3>3. upto(i - 1) \in SUBSET Node /\ upto(i - 1) # {} /\ listed[i] \in Node
        BY <3>1
      <3>4. found[i - 1] = OwnerOf(p, upto(i - 1))
        BY <3>1
      <3> HIDE DEF upto, found
      <3> QED BY <2>2, <3>2, <3>3, <3>4, OneMore
    <2> QED BY <2>1, <2>2
  <1>2. found = [i \in 1 .. N |-> step(i)]
    BY <1>1
  <1> HIDE DEF found
  <1> QED BY <1>2

(* The loop names the owner of the nodes it was given. *)
LEMMA LoopNamesOwner ==
    ASSUME NEW p \in Part, NEW N \in Nat, N # 0, NEW listed \in [1 .. N -> Node]
    PROVE  OwnerLoop(p, listed) = OwnerOf(p, {listed[i] : i \in 1 .. N})
  <1> DEFINE best == CHOOSE f : f = [i \in 1 .. N |->
                                       IF i = 1 THEN listed[1]
                                       ELSE IF Displaces(p, listed[i], f[i - 1])
                                       THEN listed[i] ELSE f[i - 1]]
  <1>1. OwnerLoop(p, listed) = best[N]
    <2>1. Len(listed) = N
      OBVIOUS
    <2> QED BY <2>1 DEF OwnerLoop
  <1>2. best = [i \in 1 .. N |->
                  IF i = 1 THEN listed[1]
                  ELSE IF Displaces(p, listed[i], best[i - 1]) THEN listed[i]
                  ELSE best[i - 1]]
    BY LoopExists
  <1> HIDE DEF best
  <1>3. 1 \in 1 .. N /\ \A i \in 2 .. N : i \in 1 .. N /\ i # 1
    OBVIOUS
  <1>4. best[1] = listed[1]
    BY <1>2, <1>3
  <1>5. \A i \in 2 .. N :
          best[i] = IF Displaces(p, listed[i], best[i - 1]) THEN listed[i] ELSE best[i - 1]
    BY <1>2, <1>3
  <1>6. best[N] = OwnerOf(p, {listed[i] : i \in 1 .. N})
    BY <1>4, <1>5, LoopFindsBest
  <1> QED BY <1>1, <1>6

(* A list of a finite set that repeats none of it leaves none of it out. *)
LEMMA ListsAll ==
    ASSUME NEW S, IsFiniteSet(S), NEW listed \in SetToSeqs(S)
    PROVE  /\ Cardinality(S) \in Nat
           /\ listed \in [1 .. Cardinality(S) -> S]
           /\ {listed[i] : i \in 1 .. Cardinality(S)} = S
  <1> DEFINE N == Cardinality(S)
  <1>1. N \in Nat
    BY FS_CardinalityType
  <1>2. /\ listed \in [1 .. N -> S]
        /\ \A i, j \in 1 .. N : i # j => listed[i] # listed[j]
    BY DEF SetToSeqs
  <1> HIDE DEF N
  <1>3. listed \in Injection(1 .. N, S)
    BY <1>2 DEF Injection, IsInjective
  <1>4. Cardinality(1 .. N) = N
    BY <1>1, FS_Interval
  <1>5. listed \in Surjection(1 .. N, S)
    BY <1>3, <1>4, FS_Injection DEF N
  <1>6. {listed[i] : i \in 1 .. N} = S
    BY <1>2, <1>5 DEF Surjection
  <1> QED BY <1>1, <1>2, <1>6 DEF N

(* The one pass of owner_of over the nodes finds the node no other         *)
(* displaces, for any number of nodes, any scores and any order they are   *)
(* listed in: two nodes that list the members differently name the same    *)
(* owner.  The registry is finite, for one node registers at a time.       *)
THEOREM LoopIsOwner == RegistrySpec => []LoopFindsOwner
  <1>1. RegistryInit => IsFiniteSet(DOMAIN registry)
    <2>1. RegistryInit => DOMAIN registry = {}
      BY DEF RegistryInit
    <2> QED BY <2>1, FS_EmptySet
  <1>2. ASSUME IsFiniteSet(DOMAIN registry), [RegistryNext]_registry
        PROVE  IsFiniteSet(DOMAIN registry)'
    <2>1. \/ \E n : DOMAIN registry' = DOMAIN registry \cup {n}
          \/ \E n : DOMAIN registry' = DOMAIN registry \ {n}
          \/ DOMAIN registry' = DOMAIN registry
      BY <1>2 DEF RegistryNext, RegisterNode, UnregisterNode
    <2>2. ASSUME NEW n, DOMAIN registry' = DOMAIN registry \cup {n}
          PROVE  IsFiniteSet(DOMAIN registry)'
      BY <1>2, <2>2, FS_AddElement
    <2>3. ASSUME NEW n, DOMAIN registry' = DOMAIN registry \ {n}
          PROVE  IsFiniteSet(DOMAIN registry)'
      BY <1>2, <2>3, FS_RemoveElement
    <2> QED BY <1>2, <2>1, <2>2, <2>3
  <1>3. ASSUME RegistryTypeOK, IsFiniteSet(DOMAIN registry) PROVE LoopFindsOwner
    <2> SUFFICES ASSUME DOMAIN registry # {}, NEW p \in Part,
                        NEW listed \in SetToSeqs(DOMAIN registry)
                 PROVE  OwnerLoop(p, listed) = OwnerOf(p, DOMAIN registry)
      BY DEF LoopFindsOwner
    <2> DEFINE N == Cardinality(DOMAIN registry)
    <2>1. /\ N \in Nat /\ listed \in [1 .. N -> DOMAIN registry]
          /\ {listed[i] : i \in 1 .. N} = DOMAIN registry
      BY <1>3, ListsAll
    <2>2. N # 0 /\ listed \in [1 .. N -> Node]
      <3>1. N # 0
        BY <1>3, FS_EmptySet
      <3>2. DOMAIN registry \in SUBSET Node
        BY <1>3, MembershipType DEF RegistryTypeOK
      <3> HIDE DEF N
      <3>3. listed \in [1 .. N -> Node]
        BY <2>1, <3>2
      <3> QED BY <3>1, <3>3
    <2> HIDE DEF N
    <2>3. OwnerLoop(p, listed) = OwnerOf(p, {listed[i] : i \in 1 .. N})
      BY <2>1, <2>2, LoopNamesOwner
    <2> QED BY <2>1, <2>3
  <1> QED BY <1>1, <1>2, <1>3, RegistryTypeCorrect, PTL DEF RegistrySpec
=============================================================================
