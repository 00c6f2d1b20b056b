--------------------------- MODULE HandoverProofs ---------------------------
(***************************************************************************)
(* A zone never loses a version to a clear down, for any nodes, zones and  *)
(* scores, and any memberships the nodes go by.  Giving a record up goes   *)
(* up an order: the node asked displaces the node that asks, so passes     *)
(* cannot give one up to each other in a circle.                           *)
(***************************************************************************)
EXTENDS Handover, PartitionProofs, FiniteSetTheorems

\* A walk sees one membership, or there is no other zone for it to look to.
WalksAtHome == ~Torn \/ \A n, m \in Node : ZoneOf[n] = ZoneOf[m]

\* The owner that was asked, or one that displaces it, holds what it answered.
Kept(n) ==
    \E m \in Node :
        /\ ZoneOf[m] = ZoneOf[n]
        /\ m = pass[n].from \/ Displaces(P, m, pass[n].from)
        /\ held[m] >= pass[n].file

GiveInv ==
    \A n \in Node :
        /\ pass[n].at = "copies" => Torn \/ ~Holds(n)
        /\ pass[n].at \in {"ask", "clear"} =>
             /\ ZoneOf[pass[n].from] = ZoneOf[n]
             /\ Displaces(P, pass[n].from, n)
        /\ pass[n].at = "clear" /\ pass[n].file > 0 => Kept(n)

IInv == TypeOK /\ GiveInv

(* The membership a node goes by names nodes, in the zones they are in. *)
LEMMA ViewType ==
    ASSUME TypeOK, NEW n \in Node
    PROVE  /\ View(n) \in Memberships
           /\ DOMAIN View(n) = listed[n]
           /\ InZone(View(n), ZoneOf[n]) = {m \in listed[n] : ZoneOf[m] = ZoneOf[n]}
           /\ n \in InZone(View(n), ZoneOf[n])
           /\ ZoneOf[n] \in ZonesIn(View(n))
  BY HandoverAssumption DEF TypeOK, View, Memberships, InZone, ZonesIn

(* Whom a node names first is of its own zone and displaces it, where the *)
(* node does not hold the partition or there is no other zone.            *)
LEMMA FirstDisplaces ==
    ASSUME TypeOK, NEW n \in Node, NEW m \in FirstCopy(n),
           ~Holds(n) \/ \A k, l \in Node : ZoneOf[k] = ZoneOf[l]
    PROVE  m \in Node /\ ZoneOf[m] = ZoneOf[n] /\ Displaces(P, m, n)
  <1> DEFINE own == InZone(View(n), ZoneOf[n])
  <1> USE HandoverAssumption
  <1>1. own \in SUBSET Node /\ n \in own
    BY ViewType, MembershipType
  <1>2. /\ OwnerOf(P, own) \in own
        /\ \A k \in own : ~Displaces(P, k, OwnerOf(P, own))
    BY <1>1, OwnerExists
  <1>3. ~Alone(n)
    BY DEF FirstCopy
  <1>4. OwnerOf(P, own) \in OwnersOf(P, View(n))
    BY ViewType DEF OwnersOf
  <1>5. OwnerOf(P, own) # n
    <2>1. CASE ~Holds(n)
      BY <1>3, <1>4, <2>1, ViewType DEF Holds, HoldingsOf, Alone
    <2>2. CASE \A k, l \in Node : ZoneOf[k] = ZoneOf[l]
      <3>0. \A k \in listed[n] : View(n)[k] = ZoneOf[n]
        BY <2>2 DEF View, TypeOK
      <3>1. ZonesIn(View(n)) = {ZoneOf[n]}
        <4>1. \A z \in ZonesIn(View(n)) : z = ZoneOf[n]
          BY <3>0, ViewType DEF ZonesIn
        <4> QED BY <4>1, ViewType
      <3>2. OwnersOf(P, View(n)) = {OwnerOf(P, own)}
        BY <3>1 DEF OwnersOf
      <3> QED BY <1>3, <3>2 DEF FirstCopy
    <2> QED BY <2>1, <2>2
  <1>6. m = OwnerOf(P, own)
    BY <1>3, <1>5 DEF FirstCopy
  <1>7. Displaces(P, m, n)
    BY <1>1, <1>2, <1>5, <1>6, DisplacesOrder
  <1> QED BY <1>1, <1>2, <1>6, <1>7, ViewType
-----------------------------------------------------------------------------
\* What pass[n] may be.
PassType == [at : {"idle", "holders", "fetch", "take", "copies", "ask", "clear"},
             asked : SUBSET Node, from : Node \cup {0}, file : 0 .. MaxVersion]

(* A step of one pass that puts a record of the right type in its place. *)
LEMMA PassUpdate ==
    ASSUME TypeOK, NEW n \in Node, NEW r \in PassType,
           r.at \in {"ask", "clear"} => r.from \in Node,
           pass' = [pass EXCEPT ![n] = r],
           held' \in [Node -> 0 .. MaxVersion],
           listed' = listed
    PROVE  TypeOK'
  <1>1. pass' \in [Node -> PassType]
    BY DEF TypeOK, PassType
  <1>2. ASSUME NEW m \in Node
        PROVE  pass'[m].at \in {"ask", "clear"} => pass'[m].from \in Node
    BY DEF TypeOK
  <1> QED BY <1>1, <1>2 DEF TypeOK, PassType

(* The state keeps its types; every node stays in the membership it goes by. *)
THEOREM HandoverTypeCorrect == Spec => []TypeOK
  <1> USE HandoverAssumption
  <1>1. Init => TypeOK
    BY DEF Init, TypeOK, Idle
  <1>2. TypeOK /\ [Next]_vars => TypeOK'
    <2> SUFFICES ASSUME TypeOK, [Next]_vars PROVE TypeOK'
      OBVIOUS
    <2>1. CASE UNCHANGED vars
      BY <2>1 DEF vars, TypeOK
    <2>2. ASSUME NEW n \in Node, Step(n) PROVE TypeOK'
      <3>0. pass[n] \in PassType
        BY DEF TypeOK, PassType
      <3>1. ASSUME NEW S \in SUBSET Node, ReadMembers(n, S) PROVE TypeOK'
        BY <3>1 DEF ReadMembers, TypeOK
      <3>2. ASSUME NEW v \in 1 .. MaxVersion, Write(n, v) PROVE TypeOK'
        BY <3>2 DEF Write, TypeOK
      <3>3. CASE Begin(n)
        BY <3>3 DEF Begin, TypeOK
      <3>4. CASE ReadHolders(n)
        <4> DEFINE asked == IF Alone(n) THEN {}
                            ELSE {a[1] : a \in HoldersOf({P}, View(n), n, ZoneOf[n])}
        <4>1. HoldersOf({P}, View(n), n, ZoneOf[n]) \in SUBSET (Node \X {P})
          BY ViewType, HoldersType
        <4>2. asked \in SUBSET Node
          BY <4>1
        <4>3. pass' = [pass EXCEPT ![n].at = "fetch", ![n].asked = asked]
          BY <3>4 DEF ReadHolders
        <4> HIDE DEF asked
        <4> DEFINE r == [pass[n] EXCEPT !.at = "fetch", !.asked = asked]
        <4>4. r \in PassType /\ r.at = "fetch"
          BY <3>0, <4>2 DEF PassType
        <4>5. pass' = [pass EXCEPT ![n] = r]
          BY <4>3
        <4>6. held' \in [Node -> 0 .. MaxVersion] /\ listed' = listed
          BY <3>4 DEF ReadHolders, TypeOK
        <4> HIDE DEF r
        <4> QED BY <4>4, <4>5, <4>6, PassUpdate
      <3>5. CASE Take(n)
        <4> DEFINE v == IF pass[n].file > held[n] THEN pass[n].file ELSE held[n]
        <4>1. v \in 0 .. MaxVersion
          BY DEF TypeOK
        <4>2. held' = [held EXCEPT ![n] = v]
          BY <3>5 DEF Take
        <4> HIDE DEF v
        <4> DEFINE r == [pass[n] EXCEPT !.at = "fetch", !.file = 0]
        <4>0. 0 \in 0 .. MaxVersion
          OBVIOUS
        <4>3. r \in PassType /\ r.at = "fetch"
          BY ONLY <3>0, <4>0 DEF PassType
        <4>4. pass' = [pass EXCEPT ![n] = r] /\ listed' = listed
          BY <3>5 DEF Take
        <4>5. held' \in [Node -> 0 .. MaxVersion]
          BY <4>1, <4>2 DEF TypeOK
        <4> HIDE DEF r
        <4> QED BY <4>3, <4>4, <4>5, PassUpdate
      <3>6. ASSUME NEW m \in Node, Fetch(n, m) PROVE TypeOK'
        BY <3>6 DEF Fetch, TypeOK
      <3>7. CASE Walk(n)
        <4>1. CASE pass' = [pass EXCEPT ![n] = Idle]
          BY <3>7, <4>1 DEF Walk, Idle, TypeOK
        <4>2. CASE pass' = [pass EXCEPT ![n].at = "copies"]
          BY <3>7, <4>2 DEF Walk, TypeOK
        <4> QED BY <3>7, <4>1, <4>2 DEF Walk, EndPass
      <3>8. CASE Copies(n)
        <4>1. ASSUME NEW m \in FirstCopy(n) PROVE m \in Node
          <5>1. ASSUME NEW z \in ZonesIn(View(n))
                PROVE  OwnerOf(P, InZone(View(n), z)) \in Node
            BY ViewType, MembershipType, OwnerExists
          <5> QED BY <4>1, <5>1, ViewType DEF FirstCopy, OwnersOf
        <4> QED BY <3>8, <4>1 DEF Copies, EndPass, Idle, TypeOK
      <3>9. CASE AskOwner(n)
        <4>1. CASE EndPass(n)
          BY <3>9, <4>1 DEF AskOwner, EndPass, Idle, TypeOK
        <4>2. CASE pass' = [pass EXCEPT ![n].at = "clear",
                                        ![n].file = held[pass[n].from]]
          <5> DEFINE r == [pass[n] EXCEPT !.at = "clear",
                                          !.file = held[pass[n].from]]
          <5>1. pass[n].from \in Node /\ held[pass[n].from] \in 0 .. MaxVersion
            BY <3>9 DEF AskOwner, TypeOK
          <5>2. r \in PassType /\ r.from \in Node
            BY <3>0, <5>1 DEF PassType
          <5>3. pass' = [pass EXCEPT ![n] = r]
            BY <4>2
          <5>4. held' \in [Node -> 0 .. MaxVersion] /\ listed' = listed
            BY <3>9 DEF AskOwner, TypeOK
          <5> HIDE DEF r
          <5> QED BY <5>2, <5>3, <5>4, PassUpdate
        <4> QED BY <3>9, <4>1, <4>2 DEF AskOwner
      <3>10. CASE Clear(n)
        BY <3>10 DEF Clear, EndPass, Idle, TypeOK
      <3>11. CASE Abandon(n)
        BY <3>11 DEF Abandon, EndPass, Idle, TypeOK
      <3> QED BY <2>2, <3>1, <3>2, <3>3, <3>4, <3>5, <3>6, <3>7, <3>8, <3>9, <3>10,
                 <3>11
              DEF Step
    <2> QED BY <2>1, <2>2 DEF Next
  <1> QED BY <1>1, <1>2, PTL DEF Spec
-----------------------------------------------------------------------------
(* Where a node gives its version up, one that displaces it in its zone *)
(* keeps that version or a later one.                                   *)
LEMMA GivenUpIsKept ==
    ASSUME IInv, NEW n \in Node, Clear(n), Displaced(n)
    PROVE  \E m \in Node : /\ ZoneOf[m] = ZoneOf[n]
                           /\ Displaces(P, m, n)
                           /\ held'[m] >= held[n]
  <1>1. pass[n].at = "clear" /\ pass[n].file > 0 /\ held[n] <= pass[n].file
    BY DEF Clear, Displaced
  <1>2. PICK m \in Node : /\ ZoneOf[m] = ZoneOf[n]
                          /\ m = pass[n].from \/ Displaces(P, m, pass[n].from)
                          /\ held[m] >= pass[n].file
    BY <1>1 DEF IInv, GiveInv, Kept
  <1>3. pass[n].from \in Node /\ Displaces(P, pass[n].from, n)
    BY <1>1 DEF IInv, TypeOK, GiveInv
  <1>4. Displaces(P, m, n)
    BY <1>2, <1>3, HandoverAssumption, DisplacesTransitive
  <1>5. m # n
    BY <1>4, HandoverAssumption, DisplacesIrreflexive
  <1>6. held'[m] = held[m]
    BY <1>5 DEF Clear, IInv, TypeOK
  <1>7. held[m] \in Nat /\ held[n] \in Nat /\ pass[n].file \in Nat
    BY HandoverAssumption DEF IInv, TypeOK
  <1>8. held'[m] >= held[n]
    BY <1>1, <1>2, <1>6, <1>7
  <1> QED BY <1>2, <1>4, <1>8
(* What was kept for a pass stays kept when another node's version rises, or *)
(* goes to one that displaces it.                                           *)
LEMMA KeptStays ==
    ASSUME IInv, TypeOK', NEW n \in Node, NEW k \in Node,
           pass[n].at = "clear", pass'[n] = pass[n], Kept(n),
           \A m \in Node : m # k => held'[m] = held[m],
           \/ held'[k] >= held[k]
           \/ Clear(k) /\ Displaced(k)
    PROVE  Kept(n)'
  <1> USE HandoverAssumption
  <1>1. PICK m \in Node : /\ ZoneOf[m] = ZoneOf[n]
                          /\ m = pass[n].from \/ Displaces(P, m, pass[n].from)
                          /\ held[m] >= pass[n].file
    BY DEF Kept
  <1>2. pass[n].from \in Node
    BY DEF IInv, TypeOK
  <1>3. /\ \A l \in Node : held[l] \in Nat /\ held'[l] \in Nat
        /\ pass[n].file \in Nat
    BY DEF IInv, TypeOK
  <1>4. CASE held'[m] >= held[m]
    <2>1. held'[m] >= pass[n].file
      BY <1>1, <1>3, <1>4
    <2> QED BY <1>1, <2>1 DEF Kept
  <1>5. CASE ~(held'[m] >= held[m])
    <2>1. m = k /\ Clear(k) /\ Displaced(k)
      BY <1>3, <1>5
    <2>2. PICK l \in Node : /\ ZoneOf[l] = ZoneOf[m]
                            /\ Displaces(P, l, m)
                            /\ held'[l] >= held[m]
      BY <2>1, GivenUpIsKept
    <2>3. Displaces(P, l, pass[n].from)
      BY <1>1, <1>2, <2>2, DisplacesTransitive
    <2>4. held'[l] >= pass[n].file
      BY <1>1, <1>3, <2>2
    <2> QED BY <1>1, <2>2, <2>3, <2>4 DEF Kept
  <1> QED BY <1>4, <1>5

(* A step of one node leaves the others' stores, passes and memberships, and *)
(* lowers its own version only by giving it up.                              *)
LEMMA StepIsLocal ==
    ASSUME TypeOK, NEW k \in Node, Step(k)
    PROVE  /\ \A n \in Node : n # k => /\ pass'[n] = pass[n]
                                       /\ listed'[n] = listed[n]
                                       /\ held'[n] = held[n]
           /\ \/ held'[k] >= held[k]
              \/ Clear(k) /\ Displaced(k)
  <1> USE HandoverAssumption DEF TypeOK
  <1>0. held[k] \in Nat
    OBVIOUS
  <1>1. ASSUME NEW S \in SUBSET Node, ReadMembers(k, S)
        PROVE  UNCHANGED <<held, pass>> /\ \A n \in Node : n # k => listed'[n] = listed[n]
    BY <1>1 DEF ReadMembers
  <1>2. ASSUME NEW v \in 1 .. MaxVersion, Write(k, v)
        PROVE  /\ UNCHANGED <<listed, pass>>
               /\ \A n \in Node : n # k => held'[n] = held[n]
               /\ held'[k] >= held[k]
    BY <1>0, <1>2 DEF Write
  <1>3. CASE Take(k)
    <2>1. /\ \A n \in Node : n # k => pass'[n] = pass[n] /\ held'[n] = held[n]
          /\ UNCHANGED listed
      BY <1>3 DEF Take
    <2>2. held'[k] >= held[k]
      BY <1>0, <1>3 DEF Take
    <2> QED BY <2>1, <2>2
  <1>4. ASSUME Begin(k) \/ ReadHolders(k) \/ (\E m \in Node : Fetch(k, m))
        PROVE  /\ UNCHANGED <<listed, held>>
               /\ \A n \in Node : n # k => pass'[n] = pass[n]
    BY <1>4 DEF Begin, ReadHolders, Fetch
  <1>5. ASSUME Walk(k) \/ Copies(k) \/ AskOwner(k) \/ Abandon(k)
        PROVE  /\ UNCHANGED <<listed, held>>
               /\ \A n \in Node : n # k => pass'[n] = pass[n]
    BY <1>5 DEF Walk, Copies, AskOwner, Abandon, EndPass
  <1>6. CASE Clear(k)
    <2>1. /\ \A n \in Node : n # k => pass'[n] = pass[n] /\ held'[n] = held[n]
          /\ UNCHANGED listed
      BY <1>6 DEF Clear, EndPass
    <2>2. ~Displaced(k) => held'[k] >= held[k]
      BY <1>0, <1>6 DEF Clear
    <2> QED BY <1>6, <2>1, <2>2
  <1> QED BY <1>0, <1>1, <1>2, <1>3, <1>4, <1>5, <1>6 DEF Step

(* Where no membership is read between the two looks of a walk, or there is *)
(* one zone, a node asks and gives up only to one that displaces it in its  *)
(* own zone.                                                                *)
LEMMA GiveInvariant ==
    ASSUME WalksAtHome
    PROVE  Spec => []IInv
  <1> USE HandoverAssumption
  <1>1. Init => GiveInv
    BY DEF Init, GiveInv, Idle
  <1>2. ASSUME IInv, TypeOK', [Next]_vars
        PROVE  GiveInv'
    <2> DEFINE Good(n) ==
          /\ pass[n].at = "copies" => Torn \/ ~Holds(n)
          /\ pass[n].at \in {"ask", "clear"} =>
               /\ ZoneOf[pass[n].from] = ZoneOf[n]
               /\ Displaces(P, pass[n].from, n)
          /\ pass[n].at = "clear" /\ pass[n].file > 0 => Kept(n)
    <2>g. \A n \in Node : Good(n)
      BY <1>2 DEF IInv, GiveInv
    <2>t. TypeOK
      BY <1>2 DEF IInv
    <2>1. CASE UNCHANGED vars
      BY <2>1, <2>g DEF vars, GiveInv, Kept, Holds, View
    <2>2. ASSUME NEW k \in Node, Step(k)
          PROVE  GiveInv'
      \* The node that moved.
      <3>1. Good(k)'
        <4>0. ASSUME pass'[k] = pass[k], pass[k].at = "clear", pass[k].file > 0
              PROVE  Kept(k)'
          BY <1>2, <2>g, <2>t, <2>2, <4>0, StepIsLocal, KeptStays
        <4>1. ASSUME NEW S \in SUBSET Node, ReadMembers(k, S)
              PROVE  Good(k)'
          BY <2>g, <4>0, <4>1 DEF ReadMembers
        <4>2. ASSUME NEW v \in 1 .. MaxVersion, Write(k, v)
              PROVE  Good(k)'
          BY <2>g, <4>0, <4>2 DEF Write, Holds, View
        <4>3. ASSUME pass'[k].at \in {"idle", "holders", "fetch", "take"}
              PROVE  Good(k)'
          BY <4>3
        <4>4. ASSUME Begin(k) \/ ReadHolders(k) \/ Take(k)
              PROVE  pass'[k].at \in {"holders", "fetch"}
          BY <2>t, <4>4 DEF Begin, ReadHolders, Take, TypeOK
        <4>5. ASSUME NEW m \in Node, Fetch(k, m)
              PROVE  pass'[k].at \in {"fetch", "take"}
          BY <2>t, <4>5 DEF Fetch, TypeOK
        <4>6. CASE Walk(k)
          <5>1. Holds(k)' <=> Holds(k)
            BY <4>6 DEF Walk, Holds, View
          <5>2. pass'[k].at = "idle" \/ (pass'[k].at = "copies" /\ ~Holds(k))
            BY <2>t, <4>6 DEF Walk, EndPass, Idle, TypeOK
          <5> QED BY <5>1, <5>2
        <4>7. CASE Copies(k)
          <5>1. pass'[k].at = "idle"
                  \/ (pass'[k].at = "ask" /\ pass'[k].from \in FirstCopy(k))
            BY <2>t, <4>7 DEF Copies, EndPass, Idle, TypeOK
          <5>2. ~Holds(k) \/ \A n, m \in Node : ZoneOf[n] = ZoneOf[m]
            BY <2>g, <4>7 DEF Copies, WalksAtHome
          <5> QED BY <2>t, <5>1, <5>2, FirstDisplaces
        <4>8. CASE AskOwner(k)
          <5>1. pass'[k].at = "idle"
                  \/ /\ pass'[k].at = "clear"
                     /\ pass'[k].from = pass[k].from
                     /\ pass'[k].file = held[pass[k].from]
            BY <2>t, <4>8 DEF AskOwner, EndPass, Idle, TypeOK
          <5>2. pass[k].from \in Node /\ held'[pass[k].from] = held[pass[k].from]
            BY <2>t, <4>8 DEF AskOwner, TypeOK
          <5>3. /\ ZoneOf[pass[k].from] = ZoneOf[k]
                /\ Displaces(P, pass[k].from, k)
            BY <2>g, <4>8 DEF AskOwner
          <5>4. held[pass[k].from] \in Nat
            BY <2>t, <5>2 DEF TypeOK
          <5>5. pass'[k].at = "clear" => Kept(k)'
            BY <5>1, <5>2, <5>3, <5>4 DEF Kept
          <5> QED BY <5>1, <5>3, <5>5
        <4>9. CASE Clear(k) \/ Abandon(k)
          <5>1. pass'[k].at = "idle"
            BY <2>t, <4>9 DEF Clear, Abandon, EndPass, Idle, TypeOK
          <5> QED BY <5>1
        <4> QED BY <2>2, <4>1, <4>2, <4>3, <4>4, <4>5, <4>6, <4>7, <4>8, <4>9 DEF Step
      \* The nodes that did not.
      <3>2. ASSUME NEW n \in Node, n # k
            PROVE  Good(n)'
        <4>1. pass'[n] = pass[n] /\ listed'[n] = listed[n]
          BY <2>t, <2>2, <3>2, StepIsLocal
        <4>2. Holds(n)' <=> Holds(n)
          BY <4>1 DEF Holds, View
        <4>3. /\ \A m \in Node : m # k => held'[m] = held[m]
              /\ \/ held'[k] >= held[k]
                 \/ Clear(k) /\ Displaced(k)
          BY <2>t, <2>2, StepIsLocal
        <4>4. ASSUME pass[n].at = "clear", pass[n].file > 0
              PROVE  Kept(n)'
          BY <1>2, <2>g, <3>2, <4>1, <4>3, <4>4, KeptStays
        <4> QED BY <2>g, <3>2, <4>1, <4>2, <4>4
      <3> QED BY <3>1, <3>2 DEF GiveInv
    <2> QED BY <1>2, <2>1, <2>2 DEF Next
  <1> QED BY <1>1, <1>2, HandoverTypeCorrect, PTL DEF Spec, IInv

(* Whatever memberships the nodes go by, a version a node gives up is still *)
(* in its zone, or a later one is, as long as no membership is read between *)
(* the two looks of a walk or all nodes are of one zone.  With two zones,   *)
(* and such a read, it is false.                                            *)
THEOREM ZoneNeverLosesNewest ==
    ASSUME WalksAtHome
    PROVE  Spec => ZoneKeepsNewest
  <1>1. ASSUME IInv, TypeOK', [Next]_vars
        PROVE  [\A n \in Node : held'[n] < held[n] =>
                  \E m \in Node : ZoneOf[m] = ZoneOf[n] /\ held'[m] >= held[n]]_vars
    <2> SUFFICES ASSUME Next, NEW n \in Node, held'[n] < held[n]
                 PROVE  \E m \in Node : ZoneOf[m] = ZoneOf[n] /\ held'[m] >= held[n]
      BY <1>1
    <2>1. PICK k \in Node : Step(k)
      BY DEF Next
    <2>2. held[n] \in Nat /\ held'[n] \in Nat
      BY <1>1, HandoverAssumption DEF IInv, TypeOK
    <2>3. ~(held'[n] >= held[n]) /\ held'[n] # held[n]
      BY <2>2
    <2>4. n = k /\ Clear(n) /\ Displaced(n)
      BY <1>1, <2>1, <2>3, StepIsLocal DEF IInv
    <2> QED BY <1>1, <2>4, GivenUpIsKept
  <1> QED BY <1>1, GiveInvariant, HandoverTypeCorrect, PTL DEF Spec, ZoneKeepsNewest
=============================================================================
