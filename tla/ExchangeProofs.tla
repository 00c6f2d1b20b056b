--------------------------- MODULE ExchangeProofs ---------------------------
(***************************************************************************)
(* What holds of the requests to other processes for any calls, any number *)
(* of processes to ask, any number of connections and any size of the      *)
(* pool: a call is given its own answer, the pool holds what nobody uses,  *)
(* a walk passes over no member, and a stream hears its stop.              *)
(***************************************************************************)
EXTENDS Exchange, FiniteSetTheorems, WellFoundedInduction, TLAPS

\* Nothing that was written to the connection is to be acted on, and nothing is
\* to be read from it but its end.
Quiet(c) ==
    /\ wire[c] = None /\ side[c] \notin Call
    /\ \A k \in DOMAIN back[c] : back[c][k] = Fin

\* All that is under way on the connection is r's request, or its answer.
Carries(c, r) ==
    /\ wire[c] \in {None, r} /\ side[c] \in {r, "waiting", "closed"}
    /\ wire[c] = r \/ side[c] = r => back[c] = <<>>
    /\ \A k \in DOMAIN back[c] :
        back[c][k] = Fin \/ (k = 1 /\ back[c][k] \in Answer /\ back[c][k].of = r)

\* A connection that is closed here, and one that was not made, have nothing to
\* be read; once the end of one has come nothing follows it.
ConnInv ==
    \A c \in Conn :
        /\ c > made => ~up[c] /\ wire[c] = None
        /\ ~up[c] => back[c] = <<>>
        /\ wire[c] # None => side[c] = "waiting"
        /\ (\E k \in DOMAIN back[c] : back[c][k] = Fin) => side[c] = "closed"

\* A call is on a connection from taking or making it until it is kept, and what
\* is under way on it is the call's own.
LinkOK(r) ==
    /\ at[r] \in {"unmade", "next", "answered", "unanswered"} => link[r] = None
    /\ link[r] # None => link[r] <= made
    /\ at[r] \in {"writing", "reading"} => link[r] # None /\ up[link[r]]
    /\ at[r] = "connecting" /\ link[r] # None => ~up[link[r]]
    /\ at[r] \in {"writing", "keeping"} /\ link[r] # None /\ up[link[r]] => Quiet(link[r])
    /\ at[r] = "reading" => Carries(link[r], r)

LinkInv == \A r \in Call : LinkOK(r)

\* The connections of the pool have been made and nothing is under way on them.
PoolInv == \A c \in ToSet(idle) : c <= made /\ Quiet(c)

\* A walk that nobody disturbed has asked as many members, from the one that
\* answered last, as it has made attempts.
Trying == {"connecting", "writing", "reading", "keeping"}

WalkOK(r) ==
    /\ at[r] = "unmade" => attempt[r] = 0
    /\ at[r] \in Trying \cup {"next"} => attempt[r] < Attempts(r)
    /\ at[r] = "unanswered" => attempt[r] >= Attempts(r)
    /\ kind[r] = "walk" /\ r \notin moved /\ at[r] \notin {"unmade", "answered"} =>
        \A k \in 0 .. Members :
            k < attempt[r] \/ (k = attempt[r] /\ at[r] \in Trying)
                => (current + k) % Members \in asked[r]

WalkInv == \A r \in Call : WalkOK(r)

\* A stop is posted to a stream that was begun.
StreamInv == (stop # "no" => stream # "none") /\ StopIsHeard

Inv == /\ TypeOK /\ ConnInv /\ LinkInv /\ PoolInv /\ PoolIsSpare /\ OwnAnswer
       /\ WalkInv /\ StreamInv
-----------------------------------------------------------------------------
(* What is left of a pool *)

\* A non-empty set of naturals has a least element.
LEMMA LeastNatural ==
    ASSUME NEW S \in SUBSET Nat, S # {}
    PROVE  \E x \in S : \A y \in S : x <= y
<1> DEFINE R == OpToRel(<, Nat)
<1>1. IsWellFoundedOn(R, Nat)
    BY NatLessThanWellFounded
<1>2. PICK x \in S : \A y \in S : ~(<<y, x>> \in R)
  <2> HIDE DEF R
  <2> QED
    BY <1>1, WFMin
<1>3. ASSUME NEW y \in S PROVE x <= y
  <2>1. x \in Nat /\ y \in Nat
    OBVIOUS
  <2>2. ~(y < x)
    BY <1>2, <2>1, Zenon DEF OpToRel
  <2>3. QED
    BY <2>1, <2>2
<1>4. QED
    BY <1>3

\* A non-empty set of positions has a last one.
LEMMA LastPosition ==
    ASSUME NEW n \in Nat, NEW K \in SUBSET (1 .. n), K # {}
    PROVE  /\ \E x \in K : \A y \in K : y <= x
           /\ Max(K) \in K
<1> DEFINE S == {n - y : y \in K}
<1>1. S \in SUBSET Nat /\ S # {}
  <2>1. ASSUME NEW y \in K PROVE n - y \in Nat
    <3>1. y \in Int /\ 1 <= y /\ y <= n
      OBVIOUS
    <3>2. QED
      BY <3>1
  <2>2. PICK y \in K : TRUE
    OBVIOUS
  <2>3. n - y \in S
    OBVIOUS
  <2>4. QED
    BY <2>1, <2>3
<1>2. PICK m \in S : \A z \in S : m <= z
    BY <1>1, LeastNatural
<1>3. PICK x \in K : m = n - x
    OBVIOUS
<1>4. ASSUME NEW y \in K PROVE y <= x
  <2>1. n - y \in S
    OBVIOUS
  <2>2. n - x <= n - y
    BY <1>2, <1>3, <2>1
  <2>3. QED
    BY <2>2
<1>5. \A y \in K : x >= y
    BY <1>4
<1>6. Max(K) \in K
    BY <1>5 DEF Max
<1>7. QED
    BY <1>4, <1>6

\* The positions are finitely many, and those up to one of them fewer the
\* earlier it is.
LEMMA PositionsUpTo ==
    ASSUME NEW n \in Nat, NEW K \in SUBSET (1 .. n)
    PROVE  /\ IsFiniteSet(K) /\ Cardinality(K) \in Nat /\ Cardinality(K) <= n
           /\ \A i \in K : Cardinality({j \in K : j <= i}) \in 1 .. Cardinality(K)
           /\ \A i, l \in K :
                Cardinality({j \in K : j <= i}) = Cardinality({j \in K : j <= l}) => i = l
<1>1. IsFiniteSet(1 .. n) /\ Cardinality(1 .. n) = n
    BY FS_Interval
<1>2. IsFiniteSet(K) /\ Cardinality(K) <= n
    BY <1>1, FS_Subset
<1>3. \A T \in SUBSET K : IsFiniteSet(T) /\ Cardinality(T) \in Nat
    BY <1>2, FS_Subset, FS_CardinalityType
<1>4. ASSUME NEW i \in K PROVE Cardinality({j \in K : j <= i}) \in 1 .. Cardinality(K)
  <2> DEFINE T == {j \in K : j <= i}
  <2>1. T \in SUBSET K /\ i \in T
    OBVIOUS
  <2>2. Cardinality(T) <= Cardinality(K)
    BY <1>2, <2>1, FS_Subset
  <2>3. Cardinality(T) # 0
    BY <1>3, <2>1, FS_EmptySet
  <2>4. QED
    BY <1>3, <2>1, <2>2, <2>3
<1>5. ASSUME NEW i \in K, NEW l \in K, i < l
      PROVE  Cardinality({j \in K : j <= i}) # Cardinality({j \in K : j <= l})
  <2> DEFINE T == {j \in K : j <= i}
             U == {j \in K : j <= l}
  <2>1. K \subseteq Int
    OBVIOUS
  <2>2. \A j \in K : j <= i => j <= l
    BY <1>5, <2>1
  <2>3. l <= l /\ ~(l <= i)
    BY <1>5, <2>1
  <2>4. T \in SUBSET U /\ l \in U /\ l \notin T
    BY <2>2, <2>3
  <2>5. IsFiniteSet(U)
    BY <1>3
  <2>6. QED
    BY <2>4, <2>5, FS_Subset
<1>6. ASSUME NEW i \in K, NEW l \in K,
             Cardinality({j \in K : j <= i}) = Cardinality({j \in K : j <= l})
      PROVE  i = l
  <2>1. i \in Int /\ l \in Int
    OBVIOUS
  <2>2. ~(i < l) /\ ~(l < i)
    BY <1>5, <1>6
  <2>3. QED
    BY <2>1, <2>2
<1>7. QED
    BY <1>2, <1>3, <1>4, <1>6

\* There is a k-th position for every k up to their number, and each position
\* is the k-th for some k.
LEMMA NthPosition ==
    ASSUME NEW n \in Nat, NEW K \in SUBSET (1 .. n)
    PROVE  /\ \A k \in 1 .. Cardinality(K) :
                /\ Nth(K, k) \in K
                /\ Cardinality({j \in K : j <= Nth(K, k)}) = k
           /\ \A i \in K : \E k \in 1 .. Cardinality(K) : Nth(K, k) = i
<1> DEFINE UpTo(i) == {j \in K : j <= i}
<1>1. /\ IsFiniteSet(K) /\ Cardinality(K) \in Nat
      /\ \A i \in K : Cardinality(UpTo(i)) \in 1 .. Cardinality(K)
      /\ \A i, l \in K : Cardinality(UpTo(i)) = Cardinality(UpTo(l)) => i = l
    BY PositionsUpTo
<1>2. ASSUME NEW k \in 1 .. Cardinality(K)
      PROVE  \E i \in K : Cardinality(UpTo(i)) = k
  <2> DEFINE L == {i \in K : Cardinality(UpTo(i)) >= k}
  <2>1. L # {}
    <3>1. K # {}
      BY <1>1, FS_EmptySet
    <3>2. PICK x \in K : \A y \in K : y <= x
      BY <3>1, LastPosition
    <3>3. UpTo(x) = K
      BY <3>2
    <3>4. x \in L
      BY <1>1, <3>3
    <3>5. QED
      BY <3>4
  <2>2. L \in SUBSET Nat
    <3>1. K \subseteq Nat
      OBVIOUS
    <3>2. QED
      BY <3>1
  <2>3. PICK i \in L : \A y \in L : i <= y
    BY <2>1, <2>2, LeastNatural
  <2>4. ASSUME Cardinality(UpTo(i)) # k PROVE FALSE
    <3> DEFINE E == UpTo(i) \ {i}
    <3>1. IsFiniteSet(UpTo(i))
      BY <1>1, FS_Subset
    <3>2. i \in UpTo(i)
      OBVIOUS
    <3>3. IsFiniteSet(E) /\ Cardinality(E) = Cardinality(UpTo(i)) - 1
      BY <3>1, <3>2, FS_RemoveElement
    <3>4. Cardinality(E) >= k
      BY <1>1, <2>4, <3>3
    <3>5. E # {}
      BY <3>4, FS_EmptySet
    <3>6. PICK x \in E : \A y \in E : y <= x
      BY <3>5, LastPosition
    <3>7. x \in K /\ x < i
      OBVIOUS
    <3>8. UpTo(x) = E
      <4>1. K \subseteq Int
        OBVIOUS
      <4>2. ASSUME NEW j \in K PROVE j <= x <=> j <= i /\ j # i
        <5>1. j \in Int /\ x \in Int /\ i \in Int
          BY <3>7, <4>1
        <5>2. j <= i /\ j # i => j <= x
          BY <3>6
        <5>3. QED
          BY <3>7, <5>1, <5>2
      <4>3. QED
        BY <4>2
    <3>9. x \in L
      BY <3>4, <3>7, <3>8
    <3>10. QED
      BY <2>3, <3>7, <3>9
  <2>5. QED
    BY <2>4
<1>3. ASSUME NEW k \in 1 .. Cardinality(K)
      PROVE  Nth(K, k) \in K /\ Cardinality(UpTo(Nth(K, k))) = k
    BY <1>2 DEF Nth
<1>4. ASSUME NEW i \in K PROVE \E k \in 1 .. Cardinality(K) : Nth(K, k) = i
  <2>1. PICK k \in 1 .. Cardinality(K) : k = Cardinality(UpTo(i))
    BY <1>1
  <2>2. Nth(K, k) \in K /\ Cardinality(UpTo(Nth(K, k))) = Cardinality(UpTo(i))
    BY <1>3, <2>1
  <2>3. Nth(K, k) = i
    BY <1>1, <2>2
  <2>4. QED
    BY <2>3
<1>5. QED
    BY <1>3, <1>4

\* What stays of a pool is a pool no larger, of the connections at the
\* positions that stay and each as often as before.
LEMMA StayingPool ==
    ASSUME NEW S, NEW conns \in Seq(S), NEW K \in SUBSET (DOMAIN conns)
    PROVE  /\ Staying(conns, K) \in Seq(S)
           /\ Len(Staying(conns, K)) <= Len(conns)
           /\ ToSet(Staying(conns, K)) = {conns[k] : k \in K}
           /\ IsInjective(conns) => IsInjective(Staying(conns, K))
<1> DEFINE N == Cardinality(K)
           t == Staying(conns, K)
<1>1. PICK n \in Nat : n = Len(conns)
    OBVIOUS
<1>2. K \in SUBSET (1 .. n)
    BY <1>1
<1>3. N \in Nat /\ N <= n
    BY <1>2, PositionsUpTo
<1>4. \A k \in 1 .. N : Nth(K, k) \in K /\ Cardinality({j \in K : j <= Nth(K, k)}) = k
    BY <1>2, NthPosition
<1>5. \A i \in K : \E k \in 1 .. N : Nth(K, k) = i
    BY <1>2, NthPosition
<1>6. t = [k \in 1 .. N |-> conns[Nth(K, k)]]
    BY DEF Staying
<1> HIDE DEF N, t
<1>7. \A k \in 1 .. N : t[k] = conns[Nth(K, k)] /\ t[k] \in S
  <2>1. ASSUME NEW k \in 1 .. N PROVE t[k] = conns[Nth(K, k)] /\ t[k] \in S
    <3>1. t[k] = conns[Nth(K, k)]
      BY <1>6
    <3>2. PICK i \in 1 .. n : i = Nth(K, k)
      BY <1>2, <1>4
    <3>3. conns[i] \in S
      BY <1>1
    <3>4. QED
      BY <3>1, <3>2, <3>3
  <2>2. QED
    BY <2>1
<1>8. DOMAIN t = 1 .. N
    BY <1>6
<1>9. t \in Seq(S) /\ Len(t) = N
    BY <1>3, <1>6, <1>7
<1>10. ToSet(t) = {conns[k] : k \in K}
  <2>1. ASSUME NEW k \in 1 .. N PROVE t[k] \in {conns[i] : i \in K}
    BY <1>4, <1>7
  <2>2. ASSUME NEW i \in K PROVE \E k \in 1 .. N : t[k] = conns[i]
    BY <1>5, <1>7
  <2>3. ToSet(t) = {t[k] : k \in 1 .. N}
    BY <1>8 DEF ToSet
  <2>4. QED
    BY <2>1, <2>2, <2>3
<1>11. IsInjective(conns) => IsInjective(t)
  <2> SUFFICES ASSUME \A a, b \in DOMAIN conns : conns[a] = conns[b] => a = b,
                      NEW k \in 1 .. N, NEW l \in 1 .. N, t[k] = t[l]
               PROVE  k = l
    BY <1>8 DEF IsInjective
  <2>1. Nth(K, k) \in DOMAIN conns /\ Nth(K, l) \in DOMAIN conns
    BY <1>4
  <2>2. Nth(K, k) = Nth(K, l)
    BY <1>7, <2>1
  <2>3. QED
    BY <1>4, <2>2
<1>12. QED
    BY <1>1, <1>3, <1>9, <1>10, <1>11 DEF t
-----------------------------------------------------------------------------
(* The steps that change the pool *)

\* What an attempt does: it asks h over c, if there is one in the pool, drop is
\* closed and q is left.
Takes(r, h, c, drop, q) ==
    /\ at[r] \in {"unmade", "next"}
    /\ kind[r] # "forward" => h = Member(r)
    /\ host' = [host EXCEPT ![r] = h]
    /\ link' = [link EXCEPT ![r] = c]
    /\ reused' = [reused EXCEPT ![r] = c # None]
    /\ at' = [at EXCEPT ![r] = IF c = None THEN "connecting" ELSE "writing"]
    /\ asked' = [asked EXCEPT ![r] = @ \cup {h}]
    /\ got' = [got EXCEPT ![r] = None]
    /\ idle' = q /\ Closing(drop)
    /\ UNCHANGED <<current, kind, attempt, made, to, wire, side, feeding, moved>>
    /\ Len(q) <= Len(idle) /\ IsInjective(q)
    /\ drop \subseteq ToSet(idle) /\ ToSet(q) \subseteq ToSet(idle) \ drop
    /\ c # None => c \in (ToSet(idle) \ drop) \ ToSet(q)

\* Every attempt takes a connection that was nobody's, or none.
LEMMA AttemptTakes ==
    ASSUME TypeOK, PoolIsSpare, NEW r \in Call, Attempt(r)
    PROVE  \E h \in Host, c \in Conn \cup {None}, drop \in SUBSET Conn, q \in Seq(Conn) :
                Takes(r, h, c, drop, q)
<1>1. PICK h \in IF kind[r] = "forward" THEN Host ELSE {Member(r)}, n \in 0 .. Len(idle) :
        LET aged == {idle[k] : k \in 1 .. n}
            kept == Kept(h, aged)
            c == Held(kept, h)
        IN  /\ host' = [host EXCEPT ![r] = h]
            /\ link' = [link EXCEPT ![r] = c]
            /\ reused' = [reused EXCEPT ![r] = c # None]
            /\ at' = [at EXCEPT ![r] = IF c = None THEN "connecting" ELSE "writing"]
            /\ idle' = Taken(kept, c)
            /\ Closing(ToSet(idle) \ ToSet(kept))
            /\ asked' = [asked EXCEPT ![r] = @ \cup {h}]
    BY DEF Attempt
<1>2. /\ at[r] \in {"unmade", "next"}
      /\ got' = [got EXCEPT ![r] = None]
      /\ UNCHANGED <<current, kind, attempt, made, to, wire, side, feeding, moved>>
    BY DEF Attempt
<1> DEFINE aged == {idle[k] : k \in 1 .. n}
           K == {k \in DOMAIN idle : to[idle[k]] = h => IsReusable(idle[k], aged)}
           kept == Kept(h, aged)
           c == Held(kept, h)
           L == {k \in DOMAIN kept : kept[k] # c}
           drop == ToSet(idle) \ ToSet(kept)
           q == Taken(kept, c)
<1>3. h \in Host /\ (kind[r] # "forward" => h = Member(r))
  <2>1. Member(r) \in Host
    BY ExchangeAssumption DEF TypeOK, Host, Member
  <2>2. QED
    BY <1>1, <2>1
<1>4. idle \in Seq(Conn) /\ IsInjective(idle)
    BY DEF TypeOK, PoolIsSpare
<1>5. kept = Staying(idle, K) /\ K \in SUBSET (DOMAIN idle)
    BY DEF Kept
<1>6. /\ kept \in Seq(Conn) /\ Len(kept) <= Len(idle) /\ IsInjective(kept)
      /\ ToSet(kept) = {idle[k] : k \in K}
  <2> HIDE DEF K, kept
  <2>1. QED
    BY <1>4, <1>5, StayingPool
<1>7. ToSet(kept) \subseteq ToSet(idle) /\ ToSet(idle) \subseteq Conn
  <2> HIDE DEF kept
  <2>1. ToSet(idle) \subseteq Conn
    BY <1>4 DEF ToSet
  <2>2. QED
    BY <1>6, <2>1 DEF ToSet
<1>8. c = None \/ c \in ToSet(kept)
  <2> DEFINE going == {k \in DOMAIN kept : to[kept[k]] = h}
  <2>1. c = IF going = {} THEN None ELSE kept[Max(going)]
    BY DEF Held
  <2> HIDE DEF kept, c
  <2>2. PICK m \in Nat : m = Len(kept)
    BY <1>6
  <2>3. going \in SUBSET (1 .. m)
    BY <1>6, <2>2
  <2>4. going # {} => Max(going) \in going
    BY <2>3, LastPosition
  <2>5. QED
    BY <2>1, <2>4 DEF ToSet
<1>9. q = Staying(kept, L) /\ L \in SUBSET (DOMAIN kept)
    BY DEF Taken
<1>10. /\ q \in Seq(Conn) /\ Len(q) <= Len(kept) /\ IsInjective(q)
       /\ ToSet(q) = {kept[k] : k \in L}
  <2> HIDE DEF q, L, kept
  <2>1. QED
    BY <1>6, <1>9, StayingPool
<1>11. ToSet(q) = ToSet(kept) \ {c}
  <2> HIDE DEF q, kept, c
  <2>1. QED
    BY <1>10 DEF ToSet
<1>12. Takes(r, h, c, drop, q)
  <2>1. /\ host' = [host EXCEPT ![r] = h]
        /\ link' = [link EXCEPT ![r] = c]
        /\ reused' = [reused EXCEPT ![r] = c # None]
        /\ at' = [at EXCEPT ![r] = IF c = None THEN "connecting" ELSE "writing"]
        /\ asked' = [asked EXCEPT ![r] = @ \cup {h}]
        /\ idle' = q /\ Closing(drop)
    BY <1>1
  <2>2. Len(q) <= Len(idle)
    <3> HIDE DEF q, kept
    <3>1. QED
      BY <1>4, <1>6, <1>10
  <2> HIDE DEF q, kept, c
  <2>3. drop \subseteq ToSet(idle) /\ ToSet(q) \subseteq ToSet(idle) \ drop
    BY <1>7, <1>11
  <2>4. c # None => c \in (ToSet(idle) \ drop) \ ToSet(q)
    BY <1>7, <1>8, <1>11
  <2> HIDE DEF drop
  <2>5. QED
    BY <1>2, <1>3, <1>10, <2>1, <2>2, <2>3, <2>4 DEF Takes
<1>13. drop \in SUBSET Conn /\ c \in Conn \cup {None}
  <2> HIDE DEF kept, c
  <2>1. QED
    BY <1>7, <1>8
<1>14. QED
  <2> HIDE DEF q, kept, c, drop
  <2>1. QED
    BY <1>3, <1>10, <1>12, <1>13

\* What keeping does to the pool: the call's connection joins it if it is open,
\* drop is closed for it and q is left.
Pools(r, drop, q) ==
    /\ idle' = q /\ Closing(drop)
    /\ Len(q) <= Cache /\ IsInjective(q)
    /\ drop \subseteq ToSet(idle) /\ ToSet(q) \cap drop = {}
    /\ ToSet(q) \subseteq ToSet(idle) \cup {link[r]}
    /\ link[r] \in ToSet(q) => link[r] # None /\ up[link[r]]

\* Every call that is kept pools its connection that way.
LEMMA KeepKeeps ==
    ASSUME TypeOK, PoolIsSpare, NEW r \in Call, Keep(r)
    PROVE  \E drop \in SUBSET Conn, q \in Seq(Conn) : Pools(r, drop, q)
<1>1. PICK q : q = idle'
    OBVIOUS
<1> DEFINE drop == ToSet(idle) \ ToSet(q)
<1>2. q = (IF link[r] # None /\ up[link[r]] THEN Append(Evicted, link[r]) ELSE idle)
      /\ Closing(drop)
    BY <1>1 DEF Keep
<1>3. idle \in Seq(Conn) /\ Len(idle) <= Cache /\ IsInjective(idle) /\ Cache \in Nat \ {0}
    BY ExchangeAssumption DEF TypeOK, PoolIsSpare
<1>4. ToSet(idle) \subseteq Conn /\ link[r] \notin ToSet(idle)
  <2>1. ToSet(idle) \subseteq Conn
    BY <1>3 DEF ToSet
  <2>2. link[r] \notin ToSet(idle)
    BY DEF PoolIsSpare
  <2>3. QED
    BY <2>1, <2>2
<1>5. link[r] \in Conn \cup {None}
    BY DEF TypeOK
<1>6. /\ q \in Seq(Conn) /\ Len(q) <= Cache /\ IsInjective(q)
      /\ ToSet(q) \subseteq ToSet(idle) \cup {link[r]}
      /\ link[r] \in ToSet(q) => link[r] # None /\ up[link[r]]
  <2>1. CASE ~(link[r] # None /\ up[link[r]])
    BY <1>2, <1>3, <1>4, <2>1
  <2>2. CASE link[r] # None /\ up[link[r]]
    <3>1. PICK e \in Seq(Conn) : e = Evicted
      <4>1. Len(idle) >= Cache => idle # <<>>
        BY <1>3
      <4>2. Evicted \in Seq(Conn)
        BY <1>3, <4>1 DEF Evicted
      <4>3. QED
        BY <4>2
    <3>2. Len(e) < Cache /\ Len(e) <= Len(idle)
      BY <1>3, <3>1 DEF Evicted
    <3>3. PICK d \in {0, 1} : \A k \in 1 .. Len(e) : k + d \in 1 .. Len(idle) /\ e[k] = idle[k + d]
      BY <1>3, <3>1 DEF Evicted
    <3>4. \A k \in 1 .. Len(e) : e[k] \in ToSet(idle)
      BY <1>3, <3>3 DEF ToSet
    <3>5. \A k, l \in 1 .. Len(e) : e[k] = e[l] => k = l
      <4> SUFFICES ASSUME NEW k \in 1 .. Len(e), NEW l \in 1 .. Len(e), e[k] = e[l]
                   PROVE  k = l
        OBVIOUS
      <4>1. k + d \in DOMAIN idle /\ l + d \in DOMAIN idle /\ idle[k + d] = idle[l + d]
        BY <1>3, <3>3
      <4>2. k + d = l + d
        BY <1>3, <4>1 DEF IsInjective
      <4>3. QED
        BY <4>2
    <3>6. q = Append(e, link[r]) /\ link[r] \in Conn
      BY <1>2, <1>5, <2>2, <3>1
    <3>7. /\ q \in Seq(Conn) /\ Len(q) = Len(e) + 1 /\ DOMAIN q = 1 .. Len(e) + 1
          /\ q[Len(e) + 1] = link[r] /\ \A k \in 1 .. Len(e) : q[k] = e[k]
      BY <3>6
    <3>8. Len(q) <= Cache
      BY <1>3, <3>2, <3>7
    <3>9. \A k \in DOMAIN q : k \in 1 .. Len(e) \/ k = Len(e) + 1
      BY <3>7
    <3>10. IsInjective(q)
      BY <1>4, <3>4, <3>5, <3>7, <3>9 DEF IsInjective
    <3>11. ToSet(q) \subseteq ToSet(idle) \cup {link[r]}
      <4>1. \A k \in DOMAIN q : q[k] \in ToSet(idle) \cup {link[r]}
        BY <3>4, <3>7, <3>9
      <4>2. QED
        BY <4>1 DEF ToSet
    <3>12. QED
      BY <2>2, <3>7, <3>8, <3>10, <3>11
  <2>3. QED
    BY <2>1, <2>2
<1>7. QED
    BY <1>1, <1>2, <1>4, <1>6 DEF Pools
-----------------------------------------------------------------------------
(* What every step keeps *)

\* A stream that was told to stop is not begun again.
LEMMA StreamStep ==
    ASSUME TypeOK, StreamInv, [Next]_vars
    PROVE  StreamInv'
<1> USE DEF pool, calls, net, feeding, history, elsewhere
<1>1. ASSUME NEW r \in Call, Attempt(r) PROVE StreamInv'
    BY <1>1 DEF Attempt, StreamInv, StopIsHeard
<1>2. ASSUME NEW r \in Call, Connect(r) PROVE StreamInv'
    BY <1>2 DEF Connect, StreamInv, StopIsHeard
<1>3. ASSUME NEW r \in Call, Write(r) PROVE StreamInv'
    BY <1>3 DEF Write, StreamInv, StopIsHeard
<1>4. ASSUME NEW r \in Call, Read(r) PROVE StreamInv'
    BY <1>4 DEF Read, StreamInv, StopIsHeard
<1>5. ASSUME NEW r \in Call, Fail(r) PROVE StreamInv'
    BY <1>5 DEF Fail, StreamInv, StopIsHeard
<1>6. ASSUME NEW r \in Call, Keep(r) PROVE StreamInv'
    BY <1>6 DEF Keep, StreamInv, StopIsHeard
<1>7. ASSUME NEW c \in Conn, Handle(c) PROVE StreamInv'
    BY <1>7 DEF Handle, StreamInv, StopIsHeard
<1>8. ASSUME NEW c \in Conn, Reply(c) PROVE StreamInv'
    BY <1>8 DEF Reply, StreamInv, StopIsHeard
<1>9. ASSUME NEW c \in Conn, CloseThere(c) PROVE StreamInv'
    BY <1>9 DEF CloseThere, StreamInv, StopIsHeard
<1>10. ASSUME NEW c \in Conn, FinArrives(c) PROVE StreamInv'
    BY <1>10 DEF FinArrives, StreamInv, StopIsHeard
<1>11. CASE Stream
    BY <1>11 DEF Stream, StreamInv, StopIsHeard, TypeOK
<1>12. CASE Feed
    BY <1>12 DEF Feed, StreamInv, StopIsHeard, TypeOK
<1>13. CASE Feeds
    BY <1>13 DEF Feeds, StreamInv, StopIsHeard, TypeOK
<1>14. CASE StopStream
    BY <1>14 DEF StopStream, StreamInv, StopIsHeard, TypeOK
<1>15. CASE CloseStream
    BY <1>15 DEF CloseStream, BehindFeed, StreamInv, StopIsHeard, TypeOK
<1>16. CASE UNCHANGED vars
    BY <1>16 DEF vars, StreamInv, StopIsHeard, TypeOK
<1>17. QED
    BY <1>1, <1>2, <1>3, <1>4, <1>5, <1>6, <1>7, <1>8, <1>9, <1>10, <1>11,
       <1>12, <1>13, <1>14, <1>15, <1>16
       DEF Next, OnCall, OtherEnd

\* Closing connections keeps the types of theirs.
LEMMA ClosingType ==
    ASSUME TypeOK, NEW ids, Closing(ids)
    PROVE  back' \in [Conn -> Seq(Answer \cup {Fin})] /\ up' \in [Conn -> BOOLEAN]
<1>1. \A c \in Conn : back[c] \in Seq(Answer \cup {Fin}) /\ up[c] \in BOOLEAN
    BY DEF TypeOK
<1>2. <<>> \in Seq(Answer \cup {Fin})
    OBVIOUS
<1>3. QED
    BY <1>1, <1>2 DEF Closing

\* Every step keeps the types.
LEMMA TypeStep ==
    ASSUME TypeOK, PoolIsSpare, LinkInv, WalkInv, [Next]_vars
    PROVE  TypeOK'
<1> USE DEF pool, calls, net, feeding, history, elsewhere
<1>1. ASSUME NEW r \in Call, Attempt(r) PROVE TypeOK'
  <2>1. PICK h \in Host, c \in Conn \cup {None}, drop \in SUBSET Conn, q \in Seq(Conn) :
            Takes(r, h, c, drop, q)
    BY <1>1, AttemptTakes
  <2>2. QED
    BY <2>1, ExchangeAssumption DEF Takes, Closing, TypeOK
<1>2. ASSUME NEW r \in Call, Connect(r) PROVE TypeOK'
  <2>1. PICK m \in Conn : m = made + 1
    BY <1>2, ExchangeAssumption DEF Connect, TypeOK, Conn
  <2>2. /\ made' = m
        /\ to' = [to EXCEPT ![m] = host[r]]
        /\ up' = [up EXCEPT ![m] = TRUE]
        /\ side' = [side EXCEPT ![m] = "waiting"]
        /\ link' = [link EXCEPT ![r] = m]
        /\ at' = [at EXCEPT ![r] = "writing"]
        /\ UNCHANGED <<pool, kind, attempt, host, reused, got, wire, back, feeding, history>>
    BY <1>2, <2>1 DEF Connect
  <2>3. made' \in 0 .. Connections
    BY <2>2, ExchangeAssumption DEF Conn
  <2>4. QED
    BY <2>2, <2>3 DEF TypeOK
<1>3. ASSUME NEW r \in Call, Write(r) PROVE TypeOK'
    BY <1>3 DEF Write, TypeOK, Host, Conn
<1>4. ASSUME NEW r \in Call, Read(r) PROVE TypeOK'
  <2>1. PICK c \in Conn : c = link[r]
    BY <1>4 DEF Read, LinkInv, LinkOK, TypeOK
  <2>2. PICK answer \in Answer \cup {Fin} : answer = Head(back[c])
    BY <1>4, <2>1 DEF Read, TypeOK
  <2>3. /\ back[c] # <<>> /\ answer # Fin
        /\ got' = [got EXCEPT ![r] = answer]
        /\ IF answer.keep
           THEN back' = [back EXCEPT ![c] = Tail(back[c])] /\ UNCHANGED up
           ELSE Closing({c})
        /\ at' = [at EXCEPT ![r] = "keeping"]
        /\ UNCHANGED <<pool, kind, attempt, host, link, reused, made, to, wire, side,
                       feeding, history>>
    BY <1>4, <2>1, <2>2 DEF Read, Closing
  <2>4. Tail(back[c]) \in Seq(Answer \cup {Fin})
    BY <2>3 DEF TypeOK
  <2>5. back' \in [Conn -> Seq(Answer \cup {Fin})] /\ up' \in [Conn -> BOOLEAN]
    <3>1. CASE answer.keep
      BY <2>3, <2>4, <3>1 DEF TypeOK
    <3>2. CASE ~answer.keep
      <4>1. Closing({c})
        BY <2>3, <3>2
      <4>2. QED
        BY <4>1, ClosingType
    <3>3. QED
      BY <3>1, <3>2
  <2>6. got' \in [Call -> Answer \cup {None}]
    BY <2>2, <2>3 DEF TypeOK
  <2>7. QED
    BY <2>3, <2>5, <2>6 DEF TypeOK
<1>5. ASSUME NEW r \in Call, Fail(r) PROVE TypeOK'
  <2>1. Closing(Broken(r))
    BY <1>5 DEF Fail
  <2>2. back' \in [Conn -> Seq(Answer \cup {Fin})] /\ up' \in [Conn -> BOOLEAN]
    BY <2>1, ClosingType
  <2>3. /\ at' \in [Call -> {"unmade", "next", "connecting", "writing", "reading",
                             "keeping", "answered", "unanswered"}]
        /\ reused' \in [Call -> BOOLEAN]
    BY <1>5 DEF Fail, TypeOK
  <2>4. UNCHANGED <<pool, kind, attempt, host, link, got, made, to, wire, side, feeding,
                    history>>
    BY <1>5 DEF Fail
  <2>5. QED
    BY <2>2, <2>3, <2>4 DEF TypeOK
<1>6. ASSUME NEW r \in Call, Keep(r) PROVE TypeOK'
  <2>1. PICK drop \in SUBSET Conn, q \in Seq(Conn) : Pools(r, drop, q)
    BY <1>6, KeepKeeps
  <2>2. back' \in [Conn -> Seq(Answer \cup {Fin})] /\ up' \in [Conn -> BOOLEAN]
    BY <2>1, ClosingType DEF Pools
  <2>3. /\ at' \in [Call -> {"unmade", "next", "connecting", "writing", "reading",
                             "keeping", "answered", "unanswered"}]
        /\ link' \in [Call -> Conn \cup {None}]
    BY <1>6 DEF Keep, TypeOK
  <2>4. current' \in Host /\ moved' \subseteq Call
    BY <1>6 DEF Keep, TypeOK
  <2>5. attempt' \in [Call -> 0 .. Members]
    <3>1. attempt[r] \in Nat /\ attempt[r] < Attempts(r)
      BY <1>6 DEF Keep, WalkInv, WalkOK, Trying, TypeOK
    <3>2. Attempts(r) <= Members /\ Attempts(r) \in Nat
      BY ExchangeAssumption DEF Attempts
    <3>3. attempt[r] + 1 \in 0 .. Members
      BY <3>1, <3>2, ExchangeAssumption
    <3>4. attempt' = attempt \/ attempt' = [attempt EXCEPT ![r] = attempt[r] + 1]
      BY <1>6 DEF Keep
    <3>5. QED
      BY ZenonT(60), <3>3, <3>4 DEF TypeOK
  <2>6. UNCHANGED <<kind, host, reused, got, made, to, wire, side, feeding, asked>>
    BY <1>6 DEF Keep
  <2>7. QED
    BY <2>1, <2>2, <2>3, <2>4, <2>5, <2>6 DEF Pools, TypeOK
<1>7. ASSUME NEW c \in Conn, Handle(c) PROVE TypeOK'
    BY <1>7 DEF Handle, TypeOK, Host, Conn
<1>8. ASSUME NEW c \in Conn, Reply(c) PROVE TypeOK'
  <2>1. PICK keep \in BOOLEAN, refused \in BOOLEAN :
            /\ back' = IF up[c]
                       THEN [back EXCEPT ![c] = Append(back[c],
                                [of |-> side[c], keep |-> keep, refused |-> refused])]
                       ELSE back
            /\ side' = [side EXCEPT ![c] = IF keep THEN "waiting" ELSE "closed"]
    BY <1>8 DEF Reply
  <2>2. [of |-> side[c], keep |-> keep, refused |-> refused] \in Answer
    BY <1>8 DEF Reply, Answer
  <2>3. \A a \in Answer : Append(back[c], a) \in Seq(Answer \cup {Fin})
    BY DEF TypeOK
  <2>4. back' \in [Conn -> Seq(Answer \cup {Fin})]
    BY <2>1, <2>2, <2>3 DEF TypeOK
  <2>5. UNCHANGED <<pool, calls, made, to, up, wire, feeding, history>>
    BY <1>8 DEF Reply
  <2>6. side' \in [Conn -> Call \cup {"waiting", "closed"}]
    BY <2>1 DEF TypeOK
  <2>7. QED
    BY <2>4, <2>5, <2>6 DEF TypeOK
<1>9. ASSUME NEW c \in Conn, CloseThere(c) PROVE TypeOK'
    BY <1>9 DEF CloseThere, TypeOK, Host, Conn
<1>10. ASSUME NEW c \in Conn, FinArrives(c) PROVE TypeOK'
  <2>1. back' = [back EXCEPT ![c] = Append(back[c], Fin)]
    BY <1>10 DEF FinArrives
  <2>2. Append(back[c], Fin) \in Seq(Answer \cup {Fin})
    BY DEF TypeOK
  <2>3. UNCHANGED <<pool, calls, made, to, up, wire, side, feeding, history>>
    BY <1>10 DEF FinArrives
  <2>4. QED
    BY <2>1, <2>2, <2>3 DEF TypeOK
<1>11. CASE Stream
    BY <1>11 DEF Stream, TypeOK, Host, Conn
<1>12. CASE Feed
    BY <1>12 DEF Feed, TypeOK, Host, Conn
<1>13. CASE Feeds
    BY <1>13 DEF Feeds, TypeOK, Host, Conn
<1>14. CASE StopStream
    BY <1>14 DEF StopStream, TypeOK, Host, Conn
<1>15. CASE CloseStream
    BY <1>15 DEF CloseStream, BehindFeed, TypeOK, Host, Conn
<1>16. CASE UNCHANGED vars
    BY <1>16 DEF vars, TypeOK, Host, Conn
<1>17. QED
    BY <1>1, <1>2, <1>3, <1>4, <1>5, <1>6, <1>7, <1>8, <1>9, <1>10, <1>11,
       <1>12, <1>13, <1>14, <1>15, <1>16
       DEF Next, OnCall, OtherEnd

\* The entries of a sequence with one more.
LEMMA AppendEntries ==
    ASSUME NEW S, NEW s \in Seq(S), NEW e \in S, NEW k \in DOMAIN Append(s, e)
    PROVE  \/ k \in DOMAIN s /\ Append(s, e)[k] = s[k]
           \/ k = Len(s) + 1 /\ Append(s, e)[k] = e
    OBVIOUS

\* The entries of a sequence without its first.
LEMMA TailEntries ==
    ASSUME NEW S, NEW s \in Seq(S), s # <<>>, NEW k \in DOMAIN Tail(s)
    PROVE  k + 1 \in DOMAIN s /\ k + 1 # 1 /\ Tail(s)[k] = s[k + 1]
    OBVIOUS

\* What connecting does: m is the connection made.
Connects(r, m) ==
    /\ at[r] = "connecting"
    /\ made' = m
    /\ to' = [to EXCEPT ![m] = host[r]]
    /\ up' = [up EXCEPT ![m] = TRUE]
    /\ side' = [side EXCEPT ![m] = "waiting"]
    /\ link' = [link EXCEPT ![r] = m]
    /\ at' = [at EXCEPT ![r] = "writing"]
    /\ UNCHANGED <<pool, kind, attempt, host, reused, got, wire, back, feeding, history>>

\* Every connecting call makes one.
LEMMA ConnectConnects ==
    ASSUME TypeOK, NEW r \in Call, Connect(r)
    PROVE  \E m \in Conn : m = made + 1 /\ Connects(r, m)
<1>1. PICK m \in Conn : m = made + 1
    BY ExchangeAssumption DEF Connect, TypeOK, Conn
<1>2. Connects(r, m)
    BY <1>1 DEF Connect, Connects
<1>3. QED
    BY <1>1, <1>2

\* What writing does: c is the call's connection, and nothing is under way on it.
Writes(r, c) ==
    /\ at[r] = "writing" /\ link[r] = c /\ up[c] /\ c <= made /\ Quiet(c)
    /\ wire' = [wire EXCEPT ![c] = IF side[c] = "closed" THEN wire[c] ELSE r]
    /\ at' = [at EXCEPT ![r] = "reading"]
    /\ UNCHANGED <<pool, kind, attempt, host, link, reused, got, made, to, up, side, back,
                   feeding, history>>

\* Every write is one on the call's own connection.
LEMMA WriteWrites ==
    ASSUME TypeOK, LinkInv, NEW r \in Call, Write(r)
    PROVE  \E c \in Conn : Writes(r, c)
<1>1. PICK c \in Conn : c = link[r]
    BY DEF Write, LinkInv, LinkOK, TypeOK
<1>2. at[r] = "writing" /\ up[c] /\ c <= made /\ Quiet(c)
  <2>1. at[r] = "writing" /\ up[link[r]] /\ link[r] <= made
    BY <1>1, ExchangeAssumption DEF Write, LinkInv, LinkOK, Conn
  <2>2. Quiet(link[r])
    BY <1>1, <2>1, ExchangeAssumption DEF LinkInv, LinkOK, Conn
  <2>3. QED
    BY <1>1, <2>1, <2>2 DEF Quiet
<1>3. QED
    BY <1>1, <1>2 DEF Write, Writes

\* What failing does: the call's connection, if it has one, is closed, and the
\* call connects again or is to be kept.
Fails(r) ==
    /\ \A c \in Conn :
        /\ up'[c] = (up[c] /\ c # link[r])
        /\ back'[c] = IF c = link[r] THEN <<>> ELSE back[c]
    /\ at[r] \in {"connecting", "writing", "reading"}
    /\ \E now \in {"connecting", "keeping"} : at' = [at EXCEPT ![r] = now]
    /\ UNCHANGED <<pool, kind, attempt, host, link, got, made, to, wire, side, feeding,
                   history>>

\* Every failure closes the call's connection.
LEMMA FailFails ==
    ASSUME TypeOK, NEW r \in Call, Fail(r)
    PROVE  Fails(r)
    BY DEF Fail, Closing, Broken, TypeOK, Fails

\* What replying does: an answer to the call that was acted on is to be read.
Replies(c, a, now) ==
    /\ side[c] \in Call /\ a.of = side[c] /\ a # Fin
    /\ back' = IF up[c] THEN [back EXCEPT ![c] = Append(back[c], a)] ELSE back
    /\ side' = [side EXCEPT ![c] = now]
    /\ UNCHANGED <<pool, calls, made, to, up, wire, feeding, history>>

\* Every reply is to the call that was read.
LEMMA ReplyReplies ==
    ASSUME TypeOK, NEW c \in Conn, Reply(c)
    PROVE  \E a \in Answer, now \in {"waiting", "closed"} : Replies(c, a, now)
<1>1. PICK keep \in BOOLEAN, refused \in BOOLEAN :
        /\ back' = IF up[c]
                   THEN [back EXCEPT ![c] = Append(back[c],
                            [of |-> side[c], keep |-> keep, refused |-> refused])]
                   ELSE back
        /\ side' = [side EXCEPT ![c] = IF keep THEN "waiting" ELSE "closed"]
    BY DEF Reply
<1>2. side[c] \in Call /\ UNCHANGED <<pool, calls, made, to, up, wire, feeding, history>>
    BY DEF Reply
<1>3. PICK a \in Answer : a = [of |-> side[c], keep |-> keep, refused |-> refused]
    BY <1>2 DEF Answer
<1>4. a.of = side[c] /\ a # Fin
    BY <1>2, <1>3, ExchangeAssumption DEF Fin
<1>5. PICK now \in {"waiting", "closed"} : now = IF keep THEN "waiting" ELSE "closed"
    OBVIOUS
<1>6. QED
    BY <1>1, <1>2, <1>3, <1>4, <1>5 DEF Replies

\* What reading does: a is the first thing to be read from c, the call's
\* connection, and it is an answer.
Reads(r, c, a) ==
    /\ at[r] = "reading" /\ link[r] = c
    /\ back[c] # <<>> /\ a = back[c][1] /\ a # Fin
    /\ got' = [got EXCEPT ![r] = a]
    /\ \A d \in Conn :
        /\ up'[d] = (up[d] /\ (d = c => a.keep))
        /\ back'[d] = IF d # c THEN back[d] ELSE IF a.keep THEN Tail(back[c]) ELSE <<>>
    /\ at' = [at EXCEPT ![r] = "keeping"]
    /\ UNCHANGED <<pool, kind, attempt, host, link, reused, made, to, wire, side, feeding,
                   history>>

\* Every read is of an answer on the call's own connection.
LEMMA ReadReads ==
    ASSUME TypeOK, LinkInv, NEW r \in Call, Read(r)
    PROVE  \E c \in Conn, a \in Answer : Reads(r, c, a)
<1>1. PICK c \in Conn : c = link[r]
    BY DEF Read, LinkInv, LinkOK, TypeOK
<1>2. back[c] # <<>> /\ back[c] \in Seq(Answer \cup {Fin}) /\ Head(back[c]) # Fin
    BY <1>1 DEF Read, TypeOK
<1>3. PICK a \in Answer : a = Head(back[c]) /\ a = back[c][1]
    BY <1>2
<1>4. /\ at[r] = "reading"
      /\ got' = [got EXCEPT ![r] = a]
      /\ at' = [at EXCEPT ![r] = "keeping"]
      /\ UNCHANGED <<pool, kind, attempt, host, link, reused, made, to, wire, side,
                     feeding, history>>
    BY <1>1, <1>3 DEF Read
<1>5. IF a.keep
      THEN back' = [back EXCEPT ![c] = Tail(back[c])] /\ UNCHANGED up
      ELSE /\ up' = [d \in Conn |-> up[d] /\ d \notin {c}]
           /\ back' = [d \in Conn |-> IF d \in {c} THEN <<>> ELSE back[d]]
    BY <1>1, <1>3 DEF Read, Closing
<1>6. a.keep \in BOOLEAN /\ up \in [Conn -> BOOLEAN]
    BY DEF TypeOK, Answer
<1>7. ASSUME NEW d \in Conn
      PROVE  /\ up'[d] = (up[d] /\ (d = c => a.keep))
             /\ back'[d] = IF d # c THEN back[d] ELSE IF a.keep THEN Tail(back[c]) ELSE <<>>
  <2>1. CASE a.keep
    BY <1>5, <1>6, <2>1 DEF TypeOK
  <2>2. CASE ~a.keep
    BY <1>5, <1>6, <2>2 DEF TypeOK
  <2>3. QED
    BY <2>1, <2>2
<1>8. QED
    BY <1>1, <1>2, <1>3, <1>4, <1>7 DEF Reads

\* What is to be read from a connection ends with its end.
LEMMA ConnStep ==
    ASSUME TypeOK, PoolIsSpare, LinkInv, ConnInv, [Next]_vars
    PROVE  ConnInv'
<1> USE DEF pool, calls, net, feeding, history, elsewhere
<1>1. ASSUME NEW r \in Call, Attempt(r) PROVE ConnInv'
  <2>1. PICK h \in Host, c \in Conn \cup {None}, drop \in SUBSET Conn, q \in Seq(Conn) :
            Takes(r, h, c, drop, q)
    BY <1>1, AttemptTakes
  <2>2. QED
    BY <2>1 DEF Takes, Closing, ConnInv, TypeOK
<1>2. ASSUME NEW r \in Call, Connect(r) PROVE ConnInv'
  <2>1. PICK m \in Conn : m = made + 1 /\ Connects(r, m)
    BY <1>2, ConnectConnects
  <2>2. QED
    BY <2>1 DEF Connects, ConnInv, TypeOK
<1>3. ASSUME NEW r \in Call, Write(r) PROVE ConnInv'
  <2>1. PICK c \in Conn : Writes(r, c)
    BY <1>3, WriteWrites
  <2>2. side[c] \in {"waiting", "closed"}
    BY <2>1 DEF Writes, Quiet, TypeOK
  <2>3. ~(c > made)
    BY <2>1, ExchangeAssumption DEF Writes, TypeOK, Conn
  <2>4. \A d \in Conn : wire'[d] = wire[d] \/ (d = c /\ side[c] = "waiting")
    BY <2>1, <2>2 DEF Writes, TypeOK
  <2>5. QED
    BY <2>1, <2>3, <2>4 DEF Writes, ConnInv
<1>4. ASSUME NEW r \in Call, Read(r) PROVE ConnInv'
  <2>1. PICK c \in Conn, a \in Answer : Reads(r, c, a)
    BY <1>4, ReadReads
  <2>2. back[c] \in Seq(Answer \cup {Fin})
    BY DEF TypeOK
  <2>3. \A k \in DOMAIN Tail(back[c]) : k + 1 \in DOMAIN back[c] /\ Tail(back[c])[k] = back[c][k + 1]
    BY <2>1, <2>2, TailEntries DEF Reads
  <2>4. up[c] /\ up \in [Conn -> BOOLEAN] /\ a.keep \in BOOLEAN
    BY <2>1 DEF Reads, LinkInv, LinkOK, TypeOK, Answer
  <2>5. ASSUME NEW d \in Conn, d # c, NEW k \in DOMAIN back'[d]
        PROVE  k \in DOMAIN back[d] /\ back'[d][k] = back[d][k]
    BY <2>1, <2>5 DEF Reads
  <2>6. ASSUME NEW k \in DOMAIN back'[c]
        PROVE  \E l \in DOMAIN back[c] : back'[c][k] = back[c][l]
    <3>1. CASE a.keep
      <4>1. back'[c] = Tail(back[c])
        BY <2>1, <3>1 DEF Reads
      <4>2. k + 1 \in DOMAIN back[c] /\ back'[c][k] = back[c][k + 1]
        BY <2>3, <2>6, <4>1
      <4>3. QED
        BY <4>2
    <3>2. CASE ~a.keep
      <4>1. back'[c] = <<>>
        BY <2>1, <3>2 DEF Reads
      <4>2. QED
        BY <2>6, <4>1
    <3>3. QED
      BY <2>4, <3>1, <3>2
  <2>7. \A d \in Conn : (\E k \in DOMAIN back'[d] : back'[d][k] = Fin) => side[d] = "closed"
    BY <2>5, <2>6 DEF ConnInv
  <2>8. \A d \in Conn : /\ d > made => ~up'[d]
                        /\ ~up'[d] => back'[d] = <<>>
    BY <2>1, <2>4 DEF Reads, ConnInv
  <2>9. QED
    BY <2>1, <2>7, <2>8 DEF Reads, ConnInv
<1>5. ASSUME NEW r \in Call, Fail(r) PROVE ConnInv'
  <2>1. Fails(r)
    BY <1>5, FailFails
  <2>2. QED
    BY <2>1 DEF Fails, ConnInv, TypeOK
<1>6. ASSUME NEW r \in Call, Keep(r) PROVE ConnInv'
  <2>1. PICK drop \in SUBSET Conn, q \in Seq(Conn) : Pools(r, drop, q)
    BY <1>6, KeepKeeps
  <2>2. QED
    BY <1>6, <2>1 DEF Pools, Keep, Closing, ConnInv, TypeOK
<1>7. ASSUME NEW c \in Conn, Handle(c) PROVE ConnInv'
    BY <1>7 DEF Handle, ConnInv, TypeOK
<1>8. ASSUME NEW c \in Conn, Reply(c) PROVE ConnInv'
  <2>1. PICK a \in Answer, now \in {"waiting", "closed"} : Replies(c, a, now)
    BY <1>8, ReplyReplies
  <2>2. \A k \in DOMAIN back[c] : back[c][k] # Fin
    BY <2>1, ExchangeAssumption DEF Replies, ConnInv
  <2>3. ASSUME NEW d \in Conn, NEW k \in DOMAIN back'[d], back'[d][k] = Fin
        PROVE  k \in DOMAIN back[d] /\ back[d][k] = Fin /\ d # c
    <3>1. CASE d = c /\ up[c]
      <4>1. back[c] \in Seq(Answer \cup {Fin}) /\ back'[c] = Append(back[c], a)
        BY <2>1, <3>1 DEF Replies, TypeOK
      <4>2. back'[c][k] = a \/ (k \in DOMAIN back[c] /\ back'[c][k] = back[c][k])
        BY <2>3, <3>1, <4>1, AppendEntries
      <4>3. QED
        BY <2>1, <2>2, <2>3, <3>1, <4>2 DEF Replies
    <3>2. CASE d # c \/ ~up[c]
      BY <2>1, <2>2, <2>3, <3>2 DEF Replies, TypeOK
    <3>3. QED
      BY <3>1, <3>2
  <2>4. \A d \in Conn : (\E k \in DOMAIN back'[d] : back'[d][k] = Fin) => side'[d] = "closed"
    BY <2>1, <2>3 DEF Replies, ConnInv, TypeOK
  <2>5. \A d \in Conn : ~up[d] => back'[d] = <<>>
    BY <2>1 DEF Replies, ConnInv, TypeOK
  <2>6. \A d \in Conn : wire[d] # None => side'[d] = "waiting"
    BY <2>1, ExchangeAssumption DEF Replies, ConnInv, TypeOK
  <2>7. QED
    BY <2>1, <2>4, <2>5, <2>6 DEF Replies, ConnInv
<1>9. ASSUME NEW c \in Conn, CloseThere(c) PROVE ConnInv'
    BY <1>9 DEF CloseThere, ConnInv, TypeOK
<1>10. ASSUME NEW c \in Conn, FinArrives(c) PROVE ConnInv'
    BY <1>10 DEF FinArrives, ConnInv, TypeOK
<1>11. CASE Stream
    BY <1>11 DEF Stream, ConnInv, TypeOK
<1>12. CASE Feed
    BY <1>12 DEF Feed, ConnInv, TypeOK
<1>13. CASE Feeds
    BY <1>13 DEF Feeds, ConnInv, TypeOK
<1>14. CASE StopStream
    BY <1>14 DEF StopStream, ConnInv, TypeOK
<1>15. CASE CloseStream
    BY <1>15 DEF CloseStream, ConnInv, TypeOK
<1>16. CASE UNCHANGED vars
    BY <1>16 DEF vars, ConnInv, TypeOK
<1>17. QED
    BY <1>1, <1>2, <1>3, <1>4, <1>5, <1>6, <1>7, <1>8, <1>9, <1>10, <1>11,
       <1>12, <1>13, <1>14, <1>15, <1>16
       DEF Next, OnCall, OtherEnd

\* A step that leaves a call and its connection alone leaves what is under way
\* on it.
LEMMA LinkFrame ==
    ASSUME NEW p \in Call, LinkOK(p), at'[p] = at[p], link'[p] = link[p],
           made \in Int, made' \in Int, made <= made',
           link[p] \in Int \cup {None},
           link[p] # None =>
                /\ up'[link[p]] = up[link[p]] /\ wire'[link[p]] = wire[link[p]]
                /\ side'[link[p]] = side[link[p]] /\ back'[link[p]] = back[link[p]]
    PROVE  LinkOK(p)'
    BY DEF LinkOK, Quiet, Carries

\* No other call, and nothing of the pool, is on the connection of a call.
LEMMA LinksApart ==
    ASSUME TypeOK, PoolIsSpare, NEW p \in Call
    PROVE  /\ link[p] \in Int \cup {None} /\ made \in Int /\ None \notin Conn
           /\ link[p] \notin ToSet(idle)
           /\ link[p] # None => link[p] \in Conn /\ \A r \in Call \ {p} : link[r] # link[p]
<1>1. link[p] \notin ToSet(idle)
    BY DEF PoolIsSpare
<1>2. link[p] # None => \A r \in Call \ {p} : link[r] # link[p]
    BY DEF PoolIsSpare
<1>3. link[p] \in Conn \cup {None} /\ made \in Int
    BY ExchangeAssumption DEF TypeOK
<1>4. Conn \subseteq Int /\ None \notin Conn
    BY ExchangeAssumption DEF Conn
<1>5. QED
    BY <1>1, <1>2, <1>3, <1>4

\* On a call's connection nothing is under way but its own.
LEMMA LinkStep ==
    ASSUME TypeOK, PoolIsSpare, LinkInv, ConnInv, PoolInv, [Next]_vars
    PROVE  LinkInv'
<1> USE DEF pool, calls, net, feeding, history, elsewhere
<1>1. ASSUME NEW r \in Call, Attempt(r) PROVE LinkInv'
  <2> SUFFICES ASSUME NEW p \in Call PROVE LinkOK(p)'
    BY DEF LinkInv
  <2>1. PICK h \in Host, c \in Conn \cup {None}, drop \in SUBSET Conn, q \in Seq(Conn) :
            Takes(r, h, c, drop, q)
    BY <1>1, AttemptTakes
  <2>2. /\ link[p] \in Int \cup {None} /\ made \in Int /\ link[p] \notin ToSet(idle)
        /\ link[p] # None => link[p] \in Conn /\ \A z \in Call \ {p} : link[z] # link[p]
        /\ LinkOK(p) /\ None \notin Conn
    BY LinksApart DEF LinkInv
  <2>3. CASE p # r
    <3>1. link[p] \notin drop
      BY <2>1, <2>2 DEF Takes
    <3>2. at'[p] = at[p] /\ link'[p] = link[p] /\ made' = made /\ wire' = wire /\ side' = side
      BY <2>1, <2>3 DEF Takes, TypeOK
    <3>3. link[p] # None => up'[link[p]] = up[link[p]] /\ back'[link[p]] = back[link[p]]
      BY <2>1, <2>2, <3>1 DEF Takes, Closing, TypeOK
    <3>4. QED
      BY <2>2, <3>2, <3>3, LinkFrame
  <2>4. CASE p = r /\ c = None
    BY <2>1, <2>4 DEF Takes, LinkOK, TypeOK
  <2>5. CASE p = r /\ c # None
    <3>1. c \in Conn /\ c \in ToSet(idle) /\ c \notin drop
      BY <2>1, <2>5 DEF Takes
    <3>2. c <= made /\ Quiet(c) /\ up[c]
      BY <3>1 DEF PoolInv, PoolIsSpare
    <3>3. /\ at'[r] = "writing" /\ link'[r] = c /\ made' = made
          /\ up'[c] = up[c] /\ back'[c] = back[c] /\ wire' = wire /\ side' = side
      BY <2>1, <2>5, <3>1, <3>2 DEF Takes, Closing, TypeOK
    <3>4. QED
      BY <2>5, <3>1, <3>2, <3>3 DEF LinkOK, Quiet
  <2>6. QED
    BY <2>3, <2>4, <2>5
<1>2. ASSUME NEW r \in Call, Connect(r) PROVE LinkInv'
  <2> SUFFICES ASSUME NEW p \in Call PROVE LinkOK(p)'
    BY DEF LinkInv
  <2>1. PICK m \in Conn : m = made + 1 /\ Connects(r, m)
    BY <1>2, ConnectConnects
  <2>2. /\ link[p] \in Int \cup {None} /\ made \in Int /\ link[p] \notin ToSet(idle)
        /\ link[p] # None => link[p] \in Conn /\ \A z \in Call \ {p} : link[z] # link[p]
        /\ LinkOK(p) /\ None \notin Conn
    BY LinksApart DEF LinkInv
  <2>3. CASE p # r
    <3>1. link[p] # None => link[p] # m
      BY <2>1, <2>2 DEF Connects, LinkOK
    <3>2. at'[p] = at[p] /\ link'[p] = link[p] /\ made' \in Int /\ made <= made'
      BY <2>1, <2>2, <2>3 DEF Connects, TypeOK
    <3>3. link[p] # None =>
            /\ up'[link[p]] = up[link[p]] /\ wire'[link[p]] = wire[link[p]]
            /\ side'[link[p]] = side[link[p]] /\ back'[link[p]] = back[link[p]]
      BY <2>1, <2>2, <3>1 DEF Connects, TypeOK
    <3>4. QED
      BY <2>2, <3>2, <3>3, LinkFrame
  <2>4. CASE p = r
    <3>1. m > made /\ m <= made'
      BY <2>1, <2>2 DEF Connects
    <3>2. wire[m] = None /\ back[m] = <<>>
      BY <3>1 DEF ConnInv
    <3>3. /\ at'[r] = "writing" /\ link'[r] = m /\ up'[m] = TRUE /\ side'[m] = "waiting"
          /\ wire'[m] = None /\ back'[m] = <<>>
      BY <2>1, <3>2 DEF Connects, TypeOK
    <3>4. Quiet(m)'
      BY <3>3, ExchangeAssumption DEF Quiet
    <3>5. QED
      BY <2>2, <2>4, <3>1, <3>3, <3>4 DEF LinkOK, Quiet
  <2>5. QED
    BY <2>3, <2>4
<1>3. ASSUME NEW r \in Call, Write(r) PROVE LinkInv'
  <2> SUFFICES ASSUME NEW p \in Call PROVE LinkOK(p)'
    BY DEF LinkInv
  <2>1. PICK c \in Conn : Writes(r, c)
    BY <1>3, WriteWrites
  <2>2. /\ link[p] \in Int \cup {None} /\ made \in Int /\ link[p] \notin ToSet(idle)
        /\ link[p] # None => link[p] \in Conn /\ \A z \in Call \ {p} : link[z] # link[p]
        /\ LinkOK(p) /\ None \notin Conn
    BY LinksApart DEF LinkInv
  <2>3. CASE p # r
    <3>1. link[p] # c
      BY <2>1, <2>2, <2>3 DEF Writes
    <3>2. QED
      BY <2>1, <2>2, <2>3, <3>1, LinkFrame DEF Writes, TypeOK
  <2>4. CASE p = r
    <3>1. at'[r] = "reading" /\ link'[r] = c /\ up' = up /\ side' = side /\ back' = back
      BY <2>1 DEF Writes, TypeOK
    <3>2. side[c] \in {"waiting", "closed"} /\ wire[c] = None
      BY <2>1 DEF Writes, Quiet, TypeOK
    <3>3. wire'[c] = (IF side[c] = "closed" THEN None ELSE r)
      BY <2>1, <3>2 DEF Writes, TypeOK
    <3>4. \A k \in DOMAIN back[c] : back[c][k] = Fin
      BY <2>1 DEF Writes, Quiet
    <3>5. side[c] # "closed" => back[c] = <<>>
      <4>1. side[c] # "closed" => \A k \in DOMAIN back[c] : back[c][k] # Fin
        BY DEF ConnInv
      <4>2. back[c] \in Seq(Answer \cup {Fin})
        BY DEF TypeOK
      <4>3. QED
        BY <3>4, <4>1, <4>2
    <3>6. side[c] # r
      BY <3>2, ExchangeAssumption
    <3>7. Carries(c, r)'
      BY <3>1, <3>2, <3>3, <3>4, <3>5, <3>6, ExchangeAssumption DEF Carries
    <3>8. QED
      BY <2>1, <2>2, <2>4, <3>1, <3>7 DEF Writes, LinkOK, Carries
  <2>5. QED
    BY <2>3, <2>4
<1>4. ASSUME NEW r \in Call, Read(r) PROVE LinkInv'
  <2> SUFFICES ASSUME NEW p \in Call PROVE LinkOK(p)'
    BY DEF LinkInv
  <2>1. PICK c \in Conn, a \in Answer : Reads(r, c, a)
    BY <1>4, ReadReads
  <2>2. /\ link[p] \in Int \cup {None} /\ made \in Int /\ link[p] \notin ToSet(idle)
        /\ link[p] # None => link[p] \in Conn /\ \A z \in Call \ {p} : link[z] # link[p]
        /\ LinkOK(p) /\ None \notin Conn
    BY LinksApart DEF LinkInv
  <2>3. CASE p # r
    <3>1. link[p] # c
      BY <2>1, <2>2, <2>3 DEF Reads
    <3>2. /\ at'[p] = at[p] /\ link'[p] = link[p]
          /\ made' = made /\ wire' = wire /\ side' = side
      BY <2>1, <2>3 DEF Reads, TypeOK
    <3>3. link[p] # None => up'[link[p]] = up[link[p]] /\ back'[link[p]] = back[link[p]]
      BY <2>1, <2>2, <3>1 DEF Reads, TypeOK
    <3>4. QED
      BY <2>2, <3>2, <3>3, LinkFrame
  <2>4. CASE p = r /\ a.keep
    <3>1. Carries(c, r) /\ up[c] /\ c <= made
      BY <2>1, <2>2, <2>4, ExchangeAssumption DEF Reads, LinkOK, Carries, Conn
    <3>2. wire[c] = None /\ side[c] \in {"waiting", "closed"}
      BY <2>1, <3>1 DEF Reads, Carries
    <3>3. back[c] \in Seq(Answer \cup {Fin}) /\ back'[c] = Tail(back[c])
      BY <2>1, <2>4 DEF Reads, TypeOK
    <3>4. ASSUME NEW k \in DOMAIN back'[c] PROVE back'[c][k] = Fin
      <4>1. k + 1 \in DOMAIN back[c] /\ k + 1 # 1 /\ back'[c][k] = back[c][k + 1]
        BY <2>1, <3>3, <3>4, TailEntries DEF Reads
      <4>2. QED
        BY <3>1, <4>1 DEF Carries
    <3>5. wire'[c] = None /\ side'[c] \notin Call
      BY <2>1, <3>2, ExchangeAssumption DEF Reads
    <3>6. /\ at'[r] = "keeping" /\ link'[r] = c /\ made' = made
      BY <2>1 DEF Reads, TypeOK
    <3>7. QED
      BY <2>4, <3>1, <3>4, <3>5, <3>6 DEF LinkOK, Quiet
  <2>5. CASE p = r /\ ~a.keep
    <3>1. at'[r] = "keeping" /\ link'[r] = c /\ made' = made /\ ~up'[c]
      BY <2>1, <2>5 DEF Reads, TypeOK
    <3>2. c <= made
      BY <2>1, <2>2, <2>5, ExchangeAssumption DEF Reads, LinkOK, Conn
    <3>3. QED
      BY <2>5, <3>1, <3>2 DEF LinkOK
  <2>6. QED
    BY <2>3, <2>4, <2>5
<1>5. ASSUME NEW r \in Call, Fail(r) PROVE LinkInv'
  <2> SUFFICES ASSUME NEW p \in Call PROVE LinkOK(p)'
    BY DEF LinkInv
  <2>1. Fails(r)
    BY <1>5, FailFails
  <2>2. /\ link[p] \in Int \cup {None} /\ made \in Int /\ link[p] \notin ToSet(idle)
        /\ link[p] # None => link[p] \in Conn /\ \A z \in Call \ {p} : link[z] # link[p]
        /\ LinkOK(p) /\ None \notin Conn
    BY LinksApart DEF LinkInv
  <2>3. CASE p # r
    <3>1. link[p] # None => link[p] # link[r]
      BY <2>2, <2>3
    <3>2. QED
      BY <2>1, <2>2, <2>3, <3>1, LinkFrame DEF Fails, TypeOK
  <2>4. CASE p = r
    <3>1. at'[r] \in {"connecting", "keeping"} /\ link'[r] = link[r] /\ made' = made
      BY <2>1 DEF Fails, TypeOK
    <3>2. link[r] # None => ~up'[link[r]]
      BY <2>1, <2>2, <2>4 DEF Fails
    <3>3. QED
      BY <2>2, <2>4, <3>1, <3>2 DEF LinkOK
  <2>5. QED
    BY <2>3, <2>4
<1>6. ASSUME NEW r \in Call, Keep(r) PROVE LinkInv'
  <2> SUFFICES ASSUME NEW p \in Call PROVE LinkOK(p)'
    BY DEF LinkInv
  <2>1. PICK drop \in SUBSET Conn, q \in Seq(Conn) : Pools(r, drop, q)
    BY <1>6, KeepKeeps
  <2>2. /\ link[p] \in Int \cup {None} /\ made \in Int /\ link[p] \notin ToSet(idle)
        /\ link[p] # None => link[p] \in Conn /\ \A z \in Call \ {p} : link[z] # link[p]
        /\ LinkOK(p) /\ None \notin Conn
    BY LinksApart DEF LinkInv
  <2>3. CASE p # r
    <3>1. link[p] \notin drop
      BY <2>1, <2>2 DEF Pools
    <3>2. at'[p] = at[p] /\ link'[p] = link[p] /\ made' = made /\ wire' = wire /\ side' = side
      BY <1>6, <2>3 DEF Keep, TypeOK
    <3>3. link[p] # None => up'[link[p]] = up[link[p]] /\ back'[link[p]] = back[link[p]]
      BY <2>1, <2>2, <3>1 DEF Pools, Closing, TypeOK
    <3>4. QED
      BY <2>2, <3>2, <3>3, LinkFrame
  <2>4. CASE p = r
    <3>1. at'[r] \in {"answered", "next", "unanswered"} /\ link'[r] = None
      BY <1>6 DEF Keep, TypeOK
    <3>2. QED
      BY <2>4, <3>1 DEF LinkOK
  <2>5. QED
    BY <2>3, <2>4
<1>7. ASSUME NEW c \in Conn, Handle(c) PROVE LinkInv'
  <2> SUFFICES ASSUME NEW p \in Call PROVE LinkOK(p)'
    BY DEF LinkInv
  <2>1. /\ side[c] = "waiting" /\ wire[c] # None
        /\ side' = [side EXCEPT ![c] = wire[c]]
        /\ wire' = [wire EXCEPT ![c] = None]
        /\ UNCHANGED <<pool, calls, made, to, up, back, feeding, history>>
    BY <1>7 DEF Handle
  <2>2. /\ link[p] \in Int \cup {None} /\ made \in Int /\ link[p] \notin ToSet(idle)
        /\ link[p] # None => link[p] \in Conn /\ \A z \in Call \ {p} : link[z] # link[p]
        /\ LinkOK(p) /\ None \notin Conn
    BY LinksApart DEF LinkInv
  <2>3. CASE link[p] # c
    BY <2>1, <2>2, <2>3, LinkFrame DEF TypeOK
  <2>4. CASE link[p] = c
    <3>1. ~Quiet(c)
      BY <2>1 DEF Quiet
    <3>2. at[p] = "reading" => wire[c] = p /\ back[c] = <<>>
      BY <2>1, <2>2, <2>4 DEF LinkOK, Carries
    <3>3. wire'[c] = None /\ side'[c] = wire[c]
      BY <2>1 DEF TypeOK
    <3>4. QED
      BY <2>1, <2>2, <2>4, <3>1, <3>2, <3>3 DEF LinkOK, Quiet, Carries
  <2>5. QED
    BY <2>3, <2>4
<1>8. ASSUME NEW c \in Conn, Reply(c) PROVE LinkInv'
  <2> SUFFICES ASSUME NEW p \in Call PROVE LinkOK(p)'
    BY DEF LinkInv
  <2>1. PICK a \in Answer, now \in {"waiting", "closed"} : Replies(c, a, now)
    BY <1>8, ReplyReplies
  <2>2. /\ link[p] \in Int \cup {None} /\ made \in Int /\ link[p] \notin ToSet(idle)
        /\ link[p] # None => link[p] \in Conn /\ \A z \in Call \ {p} : link[z] # link[p]
        /\ LinkOK(p) /\ None \notin Conn
    BY LinksApart DEF LinkInv
  <2>3. CASE link[p] # c
    BY <2>1, <2>2, <2>3, LinkFrame DEF Replies, TypeOK
  <2>4. CASE link[p] = c
    <3>1. ~Quiet(c)
      BY <2>1 DEF Replies, Quiet
    <3>2. at[p] = "reading" => side[c] = p /\ back[c] = <<>> /\ wire[c] = None
      BY <2>1, <2>2, <2>4, ExchangeAssumption DEF Replies, LinkOK, Carries, ConnInv
    <3>3. at[p] = "reading" => back'[c] = <<a>> /\ a.of = p /\ side'[c] = now /\ wire' = wire
      BY <2>1, <2>2, <2>4, <3>2 DEF Replies, TypeOK, LinkOK
    <3>4. now # p
      BY <2>1, ExchangeAssumption DEF Replies
    <3>5. at[p] = "reading" => Carries(c, p)'
      BY <3>2, <3>3, <3>4, ExchangeAssumption DEF Carries
    <3>6. QED
      BY <2>1, <2>2, <2>4, <3>1, <3>5 DEF Replies, LinkOK, Quiet, Carries
  <2>5. QED
    BY <2>3, <2>4
<1>9. ASSUME NEW c \in Conn, CloseThere(c) PROVE LinkInv'
  <2> SUFFICES ASSUME NEW p \in Call PROVE LinkOK(p)'
    BY DEF LinkInv
  <2>1. /\ side[c] # "closed"
        /\ side' = [side EXCEPT ![c] = "closed"]
        /\ wire' = [wire EXCEPT ![c] = None]
        /\ UNCHANGED <<pool, calls, made, to, up, back, feeding, history>>
    BY <1>9 DEF CloseThere
  <2>2. /\ link[p] \in Int \cup {None} /\ made \in Int /\ link[p] \notin ToSet(idle)
        /\ link[p] # None => link[p] \in Conn /\ \A z \in Call \ {p} : link[z] # link[p]
        /\ LinkOK(p) /\ None \notin Conn
    BY LinksApart DEF LinkInv
  <2>3. CASE link[p] # c
    BY <2>1, <2>2, <2>3, LinkFrame DEF TypeOK
  <2>4. CASE link[p] = c
    <3>1. wire'[c] = None /\ side'[c] = "closed" /\ "closed" # p /\ None # p
      BY <2>1, ExchangeAssumption DEF TypeOK
    <3>2. Quiet(c) => Quiet(c)'
      BY <2>1, <3>1, ExchangeAssumption DEF Quiet
    <3>3. Carries(c, p) => Carries(c, p)'
      BY <2>1, <3>1 DEF Carries
    <3>4. QED
      BY <2>1, <2>2, <2>4, <3>2, <3>3 DEF LinkOK, Quiet, Carries
  <2>5. QED
    BY <2>3, <2>4
<1>10. ASSUME NEW c \in Conn, FinArrives(c) PROVE LinkInv'
  <2> SUFFICES ASSUME NEW p \in Call PROVE LinkOK(p)'
    BY DEF LinkInv
  <2>1. /\ side[c] = "closed"
        /\ back' = [back EXCEPT ![c] = Append(back[c], Fin)]
        /\ UNCHANGED <<pool, calls, made, to, up, wire, side, feeding, history>>
    BY <1>10 DEF FinArrives
  <2>2. /\ link[p] \in Int \cup {None} /\ made \in Int /\ link[p] \notin ToSet(idle)
        /\ link[p] # None => link[p] \in Conn /\ \A z \in Call \ {p} : link[z] # link[p]
        /\ LinkOK(p) /\ None \notin Conn
    BY LinksApart DEF LinkInv
  <2>3. CASE link[p] # c
    BY <2>1, <2>2, <2>3, LinkFrame DEF TypeOK
  <2>4. CASE link[p] = c
    <3>1. back[c] \in Seq(Answer \cup {Fin}) /\ back'[c] = Append(back[c], Fin)
      BY <2>1 DEF TypeOK
    <3>2. \A k \in DOMAIN back'[c] :
            back'[c][k] = Fin \/ (k \in DOMAIN back[c] /\ back'[c][k] = back[c][k])
      BY <3>1, AppendEntries
    <3>3. wire[c] = None /\ "closed" # p /\ None # p
      BY <2>1, ExchangeAssumption DEF ConnInv
    <3>4. Quiet(c) => Quiet(c)'
      BY <2>1, <3>2 DEF Quiet
    <3>5. Carries(c, p) => Carries(c, p)'
      BY <2>1, <3>2, <3>3 DEF Carries
    <3>6. QED
      BY <2>1, <2>2, <2>4, <3>4, <3>5 DEF LinkOK, Quiet, Carries
  <2>5. QED
    BY <2>3, <2>4
<1>11. CASE Stream
    BY <1>11 DEF Stream, LinkInv, LinkOK, Quiet, Carries
<1>12. CASE Feed
    BY <1>12 DEF Feed, LinkInv, LinkOK, Quiet, Carries
<1>13. CASE Feeds
    BY <1>13 DEF Feeds, LinkInv, LinkOK, Quiet, Carries
<1>14. CASE StopStream
    BY <1>14 DEF StopStream, LinkInv, LinkOK, Quiet, Carries
<1>15. CASE CloseStream
    BY <1>15 DEF CloseStream, LinkInv, LinkOK, Quiet, Carries
<1>16. CASE UNCHANGED vars
    BY <1>16 DEF vars, LinkInv, LinkOK, Quiet, Carries
<1>17. QED
    BY <1>1, <1>2, <1>3, <1>4, <1>5, <1>6, <1>7, <1>8, <1>9, <1>10, <1>11,
       <1>12, <1>13, <1>14, <1>15, <1>16
       DEF Next, OnCall, OtherEnd

\* The connections of the pool are connections.
LEMMA PoolConns == ASSUME TypeOK PROVE ToSet(idle) \subseteq Conn /\ Conn \subseteq Int
<1>1. ToSet(idle) \subseteq Conn
    BY DEF TypeOK, ToSet
<1>2. Conn \subseteq Int
    BY ExchangeAssumption DEF Conn
<1>3. QED
    BY <1>1, <1>2

\* Nothing is under way on the connections of the pool.
LEMMA PoolStep ==
    ASSUME TypeOK, PoolIsSpare, LinkInv, ConnInv, PoolInv, [Next]_vars
    PROVE  PoolInv'
<1> USE DEF pool, calls, net, feeding, history, elsewhere
<1>1. ASSUME NEW r \in Call, Attempt(r) PROVE PoolInv'
  <2> SUFFICES ASSUME NEW d \in ToSet(idle') PROVE d <= made' /\ Quiet(d)'
    BY DEF PoolInv
  <2>1. PICK h \in Host, c \in Conn \cup {None}, drop \in SUBSET Conn, q \in Seq(Conn) :
            Takes(r, h, c, drop, q)
    BY <1>1, AttemptTakes
  <2>2. d \in ToSet(idle) /\ d \notin drop /\ d \in Conn
    BY <2>1, PoolConns DEF Takes
  <2>3. d <= made /\ Quiet(d)
    BY <2>2 DEF PoolInv
  <2>4. back'[d] = back[d] /\ wire' = wire /\ side' = side /\ made' = made
    BY <2>1, <2>2 DEF Takes, Closing
  <2>5. QED
    BY <2>3, <2>4 DEF Quiet
<1>2. ASSUME NEW r \in Call, Connect(r) PROVE PoolInv'
  <2> SUFFICES ASSUME NEW d \in ToSet(idle') PROVE d <= made' /\ Quiet(d)'
    BY DEF PoolInv
  <2>1. PICK m \in Conn : m = made + 1 /\ Connects(r, m)
    BY <1>2, ConnectConnects
  <2>i. idle' = idle
    BY <2>1 DEF Connects
  <2>c. d \in ToSet(idle) /\ d \in Conn
    BY <2>i, PoolConns
  <2>2. d \in ToSet(idle) /\ d \in Int /\ made \in Int
    <3>1. d \in Int
      BY <2>c, PoolConns
    <3>2. made \in Int
      BY ExchangeAssumption DEF TypeOK
    <3>3. QED
      BY <2>c, <3>1, <3>2
  <2>3. d <= made /\ Quiet(d)
    BY <2>2 DEF PoolInv
  <2>4. d # m /\ d <= made'
    BY <2>1, <2>2, <2>3 DEF Connects
  <2>5. side'[d] = side[d] /\ wire' = wire /\ back' = back
    BY <2>1, <2>2, <2>4, PoolConns DEF Connects, TypeOK
  <2>6. QED
    BY <2>3, <2>4, <2>5 DEF Quiet
<1>3. ASSUME NEW r \in Call, Write(r) PROVE PoolInv'
  <2> SUFFICES ASSUME NEW d \in ToSet(idle') PROVE d <= made' /\ Quiet(d)'
    BY DEF PoolInv
  <2>1. PICK c \in Conn : Writes(r, c)
    BY <1>3, WriteWrites
  <2>2. d \in ToSet(idle) /\ d \in Conn /\ d # c
    BY <2>1, PoolConns DEF Writes, PoolIsSpare
  <2>3. d <= made /\ Quiet(d)
    BY <2>2 DEF PoolInv
  <2>4. wire'[d] = wire[d] /\ side' = side /\ back' = back /\ made' = made
    BY <2>1, <2>2 DEF Writes, TypeOK
  <2>5. QED
    BY <2>3, <2>4 DEF Quiet
<1>4. ASSUME NEW r \in Call, Read(r) PROVE PoolInv'
  <2> SUFFICES ASSUME NEW d \in ToSet(idle') PROVE d <= made' /\ Quiet(d)'
    BY DEF PoolInv
  <2>1. PICK c \in Conn, a \in Answer : Reads(r, c, a)
    BY <1>4, ReadReads
  <2>2. d \in ToSet(idle) /\ d \in Conn /\ d # c
    BY <2>1, PoolConns DEF Reads, PoolIsSpare
  <2>3. d <= made /\ Quiet(d)
    BY <2>2 DEF PoolInv
  <2>4. back'[d] = back[d] /\ wire' = wire /\ side' = side /\ made' = made
    BY <2>1, <2>2 DEF Reads
  <2>5. QED
    BY <2>3, <2>4 DEF Quiet
<1>5. ASSUME NEW r \in Call, Fail(r) PROVE PoolInv'
  <2> SUFFICES ASSUME NEW d \in ToSet(idle') PROVE d <= made' /\ Quiet(d)'
    BY DEF PoolInv
  <2>1. Fails(r)
    BY <1>5, FailFails
  <2>2. d \in ToSet(idle) /\ d \in Conn /\ d # link[r]
    BY <2>1, PoolConns DEF Fails, PoolIsSpare
  <2>3. d <= made /\ Quiet(d)
    BY <2>2 DEF PoolInv
  <2>4. back'[d] = back[d] /\ wire' = wire /\ side' = side /\ made' = made
    BY <2>1, <2>2 DEF Fails
  <2>5. QED
    BY <2>3, <2>4 DEF Quiet
<1>6. ASSUME NEW r \in Call, Keep(r) PROVE PoolInv'
  <2> SUFFICES ASSUME NEW d \in ToSet(idle') PROVE d <= made' /\ Quiet(d)'
    BY DEF PoolInv
  <2>1. PICK drop \in SUBSET Conn, q \in Seq(Conn) : Pools(r, drop, q)
    BY <1>6, KeepKeeps
  <2>2. d \in Conn /\ d \notin drop
    BY <2>1, PoolConns DEF Pools, TypeOK
  <2>3. d <= made /\ Quiet(d)
    <3>1. CASE d \in ToSet(idle)
      BY <3>1 DEF PoolInv
    <3>2. CASE d = link[r]
      <4>1. at[r] = "keeping" /\ link[r] # None /\ up[link[r]]
        BY <1>6, <2>1, <3>2 DEF Pools, Keep
      <4>2. link[r] <= made /\ Quiet(link[r])
        BY <4>1 DEF LinkInv, LinkOK
      <4>3. QED
        BY <3>2, <4>2 DEF Quiet
    <3>3. QED
      BY <2>1, <3>1, <3>2 DEF Pools
  <2>4. back'[d] = back[d] /\ wire' = wire /\ side' = side /\ made' = made
    BY <1>6, <2>1, <2>2 DEF Pools, Keep, Closing
  <2>5. QED
    BY <2>3, <2>4 DEF Quiet
<1>7. ASSUME NEW c \in Conn, Handle(c) PROVE PoolInv'
    BY <1>7 DEF Handle, PoolInv, Quiet, TypeOK
<1>8. ASSUME NEW c \in Conn, Reply(c) PROVE PoolInv'
    BY <1>8 DEF Reply, PoolInv, Quiet, TypeOK
<1>9. ASSUME NEW c \in Conn, CloseThere(c) PROVE PoolInv'
  <2> SUFFICES ASSUME NEW d \in ToSet(idle') PROVE d <= made' /\ Quiet(d)'
    BY DEF PoolInv
  <2>1. /\ side' = [side EXCEPT ![c] = "closed"]
        /\ wire' = [wire EXCEPT ![c] = None]
        /\ UNCHANGED <<pool, calls, made, to, up, back, feeding, history>>
    BY <1>9 DEF CloseThere
  <2>2. d \in ToSet(idle) /\ d \in Conn
    BY <2>1, PoolConns
  <2>3. d <= made /\ Quiet(d)
    BY <2>2 DEF PoolInv
  <2>4. wire'[d] = None /\ side'[d] \notin Call
    BY <2>1, <2>2, <2>3, ExchangeAssumption DEF TypeOK, Quiet
  <2>5. QED
    BY <2>1, <2>3, <2>4 DEF Quiet
<1>10. ASSUME NEW c \in Conn, FinArrives(c) PROVE PoolInv'
  <2> SUFFICES ASSUME NEW d \in ToSet(idle') PROVE d <= made' /\ Quiet(d)'
    BY DEF PoolInv
  <2>1. /\ back' = [back EXCEPT ![c] = Append(back[c], Fin)]
        /\ UNCHANGED <<pool, calls, made, to, up, wire, side, feeding, history>>
    BY <1>10 DEF FinArrives
  <2>2. d \in ToSet(idle) /\ d \in Conn
    BY <2>1, PoolConns
  <2>3. d <= made /\ Quiet(d)
    BY <2>2 DEF PoolInv
  <2>4. \A k \in DOMAIN back'[d] : back'[d][k] = Fin
    <3>1. CASE d = c
      <4>1. back[c] \in Seq(Answer \cup {Fin}) /\ back'[c] = Append(back[c], Fin)
        BY <2>1 DEF TypeOK
      <4>2. QED
        BY <2>3, <3>1, <4>1, AppendEntries DEF Quiet
    <3>2. CASE d # c
      BY <2>1, <2>2, <2>3, <3>2 DEF TypeOK, Quiet
    <3>3. QED
      BY <3>1, <3>2
  <2>5. QED
    BY <2>1, <2>3, <2>4 DEF Quiet
<1>11. CASE Stream
    BY <1>11 DEF Stream, PoolInv, Quiet, TypeOK
<1>12. CASE Feed
    BY <1>12 DEF Feed, PoolInv, Quiet, TypeOK
<1>13. CASE Feeds
    BY <1>13 DEF Feeds, PoolInv, Quiet, TypeOK
<1>14. CASE StopStream
    BY <1>14 DEF StopStream, PoolInv, Quiet, TypeOK
<1>15. CASE CloseStream
    BY <1>15 DEF CloseStream, PoolInv, Quiet, TypeOK
<1>16. CASE UNCHANGED vars
    BY <1>16 DEF vars, PoolInv, Quiet, TypeOK
<1>17. QED
    BY <1>1, <1>2, <1>3, <1>4, <1>5, <1>6, <1>7, <1>8, <1>9, <1>10, <1>11,
       <1>12, <1>13, <1>14, <1>15, <1>16
       DEF Next, OnCall, OtherEnd

\* A connection is the pool's or one call's.
LEMMA SpareStep ==
    ASSUME TypeOK, PoolIsSpare, LinkInv, ConnInv, PoolInv, [Next]_vars
    PROVE  PoolIsSpare'
<1> USE DEF pool, calls, net, feeding, history, elsewhere
<1>1. ASSUME NEW r \in Call, Attempt(r) PROVE PoolIsSpare'
  <2>1. PICK h \in Host, c \in Conn \cup {None}, drop \in SUBSET Conn, q \in Seq(Conn) :
            Takes(r, h, c, drop, q)
    BY <1>1, AttemptTakes
  <2>2. IsInjective(idle')
    BY <2>1 DEF Takes
  <2>3. ASSUME NEW d \in ToSet(idle') PROVE up'[d] /\ \A p \in Call : link'[p] # d
    <3>1. d \in ToSet(idle) /\ d \notin drop /\ d \in Conn /\ d # c
      BY <2>1, <2>3, PoolConns, ExchangeAssumption DEF Takes, Conn
    <3>2. up[d] /\ \A p \in Call : link[p] # d
      BY <3>1 DEF PoolIsSpare
    <3>3. up'[d]
      BY <2>1, <3>1, <3>2 DEF Takes, Closing
    <3>4. \A p \in Call : link'[p] # d
      BY <2>1, <3>1, <3>2 DEF Takes, TypeOK
    <3>5. QED
      BY <3>3, <3>4
  <2>4. ASSUME NEW p \in Call, NEW s \in Call, p # s
        PROVE  link'[p] = None \/ link'[p] # link'[s]
    <3>1. link[p] = None \/ link[p] # link[s]
      BY <2>4 DEF PoolIsSpare
    <3>2. c # None => link[p] # c /\ link[s] # c
      BY <2>1 DEF Takes, PoolIsSpare
    <3>3. link'[p] = (IF p = r THEN c ELSE link[p]) /\ link'[s] = (IF s = r THEN c ELSE link[s])
      BY <2>1 DEF Takes, TypeOK
    <3>4. QED
      BY <2>4, <3>1, <3>2, <3>3
  <2>5. QED
    BY <2>2, <2>3, <2>4 DEF PoolIsSpare
<1>2. ASSUME NEW r \in Call, Connect(r) PROVE PoolIsSpare'
  <2>1. PICK m \in Conn : m = made + 1 /\ Connects(r, m)
    BY <1>2, ConnectConnects
  <2>2. \A d \in ToSet(idle) : d # m /\ d \in Conn
    BY <2>1, PoolConns DEF Connects, PoolInv, TypeOK
  <2>3. \A p \in Call : link[p] # m
    BY <2>1, LinksApart DEF Connects, LinkInv, LinkOK
  <2>4. \A p \in Call : link'[p] = IF p = r THEN m ELSE link[p]
    BY <2>1 DEF Connects, TypeOK
  <2>5. \A d \in ToSet(idle') : up'[d] /\ \A p \in Call : link'[p] # d
    BY <2>1, <2>2, <2>4 DEF Connects, PoolIsSpare, TypeOK
  <2>6. \A p, s \in Call : p # s => link'[p] = None \/ link'[p] # link'[s]
    BY <2>3, <2>4 DEF PoolIsSpare
  <2>7. IsInjective(idle')
    BY <2>1 DEF Connects, PoolIsSpare
  <2>8. QED
    BY <2>5, <2>6, <2>7 DEF PoolIsSpare
<1>3. ASSUME NEW r \in Call, Write(r) PROVE PoolIsSpare'
    BY <1>3 DEF Write, PoolIsSpare
<1>4. ASSUME NEW r \in Call, Read(r) PROVE PoolIsSpare'
  <2>1. PICK c \in Conn, a \in Answer : Reads(r, c, a)
    BY <1>4, ReadReads
  <2>2. \A d \in ToSet(idle) : d \in Conn /\ d # c
    BY <2>1, PoolConns DEF Reads, PoolIsSpare
  <2>3. link' = link /\ idle' = idle
    BY <2>1 DEF Reads
  <2>4. \A d \in ToSet(idle) : up'[d]
    BY <2>1, <2>2 DEF Reads, PoolIsSpare
  <2>5. QED
    BY <2>3, <2>4 DEF PoolIsSpare
<1>5. ASSUME NEW r \in Call, Fail(r) PROVE PoolIsSpare'
  <2>1. Fails(r)
    BY <1>5, FailFails
  <2>2. \A d \in ToSet(idle) : d \in Conn /\ d # link[r]
    BY <2>1, PoolConns DEF Fails, PoolIsSpare
  <2>3. link' = link /\ idle' = idle
    BY <2>1 DEF Fails
  <2>4. \A d \in ToSet(idle) : up'[d]
    BY <2>1, <2>2 DEF Fails, PoolIsSpare
  <2>5. QED
    BY <2>3, <2>4 DEF PoolIsSpare
<1>6. ASSUME NEW r \in Call, Keep(r) PROVE PoolIsSpare'
  <2>1. PICK drop \in SUBSET Conn, q \in Seq(Conn) : Pools(r, drop, q)
    BY <1>6, KeepKeeps
  <2>2. link' = [link EXCEPT ![r] = None]
    BY <1>6 DEF Keep
  <2>3. \A p \in Call : link'[p] = IF p = r THEN None ELSE link[p]
    BY <2>2 DEF TypeOK
  <2>4. IsInjective(idle')
    BY <2>1 DEF Pools
  <2>5. ASSUME NEW d \in ToSet(idle') PROVE up'[d] /\ \A p \in Call : link'[p] # d
    <3>1. d \in Conn /\ d # None /\ d \notin drop
      <4>1. \A k \in DOMAIN q : q[k] \in Conn
        OBVIOUS
      <4>2. d \in Conn
        BY <2>1, <2>5, <4>1 DEF Pools, ToSet
      <4>3. QED
        BY <2>1, <2>5, <4>2, ExchangeAssumption DEF Pools, Conn
    <3>2. up[d] /\ \A p \in Call \ {r} : link[p] # d
      <4>1. CASE d \in ToSet(idle)
        BY <4>1 DEF PoolIsSpare
      <4>2. CASE d = link[r]
        BY <2>1, <2>5, <3>1, <4>2 DEF Pools, PoolIsSpare
      <4>3. QED
        BY <2>1, <2>5, <4>1, <4>2 DEF Pools
    <3>3. up'[d]
      BY <2>1, <3>1, <3>2 DEF Pools, Closing
    <3>4. QED
      BY <2>3, <3>1, <3>2, <3>3
  <2>6. \A p, s \in Call : p # s => link'[p] = None \/ link'[p] # link'[s]
    BY <2>3 DEF PoolIsSpare
  <2>7. QED
    BY <2>4, <2>5, <2>6 DEF PoolIsSpare
<1>7. ASSUME NEW c \in Conn, Handle(c) PROVE PoolIsSpare'
    BY <1>7 DEF Handle, PoolIsSpare
<1>8. ASSUME NEW c \in Conn, Reply(c) PROVE PoolIsSpare'
    BY <1>8 DEF Reply, PoolIsSpare
<1>9. ASSUME NEW c \in Conn, CloseThere(c) PROVE PoolIsSpare'
    BY <1>9 DEF CloseThere, PoolIsSpare
<1>10. ASSUME NEW c \in Conn, FinArrives(c) PROVE PoolIsSpare'
    BY <1>10 DEF FinArrives, PoolIsSpare
<1>11. CASE Stream
    BY <1>11 DEF Stream, PoolIsSpare
<1>12. CASE Feed
    BY <1>12 DEF Feed, PoolIsSpare
<1>13. CASE Feeds
    BY <1>13 DEF Feeds, PoolIsSpare
<1>14. CASE StopStream
    BY <1>14 DEF StopStream, PoolIsSpare
<1>15. CASE CloseStream
    BY <1>15 DEF CloseStream, PoolIsSpare
<1>16. CASE UNCHANGED vars
    BY <1>16 DEF vars, PoolIsSpare
<1>17. QED
    BY <1>1, <1>2, <1>3, <1>4, <1>5, <1>6, <1>7, <1>8, <1>9, <1>10, <1>11,
       <1>12, <1>13, <1>14, <1>15, <1>16
       DEF Next, OnCall, OtherEnd

\* A call reads its own answer.
LEMMA OwnStep ==
    ASSUME TypeOK, PoolIsSpare, LinkInv, ConnInv, OwnAnswer, [Next]_vars
    PROVE  OwnAnswer'
<1> USE DEF pool, calls, net, feeding, history, elsewhere
<1>1. ASSUME NEW r \in Call, Attempt(r) PROVE OwnAnswer'
  <2>1. PICK h \in Host, c \in Conn \cup {None}, drop \in SUBSET Conn, q \in Seq(Conn) :
            Takes(r, h, c, drop, q)
    BY <1>1, AttemptTakes
  <2>2. QED
    BY <2>1 DEF Takes, Closing, OwnAnswer, LinkInv, LinkOK, Carries, TypeOK
<1>2. ASSUME NEW r \in Call, Connect(r) PROVE OwnAnswer'
  <2>1. PICK m \in Conn : m = made + 1 /\ Connects(r, m)
    BY <1>2, ConnectConnects
  <2>2. QED
    BY <2>1 DEF Connects, OwnAnswer, LinkInv, LinkOK, Carries, TypeOK
<1>3. ASSUME NEW r \in Call, Write(r) PROVE OwnAnswer'
    BY <1>3 DEF Write, OwnAnswer, LinkInv, LinkOK, Carries, TypeOK
<1>4. ASSUME NEW r \in Call, Read(r) PROVE OwnAnswer'
  <2>1. PICK c \in Conn, a \in Answer : Reads(r, c, a)
    BY <1>4, ReadReads
  <2>2. QED
    BY <2>1 DEF Reads, OwnAnswer, LinkInv, LinkOK, Carries, TypeOK
<1>5. ASSUME NEW r \in Call, Fail(r) PROVE OwnAnswer'
    BY <1>5 DEF Fail, Closing, Broken, OwnAnswer, LinkInv, LinkOK, Carries, TypeOK
<1>6. ASSUME NEW r \in Call, Keep(r) PROVE OwnAnswer'
  <2>1. PICK drop \in SUBSET Conn, q \in Seq(Conn) : Pools(r, drop, q)
    BY <1>6, KeepKeeps
  <2>2. QED
    BY <1>6, <2>1 DEF Pools, Keep, Closing, OwnAnswer, LinkInv, LinkOK, Carries, TypeOK
<1>7. ASSUME NEW c \in Conn, Handle(c) PROVE OwnAnswer'
    BY <1>7 DEF Handle, OwnAnswer, LinkInv, LinkOK, Carries, TypeOK
<1>8. ASSUME NEW c \in Conn, Reply(c) PROVE OwnAnswer'
    BY <1>8 DEF Reply, OwnAnswer, LinkInv, LinkOK, Carries, TypeOK
<1>9. ASSUME NEW c \in Conn, CloseThere(c) PROVE OwnAnswer'
    BY <1>9 DEF CloseThere, OwnAnswer, LinkInv, LinkOK, Carries, TypeOK
<1>10. ASSUME NEW c \in Conn, FinArrives(c) PROVE OwnAnswer'
    BY <1>10 DEF FinArrives, OwnAnswer, LinkInv, LinkOK, Carries, TypeOK
<1>11. CASE Stream
    BY <1>11 DEF Stream, OwnAnswer, LinkInv, LinkOK, Carries, TypeOK
<1>12. CASE Feed
    BY <1>12 DEF Feed, OwnAnswer, LinkInv, LinkOK, Carries, TypeOK
<1>13. CASE Feeds
    BY <1>13 DEF Feeds, OwnAnswer, LinkInv, LinkOK, Carries, TypeOK
<1>14. CASE StopStream
    BY <1>14 DEF StopStream, OwnAnswer, LinkInv, LinkOK, Carries, TypeOK
<1>15. CASE CloseStream
    BY <1>15 DEF CloseStream, OwnAnswer, LinkInv, LinkOK, Carries, TypeOK
<1>16. CASE UNCHANGED vars
    BY <1>16 DEF vars, OwnAnswer, LinkInv, LinkOK, Carries, TypeOK
<1>17. QED
    BY <1>1, <1>2, <1>3, <1>4, <1>5, <1>6, <1>7, <1>8, <1>9, <1>10, <1>11,
       <1>12, <1>13, <1>14, <1>15, <1>16
       DEF Next, OnCall, OtherEnd

\* A step that leaves the attempts of a call alone, and does not move current
\* under it unnoticed, leaves what it has asked.
LEMMA WalkFrame ==
    ASSUME NEW p \in Call, WalkOK(p), kind' = kind, attempt'[p] = attempt[p],
           asked'[p] = asked[p],
           at'[p] = at[p] \/ (at[p] \in Trying /\ at'[p] \in Trying),
           (current' = current /\ moved' = moved) \/ at[p] = "unmade" \/ p \in moved'
    PROVE  WalkOK(p)'
    BY DEF WalkOK, Trying, Attempts

\* A walk asks the members one after the other.
LEMMA WalkStep ==
    ASSUME TypeOK, PoolIsSpare, LinkInv, ConnInv, WalkInv, [Next]_vars
    PROVE  WalkInv'
<1> USE DEF pool, calls, net, feeding, history, elsewhere
<1>1. ASSUME NEW r \in Call, Attempt(r) PROVE WalkInv'
  <2> SUFFICES ASSUME NEW p \in Call PROVE WalkOK(p)'
    BY DEF WalkInv
  <2>1. PICK h \in Host, c \in Conn \cup {None}, drop \in SUBSET Conn, q \in Seq(Conn) :
            Takes(r, h, c, drop, q)
    BY <1>1, AttemptTakes
  <2>2. WalkOK(p) /\ WalkOK(r)
    BY DEF WalkInv
  <2>3. CASE p # r
    <3>1. /\ kind' = kind /\ attempt' = attempt /\ asked'[p] = asked[p] /\ at'[p] = at[p]
          /\ current' = current /\ moved' = moved
      BY <2>1, <2>3 DEF Takes, TypeOK
    <3>2. QED
      BY <2>2, <3>1, WalkFrame
  <2>4. CASE p = r
    <3>1. /\ kind' = kind /\ attempt' = attempt /\ current' = current /\ moved' = moved
          /\ asked'[r] = asked[r] \cup {h} /\ at'[r] \in {"connecting", "writing"}
          /\ at[r] \in {"unmade", "next"} /\ (kind[r] # "forward" => h = Member(r))
      BY <2>1 DEF Takes, TypeOK
    <3>2. attempt[r] < Attempts(r)
      BY <2>2, <3>1, ExchangeAssumption DEF WalkOK, Attempts
    <3>3. attempt[r] \in Int
      BY DEF TypeOK
    <3>4. ASSUME kind[r] = "walk", r \notin moved, NEW k \in 0 .. Members,
                 k < attempt[r] \/ k = attempt[r]
          PROVE  (current + k) % Members \in asked'[r]
      <4>1. CASE k = attempt[r]
        BY <3>1, <3>4, <4>1 DEF Member
      <4>2. CASE k < attempt[r]
        <5>1. at[r] # "unmade"
          BY <2>2, <3>3, <4>2 DEF WalkOK
        <5>2. QED
          BY <2>2, <3>1, <3>4, <4>2, <5>1 DEF WalkOK
      <4>3. QED
        BY <3>4, <4>1, <4>2
    <3>5. QED
      BY <2>4, <3>1, <3>2, <3>4 DEF WalkOK, Trying, Attempts
  <2>5. QED
    BY <2>3, <2>4
<1>2. ASSUME NEW r \in Call, Connect(r) PROVE WalkInv'
  <2> SUFFICES ASSUME NEW p \in Call PROVE WalkOK(p)'
    BY DEF WalkInv
  <2>1. PICK m \in Conn : m = made + 1 /\ Connects(r, m)
    BY <1>2, ConnectConnects
  <2>2. /\ kind' = kind /\ attempt' = attempt /\ asked' = asked
        /\ current' = current /\ moved' = moved
        /\ at'[p] = at[p] \/ (at[p] \in Trying /\ at'[p] \in Trying)
    BY <2>1 DEF Connects, Trying, TypeOK
  <2>3. QED
    BY <2>2, WalkFrame DEF WalkInv
<1>3. ASSUME NEW r \in Call, Write(r) PROVE WalkInv'
  <2> SUFFICES ASSUME NEW p \in Call PROVE WalkOK(p)'
    BY DEF WalkInv
  <2>1. PICK c \in Conn : Writes(r, c)
    BY <1>3, WriteWrites
  <2>2. /\ kind' = kind /\ attempt' = attempt /\ asked' = asked
        /\ current' = current /\ moved' = moved
        /\ at'[p] = at[p] \/ (at[p] \in Trying /\ at'[p] \in Trying)
    BY <2>1 DEF Writes, Trying, TypeOK
  <2>3. QED
    BY <2>2, WalkFrame DEF WalkInv
<1>4. ASSUME NEW r \in Call, Read(r) PROVE WalkInv'
  <2> SUFFICES ASSUME NEW p \in Call PROVE WalkOK(p)'
    BY DEF WalkInv
  <2>1. PICK c \in Conn, a \in Answer : Reads(r, c, a)
    BY <1>4, ReadReads
  <2>2. /\ kind' = kind /\ attempt' = attempt /\ asked' = asked
        /\ current' = current /\ moved' = moved
        /\ at'[p] = at[p] \/ (at[p] \in Trying /\ at'[p] \in Trying)
    BY <2>1 DEF Reads, Trying, TypeOK
  <2>3. QED
    BY <2>2, WalkFrame DEF WalkInv
<1>5. ASSUME NEW r \in Call, Fail(r) PROVE WalkInv'
  <2> SUFFICES ASSUME NEW p \in Call PROVE WalkOK(p)'
    BY DEF WalkInv
  <2>1. Fails(r)
    BY <1>5, FailFails
  <2>2. /\ kind' = kind /\ attempt' = attempt /\ asked' = asked
        /\ current' = current /\ moved' = moved
        /\ at'[p] = at[p] \/ (at[p] \in Trying /\ at'[p] \in Trying)
    BY <2>1 DEF Fails, Trying, TypeOK
  <2>3. QED
    BY <2>2, WalkFrame DEF WalkInv
<1>6. ASSUME NEW r \in Call, Keep(r) PROVE WalkInv'
  <2> SUFFICES ASSUME NEW p \in Call PROVE WalkOK(p)'
    BY DEF WalkInv
  <2>1. WalkOK(p) /\ at[r] = "keeping" /\ kind' = kind /\ asked' = asked
    BY <1>6 DEF WalkInv, Keep
  <2>2. CASE p # r
    <3>1. at'[p] = at[p] /\ attempt'[p] = attempt[p]
      BY <1>6, <2>2 DEF Keep, TypeOK
    <3>2. (current' = current /\ moved' = moved) \/ at[p] = "unmade" \/ p \in moved'
      BY <1>6, <2>2 DEF Keep
    <3>3. QED
      BY <2>1, <3>1, <3>2, WalkFrame
  <2>3. CASE p = r /\ Answers(r)
    <3>1. at'[r] = "answered"
      BY <1>6, <2>3 DEF Keep, TypeOK
    <3>2. QED
      BY <2>3, <3>1 DEF WalkOK, Trying
  <2>4. CASE p = r /\ ~Answers(r)
    <3>1. /\ attempt'[r] = attempt[r] + 1 /\ current' = current /\ moved' = moved
          /\ at'[r] = IF attempt[r] + 1 < Attempts(r) THEN "next" ELSE "unanswered"
      BY <1>6, <2>4 DEF Keep, TypeOK
    <3>2. attempt[r] \in Int /\ Attempts(r) \in Int
      BY ExchangeAssumption DEF TypeOK, Attempts
    <3>3. ASSUME kind[r] = "walk", r \notin moved, NEW k \in 0 .. Members, k < attempt[r] + 1
          PROVE  (current + k) % Members \in asked[r]
      <4>1. k < attempt[r] \/ k = attempt[r]
        BY <3>2, <3>3
      <4>2. QED
        BY <2>1, <2>4, <3>3, <4>1 DEF WalkOK, Trying
    <3>4. QED
      BY <2>1, <2>4, <3>1, <3>2, <3>3 DEF WalkOK, Trying, Attempts
  <2>5. QED
    BY <2>2, <2>3, <2>4
<1>7. ASSUME NEW c \in Conn, Handle(c) PROVE WalkInv'
  <2> SUFFICES ASSUME NEW p \in Call PROVE WalkOK(p)'
    BY DEF WalkInv
  <2>1. UNCHANGED <<pool, calls, history>>
    BY <1>7 DEF Handle
  <2>2. QED
    BY <2>1, WalkFrame DEF WalkInv
<1>8. ASSUME NEW c \in Conn, Reply(c) PROVE WalkInv'
  <2> SUFFICES ASSUME NEW p \in Call PROVE WalkOK(p)'
    BY DEF WalkInv
  <2>1. UNCHANGED <<pool, calls, history>>
    BY <1>8 DEF Reply
  <2>2. QED
    BY <2>1, WalkFrame DEF WalkInv
<1>9. ASSUME NEW c \in Conn, CloseThere(c) PROVE WalkInv'
  <2> SUFFICES ASSUME NEW p \in Call PROVE WalkOK(p)'
    BY DEF WalkInv
  <2>1. UNCHANGED <<pool, calls, history>>
    BY <1>9 DEF CloseThere
  <2>2. QED
    BY <2>1, WalkFrame DEF WalkInv
<1>10. ASSUME NEW c \in Conn, FinArrives(c) PROVE WalkInv'
  <2> SUFFICES ASSUME NEW p \in Call PROVE WalkOK(p)'
    BY DEF WalkInv
  <2>1. UNCHANGED <<pool, calls, history>>
    BY <1>10 DEF FinArrives
  <2>2. QED
    BY <2>1, WalkFrame DEF WalkInv
<1>11. CASE Stream
  <2> SUFFICES ASSUME NEW p \in Call PROVE WalkOK(p)'
    BY DEF WalkInv
  <2>1. UNCHANGED <<pool, calls, history>>
    BY <1>11 DEF Stream
  <2>2. QED
    BY <2>1, WalkFrame DEF WalkInv
<1>12. CASE Feed
  <2> SUFFICES ASSUME NEW p \in Call PROVE WalkOK(p)'
    BY DEF WalkInv
  <2>1. UNCHANGED <<pool, calls, history>>
    BY <1>12 DEF Feed
  <2>2. QED
    BY <2>1, WalkFrame DEF WalkInv
<1>13. CASE Feeds
  <2> SUFFICES ASSUME NEW p \in Call PROVE WalkOK(p)'
    BY DEF WalkInv
  <2>1. UNCHANGED <<pool, calls, history>>
    BY <1>13 DEF Feeds
  <2>2. QED
    BY <2>1, WalkFrame DEF WalkInv
<1>14. CASE StopStream
  <2> SUFFICES ASSUME NEW p \in Call PROVE WalkOK(p)'
    BY DEF WalkInv
  <2>1. UNCHANGED <<pool, calls, history>>
    BY <1>14 DEF StopStream
  <2>2. QED
    BY <2>1, WalkFrame DEF WalkInv
<1>15. CASE CloseStream
  <2> SUFFICES ASSUME NEW p \in Call PROVE WalkOK(p)'
    BY DEF WalkInv
  <2>1. UNCHANGED <<pool, calls, history>>
    BY <1>15 DEF CloseStream
  <2>2. QED
    BY <2>1, WalkFrame DEF WalkInv
<1>16. CASE UNCHANGED vars
  <2> SUFFICES ASSUME NEW p \in Call PROVE WalkOK(p)'
    BY DEF WalkInv
  <2>1. UNCHANGED <<pool, calls, history>>
    BY <1>16 DEF vars
  <2>2. QED
    BY <2>1, WalkFrame DEF WalkInv
<1>17. QED
    BY <1>1, <1>2, <1>3, <1>4, <1>5, <1>6, <1>7, <1>8, <1>9, <1>10, <1>11,
       <1>12, <1>13, <1>14, <1>15, <1>16
       DEF Next, OnCall, OtherEnd
-----------------------------------------------------------------------------
\* Inv holds whatever the calls, the processes they ask and the network do.
LEMMA Invariant == Spec => []Inv
<1>1. Init => Inv
  <2> SUFFICES ASSUME Init PROVE Inv
    OBVIOUS
  <2>1. idle = <<>> /\ ToSet(idle) = {}
    BY DEF Init, ToSet
  <2>2. TypeOK
    <3>1. 0 \in Host /\ 0 \in 0 .. Members /\ 0 \in 0 .. Connections
      BY ExchangeAssumption DEF Host
    <3>2. idle \in Seq(Conn) /\ Len(idle) <= Cache
      BY <2>1, ExchangeAssumption
    <3>3. back \in [Conn -> Seq(Answer \cup {Fin})]
      BY DEF Init
    <3>4. QED
      BY <3>1, <3>2, <3>3 DEF Init, TypeOK
  <2>3. ConnInv /\ LinkInv
    BY DEF Init, ConnInv, LinkInv, LinkOK
  <2>4. PoolInv /\ PoolIsSpare
    BY <2>1 DEF Init, PoolInv, PoolIsSpare, IsInjective
  <2>5. OwnAnswer /\ StreamInv
    BY DEF Init, OwnAnswer, StreamInv, StopIsHeard
  <2>6. WalkInv
    BY DEF Init, WalkInv, WalkOK, Trying
  <2>7. QED
    BY <2>2, <2>3, <2>4, <2>5, <2>6 DEF Inv
<1>2. Inv /\ [Next]_vars => Inv'
  <2> SUFFICES ASSUME Inv, [Next]_vars PROVE Inv'
    OBVIOUS
  <2>1. TypeOK' /\ ConnInv' /\ LinkInv' /\ PoolInv'
    BY TypeStep, ConnStep, LinkStep, PoolStep DEF Inv
  <2>2. PoolIsSpare' /\ OwnAnswer' /\ WalkInv' /\ StreamInv'
    BY SpareStep, OwnStep, WalkStep, StreamStep DEF Inv
  <2>3. QED
    BY <2>1, <2>2 DEF Inv
<1>3. QED
    BY <1>1, <1>2, PTL DEF Spec

\* Calls, connections and the pool have their types: no call asks more members
\* than there are and the pool keeps no more than connection_cache.
THEOREM ExchangeTypeCorrect == Spec => []TypeOK
<1>1. Inv => TypeOK
    BY DEF Inv
<1>2. QED
    BY <1>1, Invariant, PTL

\* beast_client gives each call the answer to its own request, however many
\* calls were made over the connection before and whatever became of them.
THEOREM CallsGetTheirOwnAnswer == Spec => []OwnAnswer
<1>1. Inv => OwnAnswer
    BY DEF Inv
<1>2. QED
    BY <1>1, Invariant, PTL

\* take() hands a connection to one call at a time, and keep() pools none that
\* is closed, pooled already or in use.
THEOREM PoolHoldsTheSpare == Spec => []PoolIsSpare
<1>1. Inv => PoolIsSpare
    BY DEF Inv
<1>2. QED
    BY <1>1, Invariant, PTL

\* A stream that was closed is over, unless its host was being looked up.
THEOREM StopsAreHeard == Spec => []StopIsHeard
<1>1. Inv => StopIsHeard
    BY DEF Inv, StreamInv
<1>2. QED
    BY <1>1, Invariant, PTL

\* client::call() gives up on etcd only after asking every member, wherever it
\* began, unless another call moved current meanwhile.
THEOREM WalksAskEveryMember == Spec => []AsksEveryMember
<1>1. Inv => AsksEveryMember
  <2> SUFFICES ASSUME Inv, NEW r \in Call, at[r] = "unanswered", kind[r] = "walk",
                      r \notin moved
               PROVE  asked[r] = Host
    BY DEF AsksEveryMember
  <2>1. /\ Members \in Nat \ {0} /\ current \in 0 .. Members - 1
        /\ asked[r] \subseteq Host /\ attempt[r] \in Int
    BY ExchangeAssumption DEF Inv, TypeOK, Host
  <2>2. attempt[r] >= Members
    BY DEF Inv, WalkInv, WalkOK, Attempts
  <2>3. ASSUME NEW k \in 0 .. Members - 1 PROVE (current + k) % Members \in asked[r]
    <3>1. k \in 0 .. Members /\ k < attempt[r]
      BY <2>1, <2>2
    <3>2. QED
      BY <3>1 DEF Inv, WalkInv, WalkOK
  <2>4. ASSUME NEW h \in Host PROVE h \in asked[r]
    <3>1. h \in 0 .. Members - 1
      BY DEF Host
    <3>2. h % Members = h /\ (h + Members) % Members = h
      BY <2>1, <3>1
    <3>3. PICK k \in 0 .. Members - 1 : current + k = h \/ current + k = h + Members
      <4>1. CASE h >= current
        <5>1. h - current \in 0 .. Members - 1 /\ current + (h - current) = h
          BY <2>1, <3>1, <4>1
        <5>2. QED
          BY <5>1
      <4>2. CASE h < current
        <5>1. /\ h + Members - current \in 0 .. Members - 1
              /\ current + (h + Members - current) = h + Members
          BY <2>1, <3>1, <4>2
        <5>2. QED
          BY <5>1
      <4>3. QED
        BY <2>1, <3>1, <4>1, <4>2
    <3>4. (current + k) % Members = h
      BY <3>2, <3>3
    <3>5. QED
      BY <2>3, <3>4
  <2>5. QED
    BY <2>1, <2>4
<1>2. QED
    BY <1>1, Invariant, PTL
=============================================================================
