-------------------------- MODULE EtcdClusterProofs --------------------------
(***************************************************************************)
(* What the claims of a partition promise, for any nodes, threads, worlds  *)
(* and number of claims.                                                   *)
(*                                                                         *)
(* Whatever goes wrong, every term a node has in memory, on disk or on its *)
(* way to it was the term of a claim.  Where no read of a claim overtakes  *)
(* what it reads (an orderly world), a node that takes itself for the      *)
(* leader created the claim of the term it leads in, and its fence is at   *)
(* that term or the answer that will raise it there is on its way.         *)
(***************************************************************************)
EXTENDS EtcdCluster, TLAPS

\* The types of the two kinds of thread.
PassState == [at : {"idle", "leaders", "decide", "release", "claim", "store"},
              seen : MaybeNode, answer : Answer]
CallState == [at : {"idle", "held", "create", "claim"}, answer : Answer]

\* Terms are naturals, and what stands for nothing is of the types it is used at.
LEMMA Values ==
    /\ 0 \in Term /\ Term \subseteq Nat
    /\ NoNode \in MaybeNode /\ NoNode \notin Node /\ Node \subseteq MaybeNode
    /\ NoAnswer \in Answer /\ NoLead \in Lead
    /\ IdlePass \in PassState /\ IdleCall \in CallState
<1>1. 0 \in Term /\ Term \subseteq Nat
  BY ClusterAssumption DEF Term
<1>2. NoNode \in MaybeNode /\ NoNode \notin Node /\ Node \subseteq MaybeNode
  BY ClusterAssumption DEF NoNode, MaybeNode
<1>3. NoAnswer \in Answer /\ NoLead \in Lead
  BY <1>1, <1>2 DEF NoAnswer, Answer, NoLead, Lead
<1> QED
  BY <1>1, <1>2, <1>3 DEF IdlePass, IdleCall, PassState, CallState

Types ==
    /\ world \in Worlds /\ registered \subseteq Node
    /\ claims \in Seq(Node) /\ claim \in MaybeNode
    /\ leased \in [Node -> BOOLEAN] /\ members \in [Node -> SUBSET Node]
    /\ answered \in [Node -> BOOLEAN] /\ leader \in [Node -> Lead]
    /\ terms \in [Node -> Term] /\ releasing \in [Node -> BOOLEAN]
    /\ pass \in [Node -> PassState] /\ call \in [Thread -> CallState]
    /\ stored \in [Node -> Term] /\ ordered \subseteq Node \X Term

\* The types, with those of the threads named.
LEMMA Typed == TypeOK <=> Types
BY DEF TypeOK, Types, PassState, CallState

\* raise_term yields a term.
LEMMA LargerIsTerm == \A a, b \in Term : Larger(a, b) \in Term
BY DEF Larger

\* The create transaction: a claim is made, or nothing is and the answer is none
\* or names the holder.
LEMMA CreateShape ==
    ASSUME TypeOK, NEW n \in Node, NEW a \in Answer, CreateTxn(n, a)
    PROVE  \/ /\ claim = NoNode /\ claim' = n
              /\ claims' = Append(claims, n)
              /\ a = NoAnswer \/ (a.node = n /\ a.term = Len(claims) + 1)
              /\ "lost" \notin Faults =>
                   a = [held |-> TRUE, node |-> n, term |-> Len(claims) + 1]
           \/ /\ claim' = claim /\ claims' = claims
              /\ \/ a = NoAnswer
                 \/ a = [held |-> FALSE, node |-> claim, term |-> Len(claims)] /\ claim # NoNode
BY DEF CreateTxn

\* The create transaction keeps the types of what etcd holds.
LEMMA CreateTyped ==
    ASSUME TypeOK, NEW n \in Node, NEW a \in Answer, CreateTxn(n, a)
    PROVE  claims' \in Seq(Node) /\ claim' \in MaybeNode
<1>1. claims \in Seq(Node) /\ claim \in MaybeNode /\ Append(claims, n) \in Seq(Node)
  BY DEF TypeOK
<1> QED
  BY <1>1, CreateShape, Values

\* What a pass and a call are, field by field.
LEMMA Fields ==
    ASSUME TypeOK
    PROVE  /\ \A n \in Node :
                /\ pass[n] \in PassState /\ pass[n].seen \in MaybeNode
                /\ pass[n].answer \in Answer
                /\ pass[n].answer.node \in MaybeNode /\ pass[n].answer.term \in Term
                /\ leader[n].node \in MaybeNode /\ leader[n].term \in Term
           /\ \A t \in Thread :
                /\ Host[t] \in Node
                /\ call[t] \in CallState /\ call[t].answer \in Answer
                /\ call[t].answer.node \in MaybeNode /\ call[t].answer.term \in Term
<1>1. \A n \in Node : pass[n] \in PassState /\ leader[n] \in Lead
  BY Typed DEF Types
<1>2. \A t \in Thread : call[t] \in CallState /\ Host[t] \in Node
  BY Typed, ClusterAssumption DEF Types
<1> QED
  BY <1>1, <1>2 DEF PassState, CallState, Answer, Lead

\* A process begins with the right types.
LEMMA InitType == Init => TypeOK
<1> SUFFICES ASSUME Init
             PROVE  Types
  BY Typed
<1>1. registered \subseteq Node
  BY ClusterAssumption DEF Init, Quiet
<1> QED
  BY <1>1, Values DEF Init, Types

\* Every step keeps the types.
LEMMA StepType == TypeOK /\ [Next]_vars => TypeOK'
<1> SUFFICES ASSUME TypeOK, [Next]_vars
             PROVE  Types'
  BY DEF TypeOK, Types, PassState, CallState
<1>0. Types
  BY Typed
<1>1. CASE LapseClaim
  BY <1>0, <1>1, Values DEF LapseClaim, Types
<1>2. ASSUME NEW n \in Node, LapseRegistration(n)
      PROVE  Types'
  BY <1>0, <1>2 DEF LapseRegistration, Types
<1>3. ASSUME NEW n \in Node, Refresh(n)
      PROVE  Types'
  <2>1. registered' \subseteq Node /\ leased' \in [Node -> BOOLEAN]
    BY <1>0, <1>3 DEF Refresh, HoldLease, LoseLease, Types
  <2>2. members' \in [Node -> SUBSET Node] /\ answered' \in [Node -> BOOLEAN]
    <3>1. CASE ReadMembers(n)
      <4>1. registered' \cup {n} \in SUBSET Node
        BY <2>1
      <4> QED
        BY <1>0, <3>1, <4>1 DEF ReadMembers, Types
    <3>2. CASE KeepMembers(n)
      <4>1. (IF members[n] = {} THEN {n} ELSE members[n]) \in SUBSET Node
        BY <1>0 DEF Types
      <4> QED
        BY <1>0, <3>2, <4>1 DEF KeepMembers, Types
    <3> QED
      BY <1>3, <3>1, <3>2 DEF Refresh
  <2>3. pass' \in [Node -> PassState]
    BY <1>0, <1>3 DEF Refresh, Types, PassState
  <2> QED
    BY <1>0, <1>3, <2>1, <2>2, <2>3 DEF Refresh, Types
<1>4. ASSUME NEW n \in Node, SkipLeaders(n) \/ ReadLeadersFails(n)
      PROVE  Types'
  BY SMTT(30), <1>0, <1>4, Values DEF SkipLeaders, ReadLeadersFails, Types, etcd
<1>5. ASSUME NEW n \in Node, ReadLeaders(n)
      PROVE  Types'
  <2>1. pass' \in [Node -> PassState]
    BY ZenonT(60), <1>0, <1>5 DEF ReadLeaders, Types, PassState
  <2> QED
    BY <1>0, <1>5, <2>1 DEF ReadLeaders, Types, etcd
<1>k. ASSUME NEW n \in Node, NEW m \in MaybeNode, NEW term \in Term, Know(n, m, term)
      PROVE  pass' \in [Node -> PassState]
  BY <1>0, <1>k, Values DEF Know, Types, PassState, Answer
<1>6. ASSUME NEW n \in Node, KeepClaim(n)
      PROVE  Types'
  <2>1. pass[n].seen \in MaybeNode /\ TermOf(n, pass[n].seen) \in Term
    BY <1>0, Fields, Values DEF TermOf, Types
  <2>2. pass' \in [Node -> PassState]
    BY <1>6, <1>k, <2>1 DEF KeepClaim
  <2>3. releasing' \in [Node -> BOOLEAN]
    BY <1>0, <1>6 DEF KeepClaim, Types
  <2> QED
    BY <1>0, <1>6, <2>2, <2>3 DEF KeepClaim, Types, etcd
<1>7. ASSUME NEW n \in Node, RemoveClaim(n)
      PROVE  Types'
  <2>1. claim' \in MaybeNode
    BY <1>0, <1>7, Values DEF RemoveClaim, Types
  <2>2. PICK ok \in BOOLEAN :
          pass' = [pass EXCEPT ![n].at = "release", ![n].answer.held = ok]
    BY <1>7 DEF RemoveClaim
  <2>3. pass' \in [Node -> PassState]
    <3> DEFINE a == [pass[n].answer EXCEPT !.held = ok]
    <3>1. a \in Answer /\ pass[n] \in PassState
      BY Fields DEF Answer
    <3>2. [pass[n] EXCEPT !.at = "release", !.answer = a] \in PassState
      BY <3>1 DEF PassState
    <3>3. pass' = [pass EXCEPT ![n] = [pass[n] EXCEPT !.at = "release", !.answer = a]]
      BY <2>2
    <3> QED
      BY <1>0, <3>2, <3>3 DEF Types
  <2> QED
    BY <1>0, <1>7, <2>1, <2>3 DEF RemoveClaim, Types
<1>8. ASSUME NEW n \in Node, RemoveAnswered(n)
      PROVE  Types'
  <2>1. TermOf(n, n) \in Term
    BY <1>0 DEF TermOf, Types
  <2>2. pass' \in [Node -> PassState]
    BY <1>8, <1>k, <2>1, Values DEF RemoveAnswered
  <2>3. releasing' \in [Node -> BOOLEAN]
    BY <1>0, <1>8 DEF RemoveAnswered, Types
  <2> QED
    BY <1>0, <1>8, <2>2, <2>3 DEF RemoveAnswered, Types, etcd
<1>9. ASSUME NEW n \in Node, LeaveUnclaimed(n)
      PROVE  Types'
  <2>1. pass' \in [Node -> PassState]
    BY <1>9, <1>k, Values DEF LeaveUnclaimed
  <2> QED
    BY <1>0, <1>9, <2>1 DEF LeaveUnclaimed, Types, etcd
<1>10. ASSUME NEW n \in Node, CreateClaim(n)
       PROVE  Types'
  <2>1. PICK a \in Answer :
          /\ CreateTxn(n, a)
          /\ pass' = [pass EXCEPT ![n].at = "claim", ![n].answer = a]
    BY <1>10 DEF CreateClaim
  <2>2. claims' \in Seq(Node) /\ claim' \in MaybeNode
    BY <2>1, CreateTyped
  <2>3. pass' \in [Node -> PassState]
    BY ZenonT(60), <1>0, <2>1 DEF Types, PassState
  <2> QED
    BY <1>0, <1>10, <2>2, <2>3 DEF CreateClaim, Types
<1>11. ASSUME NEW n \in Node, CreateAnswered(n)
       PROVE  Types'
  <2>1. pass' \in [Node -> PassState]
    BY <1>11, <1>k, Fields DEF CreateAnswered
  <2>2. RaiseTerm(terms[n], pass[n].answer.term) \in Term
    BY <1>0, Fields, LargerIsTerm DEF RaiseTerm, Types
  <2>3. terms' \in [Node -> Term]
    BY <1>0, <1>11, <2>2 DEF CreateAnswered, Types
  <2> QED
    BY <1>0, <1>11, <2>1, <2>3 DEF CreateAnswered, Types, etcd
<1>12. ASSUME NEW n \in Node, StoreLeaders(n)
       PROVE  Types'
  <2>1. [node |-> pass[n].answer.node, term |-> pass[n].answer.term] \in Lead
    BY Fields DEF Lead
  <2> QED
    BY <1>0, <1>12, <2>1, Values DEF StoreLeaders, Types, etcd
<1>o. ASSUME NEW n \in Node, NEW term \in Term, Order(n, term)
      PROVE  ordered' \subseteq Node \X Term /\ stored' \in [Node -> Term]
  BY <1>0, <1>o, LargerIsTerm DEF Order, Types
<1>13. ASSUME NEW n \in Node, LeadCached(n)
       PROVE  Types'
  <2>1. ordered' \subseteq Node \X Term /\ stored' \in [Node -> Term]
    BY <1>13, <1>o, Fields DEF LeadCached
  <2> QED
    BY <1>0, <1>13, <2>1 DEF LeadCached, Types, etcd
<1>14. ASSUME NEW t \in Thread, AskHeld(t) \/ AskUnclaimed(t)
       PROVE  Types'
  <2>1. call' \in [Thread -> CallState]
    BY SMTT(30), <1>0, <1>14 DEF AskHeld, AskUnclaimed, Types, CallState
  <2> QED
    BY <1>0, <1>14, <2>1 DEF AskHeld, AskUnclaimed, Types, etcd
<1>15. ASSUME NEW t \in Thread, LeadHeld(t)
       PROVE  Types'
  <2>1. Host[t] \in Node /\ TermOf(Host[t], Host[t]) \in Term
    BY <1>0, Fields DEF TermOf, Types
  <2>2. ordered' \subseteq Node \X Term /\ stored' \in [Node -> Term]
    BY <1>15, <1>o, <2>1 DEF LeadHeld
  <2> QED
    BY <1>0, <1>15, <2>2, Values DEF LeadHeld, Types, etcd
<1>16. ASSUME NEW t \in Thread, CreateForWrite(t)
       PROVE  Types'
  <2>1. PICK a \in Answer :
          /\ CreateTxn(Host[t], a)
          /\ call' = [call EXCEPT ![t].at = "claim", ![t].answer = a]
    BY <1>16 DEF CreateForWrite
  <2>2. claims' \in Seq(Node) /\ claim' \in MaybeNode
    BY <2>1, Fields, CreateTyped
  <2>3. call' \in [Thread -> CallState]
    BY <1>0, <2>1 DEF Types, CallState
  <2> QED
    BY <1>0, <1>16, <2>2, <2>3 DEF CreateForWrite, Types
<1>17. ASSUME NEW t \in Thread, CreateForWriteAnswered(t)
       PROVE  Types'
  <2> DEFINE n == Host[t]
             a == call[t].answer
  <2>1. n \in Node /\ a.node \in MaybeNode /\ a.term \in Term
    BY Fields
  <2>2. RaiseTerm(terms[n], a.term) \in Term
    BY <1>0, <2>1, LargerIsTerm DEF RaiseTerm, Types
  <2>3. terms' \in [Node -> Term]
    BY <1>0, <1>17, <2>2 DEF CreateForWriteAnswered, Types
  <2>4. leader' \in [Node -> Lead]
    BY <1>0, <1>17, <2>1 DEF CreateForWriteAnswered, Types, Lead
  <2>5. ordered' \subseteq Node \X Term /\ stored' \in [Node -> Term]
    <3>1. CASE a.node = n
      BY <1>17, <1>o, <2>1, <3>1 DEF CreateForWriteAnswered
    <3>2. CASE a.node # n
      BY <1>0, <1>17, <3>2 DEF CreateForWriteAnswered, Types
    <3> QED
      BY <3>1, <3>2
  <2> QED
    BY <1>0, <1>17, <2>3, <2>4, <2>5, Values DEF CreateForWriteAnswered, Types, etcd
<1>18. ASSUME NEW n \in Node, NEW m \in Node, NEW term \in 1 .. MaxTerm, Accept(n, m, term)
       PROVE  Types'
  <2>1. term \in Term
    BY ClusterAssumption DEF Term
  <2>2. Larger(terms[n], term) \in Term /\ Larger(stored[n], term) \in Term
    BY <1>0, <2>1, LargerIsTerm DEF Types
  <2> QED
    BY <1>0, <1>18, <2>2 DEF Accept, RaiseTerm, Types, etcd
<1>19. ASSUME NEW n \in Node, Restart(n)
       PROVE  Types'
  <2>1. terms' \in [Node -> Term]
    BY <1>0, <1>19 DEF Restart, RestoredTerm, Types
  <2>2. call' \in [Thread -> CallState]
    BY <1>0, <1>19, Values DEF Restart, Types
  <2> QED
    BY <1>0, <1>19, <2>1, <2>2, Values DEF Restart, Types, etcd
<1>20. CASE UNCHANGED vars
  BY <1>0, <1>20 DEF vars, Types
<1> QED
  BY <1>1, <1>2, <1>3, <1>4, <1>5, <1>6, <1>7, <1>8, <1>9, <1>10, <1>11, <1>12,
     <1>13, <1>14, <1>15, <1>16, <1>17, <1>18, <1>19, <1>20
     DEF Next, PassStep, CallStep

\* Every variable has the type its comment says, whatever goes wrong.
THEOREM EtcdClusterTypeCorrect == Spec => []TypeOK
BY InitType, StepType, PTL DEF Spec
-----------------------------------------------------------------------------
(* No term but a claim's. *)

\* Every term a node keeps, or that is on its way to one, is one a claim had.
TermsSeen ==
    /\ \A n \in Node :
         /\ terms[n] <= Len(claims) /\ stored[n] <= Len(claims)
         /\ leader[n].term <= Len(claims) /\ pass[n].answer.term <= Len(claims)
    /\ \A t \in Thread : call[t].answer.term <= Len(claims)
    /\ \A o \in ordered : o[2] <= Len(claims)

\* The numbers among them.
LEMMA TermsAreNaturals ==
    ASSUME TypeOK
    PROVE  /\ \A n \in Node :
                /\ terms[n] \in Nat /\ stored[n] \in Nat
                /\ leader[n].term \in Nat /\ pass[n].answer.term \in Nat
           /\ \A t \in Thread : call[t].answer.term \in Nat
           /\ \A o \in ordered : o[1] \in Node /\ o[2] \in Nat /\ o = <<o[1], o[2]>>
           /\ Len(claims) \in Nat
<1>1. \A n \in Node : terms[n] \in Term /\ stored[n] \in Term
  BY Typed DEF Types
<1>2. ordered \subseteq Node \X Term /\ claims \in Seq(Node)
  BY Typed DEF Types
<1>3. \A o \in ordered : o[1] \in Node /\ o[2] \in Term /\ o = <<o[1], o[2]>>
  BY <1>2
<1>4. Term \subseteq Nat
  BY Values
<1>5. \A n \in Node : leader[n].term \in Term /\ pass[n].answer.term \in Term
  BY Fields
<1>6. \A t \in Thread : call[t].answer.term \in Term
  BY Fields
<1>7. Len(claims) \in Nat
  BY <1>2
<1> QED
  BY <1>1, <1>3, <1>4, <1>5, <1>6, <1>7

\* A claim that was made stays made, and the world what it is.
LEMMA ClaimsRise ==
    ASSUME TypeOK, [Next]_vars
    PROVE  /\ world' = world
           /\ \/ claims' = claims
              \/ \E n \in Node : claims' = Append(claims, n)
<1>1. ASSUME NEW n \in Node, NEW a \in Answer, CreateTxn(n, a)
      PROVE  claims' = claims \/ claims' = Append(claims, n)
  BY <1>1, CreateShape
<1>2. ASSUME NEW n \in Node, CreateClaim(n)
      PROVE  world' = world /\ (claims' = claims \/ claims' = Append(claims, n))
  BY <1>1, <1>2 DEF CreateClaim
<1>3. ASSUME NEW t \in Thread, CreateForWrite(t)
      PROVE  world' = world /\ (claims' = claims \/ claims' = Append(claims, Host[t]))
  BY <1>1, <1>3, Fields DEF CreateForWrite
<1>4. ASSUME NEW n \in Node,
             \/ LapseClaim \/ LapseRegistration(n) \/ LeadCached(n) \/ Restart(n)
             \/ Refresh(n) \/ SkipLeaders(n) \/ ReadLeadersFails(n) \/ ReadLeaders(n)
             \/ KeepClaim(n) \/ RemoveClaim(n) \/ RemoveAnswered(n) \/ LeaveUnclaimed(n)
             \/ CreateAnswered(n) \/ StoreLeaders(n)
      PROVE  world' = world /\ claims' = claims
  BY <1>4 DEF LapseClaim, LapseRegistration, LeadCached, Restart, Refresh, SkipLeaders,
              ReadLeadersFails, ReadLeaders, KeepClaim, RemoveClaim, RemoveAnswered,
              LeaveUnclaimed, CreateAnswered, StoreLeaders, etcd
<1>5. ASSUME NEW t \in Thread,
             AskHeld(t) \/ AskUnclaimed(t) \/ LeadHeld(t) \/ CreateForWriteAnswered(t)
      PROVE  world' = world /\ claims' = claims
  BY <1>5 DEF AskHeld, AskUnclaimed, LeadHeld, CreateForWriteAnswered, etcd
<1>6. ASSUME NEW n \in Node, NEW m \in Node, NEW term \in 1 .. MaxTerm, Accept(n, m, term)
      PROVE  world' = world /\ claims' = claims
  BY <1>6 DEF Accept, etcd
<1>7. LapseClaim => world' = world /\ claims' = claims
  BY DEF LapseClaim
<1>8. UNCHANGED vars => world' = world /\ claims' = claims
  BY DEF vars
<1> QED
  BY <1>2, <1>3, <1>4, <1>5, <1>6, <1>7, <1>8, Fields DEF Next, PassStep, CallStep

\* No step takes a claim out of the history.
LEMMA LengthRises ==
    ASSUME TypeOK, [Next]_vars
    PROVE  /\ Len(claims') \in Nat /\ Len(claims) <= Len(claims')
           /\ \A t \in 1 .. Len(claims) : claims'[t] = claims[t]
<1>1. claims \in Seq(Node)
  BY Typed DEF Types
<1> QED
  BY <1>1, ClaimsRise

\* At first no term has been seen.
LEMMA InitTerms == Init => TermsSeen
BY DEF Init, TermsSeen, NoLead, IdlePass, IdleCall, NoAnswer

\* No step brings in a term that no claim had.
LEMMA StepTerms == TypeOK /\ TermsSeen /\ [Next]_vars => TermsSeen'
<1> SUFFICES ASSUME TypeOK, TermsSeen, [Next]_vars
             PROVE  TermsSeen'
  OBVIOUS
<1>0. Types
  BY Typed
<1>n. /\ \A n \in Node :
           /\ terms[n] \in Nat /\ stored[n] \in Nat
           /\ leader[n].term \in Nat /\ pass[n].answer.term \in Nat
      /\ \A t \in Thread : call[t].answer.term \in Nat
      /\ \A o \in ordered : o[2] \in Nat
      /\ Len(claims) \in Nat /\ Len(claims') \in Nat /\ Len(claims) <= Len(claims')
  BY TermsAreNaturals, LengthRises
<1> DEFINE L == Len(claims')
<1>l. \A i \in Nat : i <= Len(claims) => i <= L
  BY <1>n
<1>s. /\ \A n \in Node : /\ terms[n] <= L /\ stored[n] <= L
                         /\ leader[n].term <= L /\ pass[n].answer.term <= L
      /\ \A t \in Thread : call[t].answer.term <= L
      /\ \A o \in ordered : o[2] <= L
  BY <1>n, <1>l DEF TermsSeen
<1> HIDE DEF L
<1>r. SUFFICES /\ \A n \in Node : /\ terms'[n] <= L /\ stored'[n] <= L
                                  /\ leader'[n].term <= L /\ pass'[n].answer.term <= L
               /\ \A t \in Thread : call'[t].answer.term <= L
               /\ \A o \in ordered' : o[2] <= L
  BY DEF TermsSeen, L
<1> DEFINE Goal == /\ \A n \in Node : /\ terms'[n] <= L /\ stored'[n] <= L
                                      /\ leader'[n].term <= L /\ pass'[n].answer.term <= L
                   /\ \A t \in Thread : call'[t].answer.term <= L
                   /\ \A o \in ordered' : o[2] <= L
<1>z. 0 <= L
  BY <1>n DEF L
\* Steps of a pass that at most clear its answer.
<1>1. ASSUME NEW n \in Node, UNCHANGED <<terms, stored, call, ordered>>,
             \A m \in Node : leader'[m].term \in {leader[m].term, pass[m].answer.term, 0},
             \A m \in Node : pass'[m].answer.term \in {pass[m].answer.term, terms[m], 0}
      PROVE  Goal
  <2>1. \A m \in Node : leader'[m].term <= L
    BY <1>s, <1>z, <1>1
  <2>2. \A m \in Node : pass'[m].answer.term <= L
    BY <1>s, <1>z, <1>1
  <2> QED
    BY <1>s, <1>1, <2>1, <2>2
<1>2. ASSUME NEW n \in Node, LapseClaim \/ LapseRegistration(n)
      PROVE  Goal
  BY <1>s, <1>2 DEF LapseClaim, LapseRegistration
<1>3. ASSUME NEW n \in Node, Refresh(n) \/ ReadLeaders(n) \/ SkipLeaders(n)
                               \/ ReadLeadersFails(n)
      PROVE  Goal
  <2>1. UNCHANGED <<terms, stored, call, ordered>>
    BY <1>3 DEF Refresh, ReadLeaders, SkipLeaders, ReadLeadersFails
  <2>2. \A m \in Node : leader'[m].term \in {leader[m].term, 0}
    BY <1>0, <1>3 DEF Refresh, ReadLeaders, SkipLeaders, ReadLeadersFails, NoLead, Types
  <2>3. \A m \in Node : pass'[m].answer.term \in {pass[m].answer.term, 0}
    <3>1. CASE Refresh(n) \/ ReadLeaders(n)
      <4>1. \A m \in Node : pass[m] \in PassState
        BY Fields
      <4>2. \/ pass' = [pass EXCEPT ![n].at = "leaders"]
            \/ pass' = [pass EXCEPT ![n].at = "decide", ![n].seen = claim]
        BY <3>1 DEF Refresh, ReadLeaders
      <4>3. \A m \in Node : pass'[m].answer = pass[m].answer
        BY SMTT(30), <1>0, <4>1, <4>2 DEF Types, PassState
      <4> QED
        BY <4>3
    <3>2. CASE SkipLeaders(n) \/ ReadLeadersFails(n)
      BY <1>0, <3>2 DEF SkipLeaders, ReadLeadersFails, IdlePass, NoAnswer, Types
    <3> QED
      BY <1>3, <3>1, <3>2
  <2> QED
    BY <1>1, <2>1, <2>2, <2>3
<1>4. ASSUME NEW n \in Node, KeepClaim(n) \/ RemoveAnswered(n) \/ LeaveUnclaimed(n)
                               \/ StoreLeaders(n)
      PROVE  Goal
  <2>1. UNCHANGED <<terms, stored, call, ordered>>
    BY <1>4 DEF KeepClaim, RemoveAnswered, LeaveUnclaimed, StoreLeaders
  <2>2. \A m \in Node : leader'[m].term \in {leader[m].term, pass[m].answer.term}
    BY <1>0, <1>4 DEF KeepClaim, RemoveAnswered, LeaveUnclaimed, StoreLeaders, Types
  <2>3. \A m \in Node : pass'[m].answer.term \in {pass[m].answer.term, terms[m], 0}
    BY SMTT(30), <1>0, <1>4 DEF KeepClaim, RemoveAnswered, LeaveUnclaimed, StoreLeaders, IdlePass,
                      NoAnswer, Types, PassState, Know, TermOf
  <2> QED
    BY <1>1, <2>1, <2>2, <2>3
<1>5. ASSUME NEW n \in Node, RemoveClaim(n)
      PROVE  Goal
  <2>1. UNCHANGED <<terms, stored, call, ordered, leader>>
    BY <1>5 DEF RemoveClaim
  <2>2. PICK ok \in BOOLEAN :
          pass' = [pass EXCEPT ![n].at = "release", ![n].answer.held = ok]
    BY <1>5 DEF RemoveClaim
  <2>3. \A m \in Node : pass'[m].answer.term = pass[m].answer.term
    BY <1>0, <2>2 DEF Types, PassState, Answer
  <2> QED
    BY <1>s, <2>1, <2>3
\* A claim's answer names no term but the last.
<1>a. ASSUME NEW n \in Node, NEW a \in Answer, CreateTxn(n, a)
      PROVE  a.term <= L
  <2>1. a.term = 0 \/ (a.term = Len(claims) /\ claims' = claims)
          \/ (a.term = Len(claims) + 1 /\ claims' = Append(claims, n))
    BY <1>a, CreateShape DEF NoAnswer
  <2>2. Len(Append(claims, n)) = Len(claims) + 1
    BY <1>0 DEF Types
  <2> QED
    BY <1>n, <1>z, <2>1, <2>2 DEF L
<1>6. ASSUME NEW n \in Node, CreateClaim(n)
      PROVE  Goal
  <2>1. UNCHANGED <<terms, stored, call, ordered, leader>>
    BY <1>6 DEF CreateClaim
  <2>2. PICK a \in Answer :
          /\ CreateTxn(n, a)
          /\ pass' = [pass EXCEPT ![n].at = "claim", ![n].answer = a]
    BY <1>6 DEF CreateClaim
  <2>3. \A m \in Node : pass'[m].answer = IF m = n THEN a ELSE pass[m].answer
    BY <1>0, <2>2 DEF Types, PassState
  <2> QED
    BY ZenonT(60), <1>a, <1>s, <2>1, <2>2, <2>3
<1>7. ASSUME NEW t \in Thread, CreateForWrite(t)
      PROVE  Goal
  <2>1. UNCHANGED <<terms, stored, pass, ordered, leader>>
    BY <1>7 DEF CreateForWrite
  <2>2. PICK a \in Answer :
          /\ CreateTxn(Host[t], a)
          /\ call' = [call EXCEPT ![t].at = "claim", ![t].answer = a]
    BY <1>7 DEF CreateForWrite
  <2>3. \A u \in Thread : call'[u].answer = IF u = t THEN a ELSE call[u].answer
    BY <1>0, <2>2 DEF Types, CallState
  <2>4. Host[t] \in Node
    BY Fields
  <2> QED
    BY ZenonT(60), <1>a, <1>s, <2>1, <2>2, <2>3, <2>4
<1>8. ASSUME NEW n \in Node, CreateAnswered(n)
      PROVE  Goal
  <2>1. UNCHANGED <<stored, call, ordered, leader>>
    BY <1>8 DEF CreateAnswered
  <2>2. \A m \in Node : pass'[m].answer.term = pass[m].answer.term
    BY <1>0, <1>8 DEF CreateAnswered, Know, Types, PassState
  <2>3. \A m \in Node : terms'[m] \in {terms[m], pass[m].answer.term}
    BY <1>0, <1>8 DEF CreateAnswered, RaiseTerm, Larger, Types
  <2>4. \A m \in Node : terms'[m] <= L
    BY <1>s, <2>3
  <2> QED
    BY <1>s, <2>1, <2>2, <2>4
<1>o. ASSUME NEW n \in Node, NEW term \in Nat, Order(n, term), term <= L
      PROVE  (\A m \in Node : stored'[m] <= L) /\ (\A o \in ordered' : o[2] <= L)
  <2>1. \A m \in Node : stored'[m] \in {stored[m], term}
    BY <1>0, <1>o DEF Order, Larger, Types
  <2>2. \A m \in Node : stored'[m] <= L
    BY <1>s, <1>o, <2>1
  <2>3. ordered' = ordered \cup {<<n, term>>}
    BY <1>o DEF Order
  <2> QED
    BY <1>s, <1>o, <2>2, <2>3
<1>9. ASSUME NEW n \in Node, LeadCached(n)
      PROVE  Goal
  <2>1. UNCHANGED <<terms, leader, pass, call>>
    BY <1>9 DEF LeadCached
  <2>2. Order(n, leader[n].term)
    BY <1>9 DEF LeadCached
  <2>3. (\A m \in Node : stored'[m] <= L) /\ (\A o \in ordered' : o[2] <= L)
    BY <1>n, <1>o, <1>s, <2>2
  <2> QED
    BY <1>s, <2>1, <2>3
<1>10. ASSUME NEW t \in Thread, AskHeld(t) \/ AskUnclaimed(t)
       PROVE  Goal
  <2>1. UNCHANGED <<terms, stored, leader, pass, ordered>>
    BY <1>10 DEF AskHeld, AskUnclaimed
  <2>2. \A u \in Thread : call'[u].answer = call[u].answer
    <3>1. \E where \in {"held", "create"} : call' = [call EXCEPT ![t].at = where]
      BY <1>10 DEF AskHeld, AskUnclaimed
    <3> QED
      BY <1>0, <3>1 DEF Types, CallState
  <2> QED
    BY <1>s, <2>1, <2>2
<1>11. ASSUME NEW t \in Thread, LeadHeld(t)
       PROVE  Goal
  <2>1. UNCHANGED <<terms, leader, pass>> /\ Host[t] \in Node
    BY <1>11, Fields DEF LeadHeld
  <2>2. Order(Host[t], terms[Host[t]])
    BY <1>11 DEF LeadHeld, TermOf
  <2>3. (\A m \in Node : stored'[m] <= L) /\ (\A o \in ordered' : o[2] <= L)
    BY <1>n, <1>o, <1>s, <2>1, <2>2
  <2>4. \A u \in Thread : call'[u].answer.term \in {call[u].answer.term, 0}
    BY <1>0, <1>11 DEF LeadHeld, IdleCall, NoAnswer, Types
  <2> QED
    BY <1>s, <1>z, <2>1, <2>3, <2>4
<1>12. ASSUME NEW t \in Thread, CreateForWriteAnswered(t)
       PROVE  Goal
  <2> DEFINE n == Host[t]
             a == call[t].answer
  <2>1. UNCHANGED pass /\ n \in Node /\ a.term \in Nat /\ a.term <= L
    BY <1>n, <1>s, <1>12, Fields DEF CreateForWriteAnswered
  <2>2. \A m \in Node : terms'[m] \in {terms[m], a.term}
    BY <1>0, <1>12 DEF CreateForWriteAnswered, RaiseTerm, Larger, Types
  <2>3. \A m \in Node : leader'[m].term \in {leader[m].term, a.term}
    BY <1>0, <1>12 DEF CreateForWriteAnswered, Types
  <2>4. \A u \in Thread : call'[u].answer.term \in {call[u].answer.term, 0}
    BY <1>0, <1>12 DEF CreateForWriteAnswered, IdleCall, NoAnswer, Types
  <2>5. (\A m \in Node : stored'[m] <= L) /\ (\A o \in ordered' : o[2] <= L)
    <3>1. CASE a.node = n
      <4>1. Order(n, a.term)
        BY <1>12, <3>1 DEF CreateForWriteAnswered
      <4> QED
        BY <1>o, <2>1, <4>1
    <3>2. CASE a.node # n
      BY <1>s, <1>12, <3>2 DEF CreateForWriteAnswered
    <3> QED
      BY <3>1, <3>2
  <2>6. (\A m \in Node : terms'[m] <= L /\ leader'[m].term <= L)
    BY <1>s, <2>1, <2>2, <2>3
  <2> QED
    BY <1>s, <1>z, <2>1, <2>4, <2>5, <2>6
<1>13. ASSUME NEW n \in Node, NEW m \in Node, NEW term \in 1 .. MaxTerm, Accept(n, m, term)
       PROVE  Goal
  <2>1. UNCHANGED <<leader, pass, call, ordered>> /\ <<m, term>> \in ordered
    BY <1>13 DEF Accept, etcd
  <2>2. term <= L
    BY <1>s, <2>1
  <2>3. \A k \in Node : terms'[k] \in {terms[k], term} /\ stored'[k] \in {stored[k], term}
    BY <1>0, <1>13 DEF Accept, RaiseTerm, Larger, Types
  <2>4. \A k \in Node : terms'[k] <= L /\ stored'[k] <= L
    BY <1>s, <2>2, <2>3
  <2> QED
    BY <1>s, <2>1, <2>4
<1>14. ASSUME NEW n \in Node, Restart(n)
       PROVE  Goal
  <2>1. UNCHANGED <<stored, ordered>>
    BY <1>14 DEF Restart
  <2>2. \A m \in Node : /\ terms'[m] \in {terms[m], stored[m]}
                        /\ leader'[m].term \in {leader[m].term, 0}
                        /\ pass'[m].answer.term \in {pass[m].answer.term, 0}
    BY <1>0, <1>14 DEF Restart, RestoredTerm, NoLead, IdlePass, NoAnswer, Types
  <2>3. \A u \in Thread : call'[u].answer.term \in {call[u].answer.term, 0}
    BY <1>14 DEF Restart, IdleCall, NoAnswer
  <2> QED
    BY <1>s, <1>z, <2>1, <2>2, <2>3
<1>15. CASE UNCHANGED vars
  BY <1>s, <1>15 DEF vars
<1>16. ASSUME LapseClaim
       PROVE  Goal
  BY <1>s, <1>16 DEF LapseClaim
<1> QED
  BY <1>2, <1>3, <1>4, <1>5, <1>6, <1>7, <1>8, <1>9, <1>10, <1>11, <1>12, <1>13, <1>14,
     <1>15, <1>16 DEF Next, PassStep, CallStep

\* Whatever goes wrong, no fence in memory or on disk is above the newest
\* claim: the rightful leader, whose claim that is, is refused by no copy.
THEOREM NoFenceIsAboveTheClaims == Spec => []NoFenceAboveClaims
<1>1. Init => TypeOK /\ TermsSeen
  BY InitType, InitTerms
<1>2. (TypeOK /\ TermsSeen) /\ [Next]_vars => (TypeOK /\ TermsSeen)'
  BY StepType, StepTerms
<1>3. TermsSeen => NoFenceAboveClaims
  BY DEF TermsSeen, NoFenceAboveClaims
<1> QED
  BY <1>1, <1>2, <1>3, PTL DEF Spec
-----------------------------------------------------------------------------
(* Orderly worlds. *)

\* The terms its fence has reached, and those it will be raised to.
Cover(n) == {c \in Nat : c <= terms[n]} \cup Unheard(n)
Covered(n, term) == term \in Cover(n)

\* Node n created the claim of this term.
Won(n, term) == term \in 1 .. Len(claims) /\ claims[term] = n

\* A term node n may lead in.
Own(n, term) == Won(n, term) /\ Covered(n, term)

\* The claim there is is node n's, and its fence is there.
Holds(n) == claim = n /\ terms[n] = Len(claims)

ClaimOK == claim # NoNode => Own(claim, Len(claims))

NodeOK(n) ==
    /\ Covered(n, stored[n])
    /\ leader[n].node = n => Own(n, leader[n].term)

\* An answer that reads the claim, or makes it, is true when it arrives.
PassOK(n) ==
    /\ pass[n].at \in {"claim", "store"} /\ pass[n].answer.node = n =>
         Own(n, pass[n].answer.term)
    /\ pass[n].at = "claim" /\ pass[n].answer.held => pass[n].answer.node = n
    /\ pass[n].at = "decide" /\ pass[n].seen = n => Holds(n)
    /\ pass[n].at = "release" =>
         pass[n].seen = n /\ (~pass[n].answer.held => Holds(n))

CallOK(t) ==
    /\ call[t].at = "claim" /\ call[t].answer.node = Host[t] =>
         Own(Host[t], call[t].answer.term)
    /\ call[t].at = "claim" /\ call[t].answer.held => call[t].answer.node = Host[t]
    /\ call[t].at = "held" => Holds(Host[t])

OrderedOK == \A o \in ordered : Won(o[1], o[2])

OrderlyInv ==
    /\ ClaimOK
    /\ \A n \in Node : NodeOK(n) /\ PassOK(n)
    /\ \A t \in Thread : CallOK(t)
    /\ OrderedOK

IInv == TypeOK /\ TermsSeen /\ (Orderly => OrderlyInv)

\* At first nobody leads, holds a claim or waits for an answer.
LEMMA InitOrderly == Init => OrderlyInv
<1> SUFFICES ASSUME Init
             PROVE  OrderlyInv
  OBVIOUS
<1>1. \A n \in Node : stored[n] = 0 /\ 0 \in Cover(n)
  BY DEF Init, Cover
<1>2. \A n \in Node : NodeOK(n) /\ PassOK(n)
  BY <1>1, Values DEF Init, NodeOK, PassOK, Covered, NoLead, IdlePass
<1>3. \A t \in Thread : CallOK(t)
  BY DEF Init, CallOK, IdleCall
<1> QED
  BY <1>2, <1>3 DEF Init, OrderlyInv, ClaimOK, OrderedOK

\* Terms are naturals.
LEMMA CoverIsNatural ==
    ASSUME TypeOK, NEW n \in Node
    PROVE  Cover(n) \subseteq Nat
BY TermsAreNaturals, Values DEF Cover, Unheard

\* What covers a term goes on covering it when fences rise and a win is heard
\* of by raising one.
LEMMA CoverStays ==
    ASSUME TypeOK, TypeOK', NEW n \in Node,
           terms[n] <= terms'[n],
           (pass[n].at = "claim" /\ pass[n].answer.held) =>
             \/ pass'[n] = pass[n]
             \/ pass[n].answer.term <= terms'[n],
           \A t \in Thread :
             (Host[t] = n /\ call[t].at = "claim" /\ call[t].answer.held) =>
               \/ call'[t] = call[t]
               \/ call[t].answer.term <= terms'[n]
    PROVE  Cover(n) \subseteq Cover(n)'
<1> SUFFICES ASSUME NEW c \in Cover(n)
             PROVE  c \in Cover(n)'
  OBVIOUS
<1>0. c \in Nat /\ terms[n] \in Nat /\ terms'[n] \in Nat
  <2>1. c \in Nat /\ terms[n] \in Nat
    BY CoverIsNatural, TermsAreNaturals
  <2>2. terms'[n] \in Nat
    BY Values DEF TypeOK
  <2> QED
    BY <2>1, <2>2
<1>1. c <= terms'[n] => c \in Cover(n)'
  BY <1>0 DEF Cover
<1>2. CASE c <= terms[n]
  BY <1>0, <1>1, <1>2
<1>3. CASE c \in Unheard(n)
  <2>1. c \in Term
    BY <1>3 DEF Unheard
  <2>2. CASE pass[n].at = "claim" /\ pass[n].answer.held /\ c = pass[n].answer.term
    BY <1>1, <2>1, <2>2 DEF Cover, Unheard
  <2>3. CASE \E t \in Thread : /\ Host[t] = n
                               /\ call[t].at = "claim" /\ call[t].answer.held
                               /\ c = call[t].answer.term
    BY <1>1, <2>1, <2>3 DEF Cover, Unheard
  <2> QED
    BY <1>3, <2>2, <2>3 DEF Unheard
<1> QED
  BY <1>2, <1>3 DEF Cover

\* The same for one term and what follows of it.
LEMMA OwnStays ==
    ASSUME TypeOK, TypeOK', [Next]_vars, NEW n \in Node, NEW term \in Nat,
           Cover(n) \subseteq Cover(n)'
    PROVE  /\ term \in Cover(n) => term \in Cover(n)'
           /\ (term \in 1 .. Len(claims) /\ claims[term] = n) =>
                (term \in 1 .. Len(claims') /\ claims'[term] = n)
<1>2. Len(claims') \in Nat /\ Len(claims) <= Len(claims') /\ Len(claims) \in Nat
      /\ \A t \in 1 .. Len(claims) : claims'[t] = claims[t]
  BY LengthRises, TermsAreNaturals
<1> QED
  BY <1>2

\* What covers a term of node n goes on covering it.
CoverKept(n) == Cover(n) \subseteq Cover(n)'

\* What a step leaves alone it leaves in order, if it lets go of no cover.
LEMMA FrameNode ==
    ASSUME TypeOK, TypeOK', [Next]_vars, OrderlyInv, NEW n \in Node, CoverKept(n),
           stored'[n] = stored[n], leader'[n] \in {leader[n], NoLead}
    PROVE  NodeOK(n)'
<1>1. stored[n] \in Nat /\ leader[n].term \in Nat
  BY TermsAreNaturals
<1>2. NodeOK(n)
  BY DEF OrderlyInv
<1>3. Covered(n, stored[n])'
  BY <1>1, <1>2, OwnStays DEF NodeOK, Covered, CoverKept
<1>4. leader'[n] = leader[n] /\ leader[n].node = n => Own(n, leader[n].term)'
  BY <1>1, <1>2, OwnStays DEF NodeOK, Own, Won, Covered, CoverKept
<1>5. leader'[n] = NoLead => leader'[n].node # n
  BY Values DEF NoLead
<1> QED
  BY <1>3, <1>4, <1>5 DEF NodeOK

\* What a pass knows stands while the pass and what it relies on do.
LEMMA FramePass ==
    ASSUME TypeOK, TypeOK', [Next]_vars, OrderlyInv, NEW n \in Node, CoverKept(n),
           pass'[n] = pass[n], Holds(n) => Holds(n)'
    PROVE  PassOK(n)'
<1>1. pass[n].answer.term \in Nat
  BY TermsAreNaturals
<1>2. PassOK(n)
  BY DEF OrderlyInv
<1>3. Own(n, pass[n].answer.term) => Own(n, pass[n].answer.term)'
  BY <1>1, OwnStays DEF Own, Won, Covered, CoverKept
<1> QED
  BY <1>2, <1>3 DEF PassOK

\* What a call knows stands while the call and what it relies on do.
LEMMA FrameCall ==
    ASSUME TypeOK, TypeOK', [Next]_vars, OrderlyInv, NEW t \in Thread,
           CoverKept(Host[t]), call'[t] = call[t], Holds(Host[t]) => Holds(Host[t])'
    PROVE  CallOK(t)'
<1>1. call[t].answer.term \in Nat /\ Host[t] \in Node
  BY TermsAreNaturals, Fields
<1>2. CallOK(t)
  BY DEF OrderlyInv
<1>3. Own(Host[t], call[t].answer.term) => Own(Host[t], call[t].answer.term)'
  BY <1>1, OwnStays DEF Own, Won, Covered, CoverKept
<1> QED
  BY <1>2, <1>3 DEF CallOK

\* What the claim says of its holder stands while both are left alone.
LEMMA FrameClaim ==
    ASSUME TypeOK, TypeOK', [Next]_vars, OrderlyInv,
           UNCHANGED <<claim, claims>>, \A n \in Node : claim = n => CoverKept(n)
    PROVE  ClaimOK'
<1> SUFFICES ASSUME claim # NoNode
             PROVE  Own(claim, Len(claims))'
  BY DEF ClaimOK
<1>1. Len(claims) \in Nat /\ claim \in Node
  BY TermsAreNaturals DEF TypeOK, MaybeNode
<1>2. Own(claim, Len(claims))
  BY DEF OrderlyInv, ClaimOK
<1>3. PICK n \in Node : n = claim
  BY <1>1
<1>4. /\ Len(claims) \in Cover(n)
      /\ Len(claims) \in 1 .. Len(claims) /\ claims[Len(claims)] = n
  BY <1>2, <1>3 DEF Own, Won, Covered
<1>5. CoverKept(n)
  BY <1>3
<1>6. Len(claims) \in Cover(n)'
  BY <1>1, <1>4, <1>5, OwnStays DEF CoverKept
<1>7. Own(n, Len(claims))'
  BY <1>4, <1>6 DEF Own, Won, Covered
<1> QED
  BY <1>3, <1>7 DEF Own, Won, Covered

\* What was ordered was ordered in terms of claims that stay in the history.
LEMMA FrameOrdered ==
    ASSUME TypeOK, TypeOK', [Next]_vars, OrderlyInv, ordered' = ordered
    PROVE  OrderedOK'
<1> SUFFICES ASSUME NEW o \in ordered
             PROVE  Won(o[1], o[2])'
  BY DEF OrderedOK
<1>1. o[2] \in 1 .. Len(claims) /\ claims[o[2]] = o[1]
  BY DEF OrderlyInv, OrderedOK, Won
<1> QED
  BY <1>1, LengthRises, TermsAreNaturals DEF Won

\* The claim there is is the last one made, and its holder's fence is there once
\* no create of that node is unanswered.
LEMMA HolderIsLast ==
    ASSUME TypeOK, TermsSeen, OrderlyInv, NEW n \in Node, claim = n
    PROVE  /\ Won(n, Len(claims))
           /\ ~CreateOnItsWay(n) => Holds(n)
<1>1. Own(n, Len(claims))
  BY Values DEF OrderlyInv, ClaimOK
<1>2. ASSUME ~CreateOnItsWay(n)
      PROVE  Holds(n)
  <2>1. Unheard(n) = {}
    BY <1>2 DEF CreateOnItsWay, Unheard
  <2>2. Len(claims) <= terms[n]
    BY <1>1, <2>1 DEF Own, Covered, Cover
  <2>3. terms[n] <= Len(claims) /\ terms[n] \in Nat /\ Len(claims) \in Nat
    BY TermsAreNaturals DEF TermsSeen
  <2> QED
    BY <2>2, <2>3 DEF Holds
<1> QED
  BY <1>1, <1>2 DEF Own

\* Once it is there, the holder of the claim may lead in its newest term.
LEMMA HolderMayLead ==
    ASSUME TypeOK, TermsSeen, OrderlyInv, NEW n \in Node, Holds(n)
    PROVE  /\ terms[n] \in 1 .. Len(claims) /\ claims[terms[n]] = n
           /\ terms[n] \in Cover(n)
<1>1. Won(n, Len(claims))
  BY HolderIsLast DEF Holds
<1>2. terms[n] \in Cover(n) /\ terms[n] \in Nat
  BY TermsAreNaturals DEF Cover
<1>3. terms[n] <= terms[n]
  BY <1>2
<1> QED
  BY <1>1, <1>2, <1>3 DEF Won, Holds

\* A step that neither makes nor loses a claim, and neither raises nor drops a
\* fence, keeps every cover and every claim held.
LEMMA QuietCover ==
    ASSUME TypeOK, TypeOK', UNCHANGED terms,
           \A n \in Node : (pass[n].at = "claim" /\ pass[n].answer.held) =>
                             \/ pass'[n] = pass[n]
                             \/ pass[n].answer.term <= terms'[n],
           \A t \in Thread : (call[t].at = "claim" /\ call[t].answer.held) =>
                               call'[t] = call[t]
    PROVE  \A n \in Node : CoverKept(n)
<1> SUFFICES ASSUME NEW n \in Node
             PROVE  CoverKept(n)
  OBVIOUS
<1>1. terms[n] \in Nat
  BY TermsAreNaturals
<1>2. terms[n] <= terms'[n]
  BY <1>1
<1> QED
  BY <1>2, CoverStays DEF CoverKept

\* Steps of the membership thread and of etcd.
LEMMA PassStepOrderly ==
    ASSUME IInv, Orderly, TypeOK', [Next]_vars, NEW n \in Node,
           \/ LapseClaim \/ LapseRegistration(n)
           \/ Refresh(n) \/ SkipLeaders(n) \/ ReadLeadersFails(n) \/ ReadLeaders(n)
           \/ KeepClaim(n) \/ RemoveClaim(n) \/ RemoveAnswered(n)
           \/ LeaveUnclaimed(n) \/ StoreLeaders(n)
    PROVE  OrderlyInv'
<1>0. TypeOK /\ TermsSeen /\ OrderlyInv /\ Types
  BY Typed DEF IInv
<1>f. "lost" \notin Faults /\ "slow" \notin Faults /\ "race" \notin Faults
  BY <1>0, ClusterAssumption DEF Orderly, Faults, Disorder, Types
<1>u. UNCHANGED <<terms, stored, call, ordered>>
  BY DEF LapseClaim, LapseRegistration, Refresh, SkipLeaders, ReadLeadersFails, ReadLeaders,
         KeepClaim, RemoveClaim, RemoveAnswered, LeaveUnclaimed, StoreLeaders
<1>p. \A m \in Node \ {n} : pass'[m] = pass[m]
  BY <1>0 DEF LapseClaim, LapseRegistration, Refresh, SkipLeaders, ReadLeadersFails,
         ReadLeaders, KeepClaim, RemoveClaim, RemoveAnswered, LeaveUnclaimed, StoreLeaders,
         Know, Types
<1>w. pass[n].at = "claim" => pass'[n] = pass[n]
  BY DEF LapseClaim, LapseRegistration, Refresh, SkipLeaders, ReadLeadersFails,
         ReadLeaders, CanReadLeaders, KeepClaim, RemoveClaim, RemoveAnswered,
         LeaveUnclaimed, StoreLeaders
<1>c. \A m \in Node : CoverKept(m)
  BY <1>0, <1>p, <1>u, <1>w, QuietCover
<1>r. OrderedOK'
  BY <1>0, <1>u, FrameOrdered
<1>l. ASSUME UNCHANGED <<claim, claims>>
      PROVE  /\ \A m \in Node : Holds(m) => Holds(m)'
             /\ \A m \in Node \ {n} : PassOK(m)'
             /\ \A t \in Thread : CallOK(t)'
             /\ ClaimOK'
  <2>1. \A m \in Node : Holds(m) => Holds(m)'
    BY <1>l, <1>u DEF Holds
  <2>2. \A t \in Thread : Host[t] \in Node
    BY <1>0, Fields
  <2> QED
    BY <1>0, <1>c, <1>l, <1>p, <1>u, <2>1, <2>2, FramePass, FrameCall, FrameClaim
<1>d. ASSUME \A m \in Node : leader'[m] \in {leader[m], NoLead}
      PROVE  \A m \in Node : NodeOK(m)'
  BY <1>0, <1>c, <1>d, <1>u, FrameNode
<1>1. CASE LapseClaim
  <2>1. claim' = NoNode /\ ~ReadOnItsWay(claim) /\ UNCHANGED <<claims, pass, leader>>
    BY <1>f, <1>1 DEF LapseClaim
  <2>2. ASSUME NEW m \in Node, Holds(m)
        PROVE  ~ReadOnItsWay(m)
    BY <2>1, <2>2 DEF Holds
  <2>3. ASSUME NEW m \in Node
        PROVE  PassOK(m)'
    <3>1. PassOK(m)
      BY <1>0 DEF OrderlyInv
    <3>2. ~(pass[m].at = "decide" /\ pass[m].seen = m)
      BY <2>2, <3>1 DEF PassOK, ReadOnItsWay
    <3>3. pass[m].at = "release" => pass[m].seen = m /\ pass[m].answer.held
      BY <2>2, <3>1 DEF PassOK, ReadOnItsWay
    <3>4. pass[m].answer.term \in Nat
      BY <1>0, TermsAreNaturals
    <3>5. Own(m, pass[m].answer.term) => Own(m, pass[m].answer.term)'
      BY <1>0, <1>c, <2>1, <3>4, OwnStays DEF Own, Won, Covered, CoverKept
    <3> QED
      BY <2>1, <3>1, <3>2, <3>3, <3>5 DEF PassOK
  <2>4. ASSUME NEW t \in Thread
        PROVE  CallOK(t)'
    <3>1. CallOK(t) /\ Host[t] \in Node /\ call[t].answer.term \in Nat
      BY <1>0, Fields, TermsAreNaturals DEF OrderlyInv
    <3>2. call[t].at # "held"
      BY <2>2, <3>1 DEF CallOK, ReadOnItsWay
    <3>3. Own(Host[t], call[t].answer.term) => Own(Host[t], call[t].answer.term)'
      BY <1>0, <1>c, <1>u, <3>1, OwnStays DEF Own, Won, Covered, CoverKept
    <3> QED
      BY <1>u, <3>1, <3>2, <3>3 DEF CallOK
  <2>5. ClaimOK'
    BY <2>1 DEF ClaimOK
  <2> QED
    BY <1>d, <1>r, <2>1, <2>3, <2>4, <2>5 DEF OrderlyInv
<1>2. CASE LapseRegistration(n)
  <2>1. UNCHANGED <<claim, claims, pass, leader>>
    BY <1>2 DEF LapseRegistration
  <2>2. PassOK(n)'
    BY <1>0, <1>c, <1>l, <2>1, FramePass
  <2> QED
    BY <1>d, <1>l, <1>r, <2>1, <2>2 DEF OrderlyInv
\* A pass in none of the places PassOK is about.
<1>q. ASSUME pass'[n].at \in {"idle", "leaders"}
      PROVE  PassOK(n)'
  BY <1>q DEF PassOK
<1>3. CASE Refresh(n) \/ SkipLeaders(n) \/ ReadLeadersFails(n)
  <2>1. UNCHANGED <<claim, claims>>
    BY <1>3 DEF Refresh, SkipLeaders, ReadLeadersFails, etcd
  <2>2. \A m \in Node : leader'[m] \in {leader[m], NoLead}
    BY <1>0, <1>3 DEF Refresh, SkipLeaders, ReadLeadersFails, Types
  <2>3. pass'[n].at \in {"idle", "leaders"}
    BY <1>0, <1>3 DEF Refresh, SkipLeaders, ReadLeadersFails, IdlePass, Types, PassState
  <2> QED
    BY <1>d, <1>l, <1>q, <1>r, <2>1, <2>2, <2>3 DEF OrderlyInv
<1>4. CASE ReadLeaders(n)
  <2>1. UNCHANGED <<claim, claims, leader>> /\ ~CreateOnItsWay(n)
    BY <1>f, <1>4 DEF ReadLeaders, etcd
  <2>2. pass'[n].at = "decide" /\ pass'[n].seen = claim
    BY <1>0, <1>4 DEF ReadLeaders, Types, PassState
  <2>3. claim = n => Holds(n)'
    BY <1>0, <1>l, <2>1, HolderIsLast
  <2>4. PassOK(n)'
    BY <2>2, <2>3 DEF PassOK
  <2> QED
    BY <1>d, <1>l, <1>r, <2>1, <2>4 DEF OrderlyInv
\* What the pass will leave in leader_list.
<1>k. ASSUME NEW m \in MaybeNode, NEW term \in Nat, Know(n, m, term),
             m = n => /\ term \in 1 .. Len(claims) /\ claims[term] = n
                      /\ term \in Cover(n)
      PROVE  PassOK(n)'
  <2>1. /\ pass'[n].at = "store"
        /\ pass'[n].answer.node = m /\ pass'[n].answer.term = term
    BY <1>0, <1>k DEF Know, Types
  <2>2. m = n => /\ term \in 1 .. Len(claims') /\ claims'[term] = n
                 /\ term \in Cover(n)'
    BY <1>0, <1>c, <1>k, OwnStays DEF CoverKept
  <2> QED
    BY <2>1, <2>2 DEF PassOK, Own, Won, Covered
<1>h. PassOK(n) /\ terms[n] \in Nat /\ pass[n].seen \in MaybeNode /\ 0 \in Nat
  BY <1>0, TermsAreNaturals, Fields DEF OrderlyInv
<1>5. CASE KeepClaim(n)
  <2>1. UNCHANGED <<claim, claims, leader>> /\ pass[n].at = "decide"
    BY <1>5 DEF KeepClaim, etcd
  <2>2. CASE pass[n].seen = n
    <3>1. Know(n, n, terms[n]) /\ Holds(n)
      BY <1>5, <1>h, <2>1, <2>2 DEF KeepClaim, TermOf, PassOK
    <3>2. PassOK(n)'
      BY <1>0, <1>h, <1>k, <3>1, HolderMayLead, Values
    <3> QED
      BY <1>d, <1>l, <1>r, <2>1, <3>2 DEF OrderlyInv
  <2>3. CASE pass[n].seen # n
    <3>1. Know(n, pass[n].seen, 0)
      BY <1>5, <2>3 DEF KeepClaim, TermOf
    <3>2. PassOK(n)'
      BY <1>h, <1>k, <2>3, <3>1
    <3> QED
      BY <1>d, <1>l, <1>r, <2>1, <3>2 DEF OrderlyInv
  <2> QED
    BY <2>2, <2>3
<1>6. CASE RemoveClaim(n)
  <2>1. /\ UNCHANGED <<claims, leader>>
        /\ pass[n].at = "decide" /\ pass[n].seen = n
        /\ \A t \in Thread : ~(Host[t] = n /\ call[t].at = "held")
    BY <1>f, <1>6 DEF RemoveClaim
  <2>2. Holds(n)
    BY <1>h, <2>1 DEF PassOK
  <2>3. ASSUME claim' = NoNode,
               pass' = [pass EXCEPT ![n].at = "release", ![n].answer.held = TRUE]
        PROVE  OrderlyInv'
    <3>1. /\ pass'[n].at = "release" /\ pass'[n].seen = n
          /\ pass'[n].answer.held = TRUE
      BY <1>0, <2>1, <2>3 DEF Types, PassState, Answer
    <3>2. PassOK(n)'
      BY <3>1 DEF PassOK
    <3>3. \A m \in Node \ {n} : ~Holds(m)
      BY <2>2 DEF Holds
    <3>4. \A m \in Node \ {n} : PassOK(m)'
      BY <1>0, <1>c, <1>p, <3>3, FramePass
    <3>5. ASSUME NEW t \in Thread
          PROVE  CallOK(t)'
      <4>1. CASE Host[t] = n
        <5>1. CallOK(t) /\ call[t].at # "held" /\ call[t].answer.term \in Nat
          BY <1>0, <2>1, <4>1, TermsAreNaturals DEF OrderlyInv
        <5>2. Own(n, call[t].answer.term) => Own(n, call[t].answer.term)'
          BY <1>0, <1>c, <1>u, <5>1, OwnStays DEF Own, Won, Covered, CoverKept
        <5> QED
          BY <1>u, <4>1, <5>1, <5>2 DEF CallOK
      <4>2. CASE Host[t] # n
        <5>1. Host[t] \in Node
          BY <1>0, Fields
        <5> QED
          BY <1>0, <1>c, <1>u, <3>3, <4>2, <5>1, FrameCall
      <4> QED
        BY <4>1, <4>2
    <3>6. ClaimOK'
      BY <2>3 DEF ClaimOK
    <3> QED
      BY <1>d, <1>r, <2>1, <3>2, <3>4, <3>5, <3>6 DEF OrderlyInv
  <2>4. ASSUME claim' = claim,
               pass' = [pass EXCEPT ![n].at = "release", ![n].answer.held = FALSE]
        PROVE  OrderlyInv'
    <3>1. /\ pass'[n].at = "release" /\ pass'[n].seen = n
          /\ pass'[n].answer.held = FALSE
      BY <1>0, <2>1, <2>4 DEF Types, PassState, Answer
    <3>2. PassOK(n)'
      BY <1>l, <2>1, <2>2, <2>4, <3>1 DEF PassOK
    <3> QED
      BY <1>d, <1>l, <1>r, <2>1, <2>4, <3>2 DEF OrderlyInv
  <2> QED
    BY <1>f, <1>6, <2>3, <2>4 DEF RemoveClaim
<1>7. CASE RemoveAnswered(n)
  <2>1. UNCHANGED <<claim, claims, leader>> /\ pass[n].at = "release"
    BY <1>7 DEF RemoveAnswered, etcd
  <2>2. CASE pass[n].answer.held
    <3>1. Know(n, NoNode, 0)
      BY <1>7, <2>2 DEF RemoveAnswered
    <3>2. PassOK(n)'
      BY <1>h, <1>k, <3>1, Values
    <3> QED
      BY <1>d, <1>l, <1>r, <2>1, <3>2 DEF OrderlyInv
  <2>3. CASE ~pass[n].answer.held
    <3>1. Know(n, n, terms[n]) /\ Holds(n)
      BY <1>7, <1>h, <2>1, <2>3 DEF RemoveAnswered, TermOf, PassOK
    <3>2. PassOK(n)'
      BY <1>0, <1>h, <1>k, <3>1, HolderMayLead, Values
    <3> QED
      BY <1>d, <1>l, <1>r, <2>1, <3>2 DEF OrderlyInv
  <2> QED
    BY <2>2, <2>3
<1>8. CASE LeaveUnclaimed(n)
  <2>1. UNCHANGED <<claim, claims, leader>> /\ Know(n, NoNode, 0)
    BY <1>8 DEF LeaveUnclaimed, etcd
  <2>2. PassOK(n)'
    BY <1>h, <1>k, <2>1, Values
  <2> QED
    BY <1>d, <1>l, <1>r, <2>1, <2>2 DEF OrderlyInv
<1>9. CASE StoreLeaders(n)
  <2>1. /\ UNCHANGED <<claim, claims>>
        /\ pass[n].at = "store" /\ pass'[n].at = "idle"
        /\ leader'[n].node = pass[n].answer.node /\ leader'[n].term = pass[n].answer.term
        /\ \A m \in Node \ {n} : leader'[m] = leader[m]
    BY <1>0, <1>9 DEF StoreLeaders, etcd, Types, IdlePass
  <2>2. \A m \in Node \ {n} : NodeOK(m)'
    BY <1>0, <1>c, <1>u, <2>1, FrameNode
  <2>3. NodeOK(n)'
    <3>1. NodeOK(n) /\ stored[n] \in Nat /\ pass[n].answer.term \in Nat
      BY <1>0, TermsAreNaturals DEF OrderlyInv
    <3>2. stored[n] \in Cover(n)'
      BY <1>0, <1>c, <3>1, OwnStays DEF NodeOK, Covered, CoverKept
    <3>3. pass[n].answer.node = n => Own(n, pass[n].answer.term)
      BY <1>h, <2>1 DEF PassOK
    <3>4. pass[n].answer.node = n =>
            /\ pass[n].answer.term \in 1 .. Len(claims')
            /\ claims'[pass[n].answer.term] = n
            /\ pass[n].answer.term \in Cover(n)'
      BY <1>0, <1>c, <3>1, <3>3, OwnStays DEF Own, Won, Covered, CoverKept
    <3> QED
      BY <1>u, <2>1, <3>2, <3>4 DEF NodeOK, Own, Won, Covered
  <2> QED
    BY <1>l, <1>q, <1>r, <2>1, <2>2, <2>3 DEF OrderlyInv
<1> QED
  BY <1>1, <1>2, <1>3, <1>4, <1>5, <1>6, <1>7, <1>8, <1>9

\* The create transaction, by either thread of node n.  What it answers is the
\* claim it made, or the holder of the one there is.
LEMMA CreateOrderly ==
    ASSUME IInv, Orderly, TypeOK', [Next]_vars, NEW n \in Node, NEW a \in Answer,
           CreateTxn(n, a), \A m \in Node : CoverKept(m),
           a.held => a.term \in Cover(n)',
           UNCHANGED terms
    PROVE  /\ ClaimOK'
           /\ a.node = n => Own(n, a.term)'
           /\ a.held => a.node = n
           /\ \A m \in Node : Holds(m) => Holds(m)'
<1>0. TypeOK /\ TermsSeen /\ OrderlyInv /\ Types
  BY Typed DEF IInv
<1>f. "lost" \notin Faults
  BY <1>0, ClusterAssumption DEF Orderly, Faults, Disorder, Types
<1>n. Len(claims) \in Nat /\ Len(claims) <= Len(claims) /\ claims \in Seq(Node)
  BY <1>0, TermsAreNaturals DEF Types
<1>1. CASE /\ claim = NoNode /\ claim' = n /\ claims' = Append(claims, n)
           /\ a = [held |-> TRUE, node |-> n, term |-> Len(claims) + 1]
  <2>1. Len(claims') = Len(claims) + 1 /\ claims'[Len(claims) + 1] = n
    BY <1>n, <1>1
  <2>2. a.term = Len(claims) + 1 /\ a.held /\ a.node = n /\ a.term <= a.term
    BY <1>n, <1>1
  <2>3. Own(n, a.term)'
    BY <1>n, <2>1, <2>2 DEF Own, Won, Covered
  <2>4. ClaimOK'
    BY <1>n, <1>1, <2>1, <2>2 DEF ClaimOK, Own, Won, Covered
  <2>5. \A m \in Node : ~Holds(m)
    BY <1>1, Values DEF Holds
  <2> QED
    BY <2>2, <2>3, <2>4, <2>5
<1>2. CASE /\ claim' = claim /\ claims' = claims
           /\ \/ a = NoAnswer
              \/ a = [held |-> FALSE, node |-> claim, term |-> Len(claims)] /\ claim # NoNode
  <2>1. ClaimOK'
    BY <1>0, <1>2, FrameClaim
  <2>2. \A m \in Node : Holds(m) => Holds(m)'
    BY <1>2 DEF Holds
  <2>3. ~a.held /\ (a.node = n => claim = n /\ a.term = Len(claims))
    BY <1>2, Values DEF NoAnswer
  <2>4. a.node = n => Own(n, a.term)'
    BY <1>2, <2>1, <2>3, Values DEF ClaimOK, Own, Won, Covered
  <2> QED
    BY <2>1, <2>2, <2>3, <2>4
<1> QED
  BY <1>0, <1>f, <1>1, <1>2, CreateShape

\* Creating a claim keeps the orderly state, for a pass and for a call.
LEMMA CreateStepOrderly ==
    ASSUME IInv, Orderly, TypeOK', [Next]_vars,
           \/ \E n \in Node : CreateClaim(n)
           \/ \E t \in Thread : CreateForWrite(t)
    PROVE  OrderlyInv'
<1>0. TypeOK /\ TermsSeen /\ OrderlyInv /\ Types
  BY Typed DEF IInv
<1>h. \A t \in Thread : Host[t] \in Node
  BY <1>0, Fields
<1>1. ASSUME NEW n \in Node, CreateClaim(n)
      PROVE  OrderlyInv'
  <2>1. UNCHANGED <<terms, stored, leader, call, ordered>> /\ pass[n].at = "decide"
    BY <1>1 DEF CreateClaim
  <2>2. PICK a \in Answer :
          /\ CreateTxn(n, a)
          /\ pass' = [pass EXCEPT ![n].at = "claim", ![n].answer = a]
    BY <1>1 DEF CreateClaim
  <2>3. /\ pass'[n].at = "claim" /\ pass'[n].answer = a
        /\ \A m \in Node \ {n} : pass'[m] = pass[m]
    BY <1>0, <2>2 DEF Types, PassState
  <2>4. \A m \in Node : CoverKept(m)
    BY <1>0, <2>1, <2>3, QuietCover
  <2>5. a.held => a.term \in Cover(n)'
    BY <2>3 DEF Cover, Unheard, Answer
  <2>6. /\ ClaimOK' /\ (a.node = n => Own(n, a.term)') /\ (a.held => a.node = n)
        /\ \A m \in Node : Holds(m) => Holds(m)'
    BY <2>1, <2>2, <2>4, <2>5, CreateOrderly
  <2>7. PassOK(n)'
    BY <2>3, <2>6 DEF PassOK, Own, Won, Covered
  <2>8. \A m \in Node \ {n} : PassOK(m)'
    BY <1>0, <2>3, <2>4, <2>6, FramePass
  <2>9. \A m \in Node : NodeOK(m)'
    BY <1>0, <2>1, <2>4, FrameNode
  <2>10. \A t \in Thread : CallOK(t)'
    BY <1>0, <1>h, <2>1, <2>4, <2>6, FrameCall
  <2>11. OrderedOK'
    BY <1>0, <2>1, FrameOrdered
  <2> QED
    BY <2>6, <2>7, <2>8, <2>9, <2>10, <2>11 DEF OrderlyInv
<1>2. ASSUME NEW t \in Thread, CreateForWrite(t)
      PROVE  OrderlyInv'
  <2>1. UNCHANGED <<terms, stored, leader, pass, ordered>> /\ call[t].at = "create"
    BY <1>2 DEF CreateForWrite
  <2>2. PICK a \in Answer :
          /\ CreateTxn(Host[t], a)
          /\ call' = [call EXCEPT ![t].at = "claim", ![t].answer = a]
    BY <1>2 DEF CreateForWrite
  <2>3. /\ call'[t].at = "claim" /\ call'[t].answer = a
        /\ \A u \in Thread \ {t} : call'[u] = call[u]
    BY <1>0, <2>2 DEF Types, CallState
  <2>4. \A m \in Node : CoverKept(m)
    BY <1>0, <2>1, <2>3, QuietCover
  <2>5. a.held => a.term \in Cover(Host[t])'
    BY <2>3 DEF Cover, Unheard, Answer
  <2>6. /\ ClaimOK' /\ (a.node = Host[t] => Own(Host[t], a.term)')
        /\ (a.held => a.node = Host[t])
        /\ \A m \in Node : Holds(m) => Holds(m)'
    BY <1>h, <2>1, <2>2, <2>4, <2>5, CreateOrderly
  <2>7. CallOK(t)'
    BY <2>3, <2>6 DEF CallOK, Own, Won, Covered
  <2>8. \A u \in Thread \ {t} : CallOK(u)'
    BY <1>0, <1>h, <2>3, <2>4, <2>6, FrameCall
  <2>9. \A m \in Node : NodeOK(m)' /\ PassOK(m)'
    BY <1>0, <2>1, <2>4, <2>6, FrameNode, FramePass
  <2>11. OrderedOK'
    BY <1>0, <2>1, FrameOrdered
  <2> QED
    BY <2>6, <2>7, <2>8, <2>9, <2>11 DEF OrderlyInv
<1> QED
  BY <1>1, <1>2

\* A write is ordered in a term of the node's own.
LEMMA OrderOrderly ==
    ASSUME TypeOK, TypeOK', OrderlyInv, [Next]_vars, NEW n \in Node, NEW term \in Nat,
           Order(n, term), CoverKept(n),
           term \in 1 .. Len(claims), claims[term] = n, term \in Cover(n)'
    PROVE  /\ stored'[n] \in Cover(n)'
           /\ \A m \in Node \ {n} : stored'[m] = stored[m]
           /\ OrderedOK'
<1>0. Types /\ stored[n] \in Nat
  BY Typed, TermsAreNaturals
<1>1. /\ stored'[n] \in {stored[n], term}
      /\ \A m \in Node \ {n} : stored'[m] = stored[m]
  BY <1>0 DEF Order, Larger, Types
<1>2. stored[n] \in Cover(n)'
  BY <1>0, OwnStays DEF OrderlyInv, NodeOK, Covered, CoverKept
<1>3. \A o \in ordered : o[2] \in 1 .. Len(claims) /\ claims[o[2]] = o[1]
  BY DEF OrderlyInv, OrderedOK, Won
<1>4. \A o \in ordered' : o[2] \in 1 .. Len(claims) /\ claims[o[2]] = o[1]
  BY <1>3 DEF Order
<1>5. OrderedOK'
  BY <1>4, LengthRises, TermsAreNaturals DEF OrderedOK, Won
<1> QED
  BY <1>1, <1>2, <1>5

\* Steps of a request thread, and of the writes.
LEMMA CallStepOrderly ==
    ASSUME IInv, Orderly, TypeOK', [Next]_vars, NEW t \in Thread,
           AskHeld(t) \/ AskUnclaimed(t) \/ LeadHeld(t)
    PROVE  OrderlyInv'
<1>0. TypeOK /\ TermsSeen /\ OrderlyInv /\ Types
  BY Typed DEF IInv
<1>f. "race" \notin Faults
  BY <1>0, ClusterAssumption DEF Orderly, Faults, Disorder, Types
<1>h. \A u \in Thread : Host[u] \in Node
  BY <1>0, Fields
<1>u. /\ UNCHANGED <<claim, claims, terms, leader, pass>>
      /\ call[t].at # "claim" /\ \A u \in Thread \ {t} : call'[u] = call[u]
  BY <1>0 DEF AskHeld, AskUnclaimed, LeadHeld, etcd, Types
<1>c. \A m \in Node : CoverKept(m)
  BY <1>0, <1>u, QuietCover
<1>l. \A m \in Node : Holds(m) => Holds(m)'
  BY <1>u DEF Holds
<1>1. ClaimOK' /\ (\A m \in Node : PassOK(m)') /\ (\A u \in Thread \ {t} : CallOK(u)')
  BY <1>0, <1>c, <1>h, <1>l, <1>u, FrameClaim, FramePass, FrameCall
<1>2. CASE AskHeld(t)
  <2>1. UNCHANGED <<stored, ordered>> /\ claim = Host[t] /\ ~CreateOnItsWay(Host[t])
    BY <1>f, <1>2 DEF AskHeld
  <2>2. call'[t].at = "held"
    BY <1>0, <1>2 DEF AskHeld, Types, CallState
  <2>3. Holds(Host[t])'
    BY <1>0, <1>h, <1>l, <2>1, HolderIsLast
  <2>4. CallOK(t)'
    BY <2>2, <2>3 DEF CallOK
  <2> QED
    BY <1>0, <1>1, <1>c, <1>u, <2>1, <2>4, FrameNode, FrameOrdered DEF OrderlyInv
<1>3. CASE AskUnclaimed(t)
  <2>1. UNCHANGED <<stored, ordered>>
    BY <1>3 DEF AskUnclaimed
  <2>2. call'[t].at = "create"
    BY <1>0, <1>3 DEF AskUnclaimed, Types, CallState
  <2>3. CallOK(t)'
    BY <2>2 DEF CallOK
  <2> QED
    BY <1>0, <1>1, <1>c, <1>u, <2>1, <2>3, FrameNode, FrameOrdered DEF OrderlyInv
<1>4. CASE LeadHeld(t)
  <2> DEFINE n == Host[t]
  <2>1. Order(n, terms[n]) /\ call[t].at = "held" /\ call'[t].at = "idle" /\ n \in Node
    BY <1>0, <1>4, <1>h DEF LeadHeld, TermOf, IdleCall, Types
  <2>2. Holds(n)
    BY <1>0, <2>1 DEF OrderlyInv, CallOK
  <2>3. /\ terms[n] \in 1 .. Len(claims) /\ claims[terms[n]] = n /\ terms[n] \in Nat
        /\ terms[n] \in Cover(n)
    BY <1>0, <2>1, <2>2, HolderMayLead, TermsAreNaturals
  <2>4. terms[n] \in Cover(n)'
    BY <1>0, <1>c, <2>1, <2>3, OwnStays DEF CoverKept
  <2> HIDE DEF n
  <2>5. PICK term \in Nat : term = terms[n]
    BY <2>3
  <2>6. /\ stored'[n] \in Cover(n)'
        /\ \A m \in Node \ {n} : stored'[m] = stored[m]
        /\ OrderedOK'
    <3>1. /\ Order(n, term) /\ term \in 1 .. Len(claims) /\ claims[term] = n
          /\ term \in Cover(n)'
      BY <2>1, <2>3, <2>4, <2>5 DEF Order
    <3> QED
      BY <1>0, <1>c, <2>1, <3>1, OrderOrderly
  <2>7. NodeOK(n)'
    <3>1. NodeOK(n) /\ leader[n].term \in Nat
      BY <1>0, <2>1, TermsAreNaturals DEF OrderlyInv
    <3>2. leader[n].node = n => Own(n, leader[n].term)'
      BY <1>0, <1>c, <1>u, <2>1, <3>1, OwnStays DEF NodeOK, Own, Won, Covered, CoverKept
    <3> QED
      BY <1>u, <2>6, <3>2 DEF NodeOK, Covered
  <2>8. \A m \in Node \ {n} : NodeOK(m)'
    BY <1>0, <1>c, <1>u, <2>6, FrameNode
  <2>9. CallOK(t)'
    BY <2>1 DEF CallOK
  <2> QED
    BY <1>1, <2>6, <2>7, <2>8, <2>9 DEF OrderlyInv
<1> QED
  BY <1>2, <1>3, <1>4

\* The fence of one node rises, to a term no newer than the last claim's: a node
\* that holds the claim is there already.
LEMMA RaiseKeepsHold ==
    ASSUME TypeOK, TypeOK', TermsSeen, NEW n \in Node, NEW term \in Nat,
           term <= Len(claims), UNCHANGED <<claim, claims>>,
           terms' = [terms EXCEPT ![n] = Larger(@, term)]
    PROVE  /\ \A m \in Node : terms[m] <= terms'[m]
           /\ term <= terms'[n]
           /\ \A m \in Node : Holds(m) => Holds(m)'
<1>0. Types /\ Len(claims) \in Nat /\ \A m \in Node : terms[m] \in Nat
  BY Typed, TermsAreNaturals
<1>1. /\ terms'[n] = IF terms[n] > term THEN terms[n] ELSE term
      /\ \A m \in Node \ {n} : terms'[m] = terms[m]
  BY <1>0 DEF Larger, Types
<1>2. \A m \in Node : terms[m] <= terms'[m]
  BY <1>0, <1>1
<1>3. term <= terms'[n]
  BY <1>0, <1>1
<1>4. terms[n] = Len(claims) => terms'[n] = Len(claims)
  BY <1>0, <1>1
<1> QED
  BY <1>1, <1>2, <1>3, <1>4 DEF Holds

\* The two ways an answered create reaches a node, and a write it leads.
LEMMA AnswerStepOrderly ==
    ASSUME IInv, Orderly, TypeOK', [Next]_vars,
           \/ \E n \in Node : CreateAnswered(n) \/ LeadCached(n)
           \/ \E t \in Thread : CreateForWriteAnswered(t)
    PROVE  OrderlyInv'
<1>0. TypeOK /\ TermsSeen /\ OrderlyInv /\ Types
  BY Typed DEF IInv
<1>h. \A u \in Thread : Host[u] \in Node
  BY <1>0, Fields
<1>n. \A m \in Node : terms[m] \in Nat /\ terms[m] <= terms[m]
  BY <1>0, TermsAreNaturals
<1>1. ASSUME NEW n \in Node, CreateAnswered(n)
      PROVE  OrderlyInv'
  <2>1. /\ UNCHANGED <<claim, claims, leader, call, stored, ordered>>
        /\ pass[n].at = "claim"
        /\ terms' = IF pass[n].answer.held
                    THEN [terms EXCEPT ![n] = Larger(@, pass[n].answer.term)] ELSE terms
    BY <1>1 DEF CreateAnswered, RaiseTerm, etcd
  <2>2. /\ pass'[n].at = "store" /\ pass'[n].answer.node = pass[n].answer.node
        /\ pass'[n].answer.term = pass[n].answer.term
        /\ \A m \in Node \ {n} : pass'[m] = pass[m]
    BY <1>0, <1>1 DEF CreateAnswered, Know, Types
  <2>3. pass[n].answer.term \in Nat /\ pass[n].answer.term <= Len(claims) /\ PassOK(n)
    BY <1>0, TermsAreNaturals DEF TermsSeen, OrderlyInv
  <2>4. PICK a \in Nat : a = pass[n].answer.term
    BY <2>3
  <2>5. /\ \A m \in Node : terms[m] <= terms'[m]
        /\ pass[n].answer.held => a <= terms'[n]
        /\ \A m \in Node : Holds(m) => Holds(m)'
    <3>1. CASE pass[n].answer.held
      <4>1. terms' = [terms EXCEPT ![n] = Larger(@, a)] /\ a <= Len(claims)
        BY <2>1, <2>3, <2>4, <3>1
      <4> QED
        BY <1>0, <2>1, <4>1, RaiseKeepsHold
    <3>2. CASE ~pass[n].answer.held
      BY <1>n, <2>1, <3>2 DEF Holds
    <3> QED
      BY <3>1, <3>2
  <2>6. ASSUME NEW m \in Node
        PROVE  CoverKept(m)
    <3>1. (pass[m].at = "claim" /\ pass[m].answer.held) =>
             \/ pass'[m] = pass[m]
             \/ pass[m].answer.term <= terms'[m]
      BY <2>2, <2>4, <2>5
    <3> QED
      BY <1>0, <2>1, <2>5, <3>1, CoverStays DEF CoverKept
  <2>7. PassOK(n)'
    <3>1. pass[n].answer.node = n => Own(n, pass[n].answer.term)
      BY <2>1, <2>3 DEF PassOK
    <3>2. pass[n].answer.node = n =>
            /\ pass[n].answer.term \in 1 .. Len(claims')
            /\ claims'[pass[n].answer.term] = n
            /\ pass[n].answer.term \in Cover(n)'
      BY <1>0, <2>3, <2>6, <3>1, OwnStays DEF Own, Won, Covered, CoverKept
    <3> QED
      BY <2>2, <3>2 DEF PassOK, Own, Won, Covered
  <2>8. \A m \in Node \ {n} : PassOK(m)'
    BY <1>0, <2>2, <2>5, <2>6, FramePass
  <2>9. ClaimOK' /\ (\A m \in Node : NodeOK(m)') /\ OrderedOK'
    BY <1>0, <2>1, <2>6, FrameClaim, FrameNode, FrameOrdered
  <2>10. \A t \in Thread : CallOK(t)'
    BY <1>0, <1>h, <2>1, <2>5, <2>6, FrameCall
  <2> QED
    BY <2>7, <2>8, <2>9, <2>10 DEF OrderlyInv
<1>2. ASSUME NEW n \in Node, LeadCached(n)
      PROVE  OrderlyInv'
  <2>1. /\ UNCHANGED <<claim, claims, terms, leader, pass, call>>
        /\ leader[n].node = n /\ Order(n, leader[n].term)
    BY <1>2 DEF LeadCached, etcd
  <2>2. \A m \in Node : CoverKept(m)
    BY <1>0, <2>1, QuietCover
  <2>3. \A m \in Node : Holds(m) => Holds(m)'
    BY <2>1 DEF Holds
  <2>4. Own(n, leader[n].term) /\ leader[n].term \in Nat
    BY <1>0, <2>1, TermsAreNaturals DEF OrderlyInv, NodeOK
  <2>5. PICK term \in Nat : term = leader[n].term
    BY <2>4
  <2>6. /\ term \in 1 .. Len(claims) /\ claims[term] = n
        /\ term \in Cover(n)'
    BY <1>0, <2>2, <2>4, <2>5, OwnStays DEF Own, Won, Covered, CoverKept
  <2>7. /\ stored'[n] \in Cover(n)'
        /\ \A m \in Node \ {n} : stored'[m] = stored[m]
        /\ OrderedOK'
    <3>1. Order(n, term)
      BY <2>1, <2>5 DEF Order
    <3> QED
      BY <1>0, <2>2, <2>6, <3>1, OrderOrderly
  <2>8. NodeOK(n)'
    BY <2>1, <2>5, <2>6, <2>7 DEF NodeOK, Own, Won, Covered
  <2>9. \A m \in Node \ {n} : NodeOK(m)'
    BY <1>0, <2>1, <2>2, <2>7, FrameNode
  <2>10. ClaimOK' /\ (\A m \in Node : PassOK(m)') /\ (\A u \in Thread : CallOK(u)')
    BY <1>0, <1>h, <2>1, <2>2, <2>3, FrameClaim, FramePass, FrameCall
  <2> QED
    BY <2>7, <2>8, <2>9, <2>10 DEF OrderlyInv
<1>3. ASSUME NEW t \in Thread, CreateForWriteAnswered(t)
      PROVE  OrderlyInv'
  <2> DEFINE n == Host[t]
  <2>1. /\ UNCHANGED <<claim, claims, pass>>
        /\ call[t].at = "claim" /\ n \in Node
        /\ terms' = IF call[t].answer.held
                    THEN [terms EXCEPT ![n] = Larger(@, call[t].answer.term)] ELSE terms
    BY <1>3, <1>h DEF CreateForWriteAnswered, RaiseTerm, etcd
  <2>2. call'[t].at = "idle" /\ \A u \in Thread \ {t} : call'[u] = call[u]
    BY <1>0, <1>3 DEF CreateForWriteAnswered, IdleCall, Types
  <2>3. /\ call[t].answer.term \in Nat /\ call[t].answer.term <= Len(claims)
        /\ call[t].answer.node \in MaybeNode /\ CallOK(t)
    BY <1>0, TermsAreNaturals, Fields DEF TermsSeen, OrderlyInv
  <2>4. PICK a \in Nat : a = call[t].answer.term
    BY <2>3
  <2>l. /\ leader'[n] = leader[n] \/ (leader'[n].node = call[t].answer.node
                                        /\ leader'[n].term = a)
        /\ \A m \in Node \ {n} : leader'[m] = leader[m]
    BY <1>0, <1>3, <2>1, <2>4 DEF CreateForWriteAnswered, Types
  <2>o. IF call[t].answer.node = n THEN Order(n, a) ELSE UNCHANGED <<stored, ordered>>
    BY <1>3, <2>4 DEF CreateForWriteAnswered, Order
  <2>5. /\ \A m \in Node : terms[m] <= terms'[m]
        /\ call[t].answer.held => a <= terms'[n]
        /\ \A m \in Node : Holds(m) => Holds(m)'
    <3>1. CASE call[t].answer.held
      <4>1. terms' = [terms EXCEPT ![n] = Larger(@, a)] /\ a <= Len(claims)
        BY <2>1, <2>3, <2>4, <3>1
      <4> QED
        BY <1>0, <2>1, <4>1, RaiseKeepsHold
    <3>2. CASE ~call[t].answer.held
      BY <1>n, <2>1, <3>2 DEF Holds
    <3> QED
      BY <3>1, <3>2
  <2>6. ASSUME NEW m \in Node
        PROVE  CoverKept(m)
    <3>1. \A u \in Thread :
            (Host[u] = m /\ call[u].at = "claim" /\ call[u].answer.held) =>
               \/ call'[u] = call[u]
               \/ call[u].answer.term <= terms'[m]
      BY <2>2, <2>4, <2>5
    <3> QED
      BY <1>0, <2>1, <2>5, <3>1, CoverStays DEF CoverKept
  <2> HIDE DEF n
  <2>7. call[t].answer.node = n =>
          /\ a \in 1 .. Len(claims) /\ claims[a] = n
          /\ a \in Cover(n)'
    <3>1. call[t].answer.node = n => Own(n, a)
      BY <2>1, <2>3, <2>4 DEF CallOK, n
    <3> QED
      BY <1>0, <2>1, <2>6, <3>1, OwnStays DEF Own, Won, Covered, CoverKept
  <2>8. /\ stored'[n] \in Cover(n)'
        /\ \A m \in Node \ {n} : stored'[m] = stored[m]
        /\ OrderedOK'
    <3>1. CASE call[t].answer.node = n
      BY <1>0, <2>1, <2>6, <2>7, <2>o, <3>1, OrderOrderly
    <3>2. CASE call[t].answer.node # n
      <4>1. UNCHANGED <<stored, ordered>>
        BY <2>o, <3>2
      <4>2. stored[n] \in Nat /\ NodeOK(n)
        BY <1>0, <2>1, TermsAreNaturals DEF OrderlyInv
      <4>3. stored[n] \in Cover(n)'
        BY <1>0, <2>1, <2>6, <4>2, OwnStays DEF NodeOK, Covered, CoverKept
      <4> QED
        BY <1>0, <4>1, <4>3, FrameOrdered
    <3> QED
      BY <3>1, <3>2
  <2>9. NodeOK(n)'
    <3>1. leader[n].term \in Nat /\ NodeOK(n)
      BY <1>0, <2>1, TermsAreNaturals DEF OrderlyInv
    <3>2. CASE leader'[n] = leader[n]
      <4>1. leader[n].node = n =>
              /\ leader[n].term \in 1 .. Len(claims') /\ claims'[leader[n].term] = n
              /\ leader[n].term \in Cover(n)'
        BY <1>0, <2>1, <2>6, <3>1, OwnStays DEF NodeOK, Own, Won, Covered, CoverKept
      <4> QED
        BY <2>8, <3>2, <4>1 DEF NodeOK, Own, Won, Covered
    <3>3. CASE leader'[n].node = call[t].answer.node /\ leader'[n].term = a
      BY <2>1, <2>7, <2>8, <3>3 DEF NodeOK, Own, Won, Covered
    <3> QED
      BY <2>l, <3>2, <3>3
  <2>10. \A m \in Node \ {n} : NodeOK(m)'
    BY <1>0, <2>6, <2>8, <2>l, FrameNode
  <2>11. ClaimOK' /\ (\A m \in Node : PassOK(m)')
    BY <1>0, <2>1, <2>5, <2>6, FrameClaim, FramePass
  <2>12. \A u \in Thread \ {t} : CallOK(u)'
    BY <1>0, <1>h, <2>2, <2>5, <2>6, FrameCall
  <2>13. CallOK(t)'
    BY <2>2 DEF CallOK
  <2> QED
    BY <2>8, <2>9, <2>10, <2>11, <2>12, <2>13 DEF OrderlyInv
<1> QED
  BY <1>1, <1>2, <1>3

\* So do accepting a write, restarting and stuttering.
LEMMA OtherStepOrderly ==
    ASSUME IInv, Orderly, TypeOK', [Next]_vars,
           \/ \E n, m \in Node, term \in 1 .. MaxTerm : Accept(n, m, term)
           \/ \E n \in Node : Restart(n)
           \/ UNCHANGED vars
    PROVE  OrderlyInv'
<1>0. TypeOK /\ TermsSeen /\ OrderlyInv /\ Types
  BY Typed DEF IInv
<1>f. "restart" \notin Faults
  BY <1>0, ClusterAssumption DEF Orderly, Faults, Disorder, Types
<1>h. \A u \in Thread : Host[u] \in Node
  BY <1>0, Fields
<1>1. ASSUME NEW n \in Node, NEW m \in Node, NEW term \in 1 .. MaxTerm, Accept(n, m, term)
      PROVE  OrderlyInv'
  <2>1. /\ UNCHANGED <<claim, claims, leader, pass, call, ordered>>
        /\ <<m, term>> \in ordered /\ term \in Nat
        /\ terms' = [terms EXCEPT ![n] = Larger(@, term)]
        /\ stored' = [stored EXCEPT ![n] = Larger(@, term)]
        /\ term >= terms[n]
    BY <1>1, ClusterAssumption DEF Accept, RaiseTerm, etcd
  <2>2. term <= Len(claims)
    BY <1>0, <2>1 DEF TermsSeen
  <2>3. /\ \A k \in Node : terms[k] <= terms'[k]
        /\ term <= terms'[n]
        /\ \A k \in Node : Holds(k) => Holds(k)'
    BY <1>0, <2>1, <2>2, RaiseKeepsHold
  <2>4. \A k \in Node : CoverKept(k)
    BY <1>0, <2>1, <2>3, CoverStays DEF CoverKept
  <2>5. \A k \in Node \ {n} : stored'[k] = stored[k]
    BY <1>0, <2>1 DEF Types
  <2>6. \A k \in Node \ {n} : NodeOK(k)'
    BY <1>0, <2>1, <2>4, <2>5, FrameNode
  <2>7. NodeOK(n)'
    <3>1. leader[n].term \in Nat /\ stored[n] \in Nat /\ NodeOK(n)
      BY <1>0, TermsAreNaturals DEF OrderlyInv
    <3>t. term \in Cover(n)'
      BY <2>1, <2>3 DEF Cover
    <3>2. leader[n].node = n =>
            /\ leader[n].term \in 1 .. Len(claims') /\ claims'[leader[n].term] = n
            /\ leader[n].term \in Cover(n)'
      BY <1>0, <2>1, <2>4, <3>1, OwnStays DEF NodeOK, Own, Won, Covered, CoverKept
    <3>3. stored[n] \in Cover(n)'
      BY <1>0, <2>4, <3>1, OwnStays DEF NodeOK, Covered, CoverKept
    <3>4. stored'[n] \in {stored[n], term}
      BY <1>0, <2>1 DEF Larger, Types
    <3>5. stored'[n] \in Cover(n)'
      BY <3>t, <3>3, <3>4
    <3> QED
      BY <2>1, <3>2, <3>5 DEF NodeOK, Own, Won, Covered
  <2>8. /\ ClaimOK' /\ (\A k \in Node : PassOK(k)') /\ (\A u \in Thread : CallOK(u)')
        /\ OrderedOK'
    BY <1>0, <1>h, <2>1, <2>3, <2>4, FrameClaim, FramePass, FrameCall, FrameOrdered
  <2> QED
    BY <2>6, <2>7, <2>8 DEF OrderlyInv
<1>2. ASSUME NEW n \in Node, Restart(n)
      PROVE  OrderlyInv'
  <2>1. UNCHANGED <<claim, claims, stored, ordered>> /\ claim # n
    BY <1>f, <1>2 DEF Restart, etcd
  <2>2. /\ terms'[n] = stored[n] /\ leader'[n] = NoLead /\ pass'[n].at = "idle"
        /\ \A m \in Node \ {n} :
             terms'[m] = terms[m] /\ leader'[m] = leader[m] /\ pass'[m] = pass[m]
    BY <1>0, <1>2 DEF Restart, RestoredTerm, IdlePass, Types
  <2>3. \A t \in Thread : IF Host[t] = n THEN call'[t].at = "idle" ELSE call'[t] = call[t]
    BY <1>2 DEF Restart, IdleCall
  <2>4. ASSUME NEW m \in Node \ {n}
        PROVE  CoverKept(m) /\ (Holds(m) => Holds(m)')
    <3>1. terms[m] \in Nat /\ terms[m] <= terms'[m]
      BY <1>0, <2>2, TermsAreNaturals
    <3>2. CoverKept(m)
      BY <1>0, <2>2, <2>3, <3>1, CoverStays DEF CoverKept
    <3> QED
      BY <2>1, <2>2, <3>2 DEF Holds
  <2>5. NodeOK(n)'
    <3>1. stored[n] \in Nat
      BY <1>0, TermsAreNaturals
    <3>2. stored[n] \in Cover(n)'
      BY <2>2, <3>1 DEF Cover
    <3>3. leader'[n].node # n
      BY <2>2, Values DEF NoLead
    <3> QED
      BY <2>1, <3>2, <3>3 DEF NodeOK, Covered
  <2>6. PassOK(n)'
    BY <2>2 DEF PassOK
  <2>7. \A m \in Node \ {n} : NodeOK(m)' /\ PassOK(m)'
    BY <1>0, <2>1, <2>2, <2>4, FrameNode, FramePass
  <2>8. ASSUME NEW t \in Thread
        PROVE  CallOK(t)'
    <3>1. CASE Host[t] = n
      BY <2>3, <3>1 DEF CallOK
    <3>2. CASE Host[t] # n
      BY <1>0, <1>h, <2>3, <2>4, <3>2, FrameCall
    <3> QED
      BY <3>1, <3>2
  <2>9. ClaimOK' /\ OrderedOK'
    BY <1>0, <2>1, <2>4, FrameClaim, FrameOrdered
  <2> QED
    BY <2>5, <2>6, <2>7, <2>8, <2>9 DEF OrderlyInv
<1>3. CASE UNCHANGED vars
  <2>1. UNCHANGED <<claim, claims, terms, stored, leader, pass, call, ordered>>
    BY <1>3 DEF vars
  <2>2. \A m \in Node : CoverKept(m) /\ (Holds(m) => Holds(m)')
    BY <1>0, <2>1, QuietCover DEF Holds
  <2> QED
    BY <1>0, <1>h, <2>1, <2>2, FrameClaim, FrameNode, FramePass, FrameCall, FrameOrdered
       DEF OrderlyInv
<1> QED
  BY <1>1, <1>2, <1>3

\* Every step keeps the inductive invariant.
LEMMA StepInv == IInv /\ [Next]_vars => IInv'
<1> SUFFICES ASSUME IInv, [Next]_vars
             PROVE  IInv'
  OBVIOUS
<1>1. TypeOK' /\ TermsSeen'
  BY StepType, StepTerms DEF IInv
<1>2. Orderly' = Orderly
  BY ClaimsRise DEF Orderly, IInv
<1>3. ASSUME Orderly
      PROVE  OrderlyInv'
  <2>1. ASSUME NEW n \in Node,
               LapseClaim \/ LapseRegistration(n) \/ PassStep(n) \/ LeadCached(n) \/ Restart(n)
        PROVE  OrderlyInv'
    BY <1>1, <1>3, <2>1, PassStepOrderly, CreateStepOrderly, AnswerStepOrderly, OtherStepOrderly
       DEF PassStep
  <2>2. ASSUME NEW t \in Thread, CallStep(t)
        PROVE  OrderlyInv'
    BY <1>1, <1>3, <2>2, CallStepOrderly, CreateStepOrderly, AnswerStepOrderly DEF CallStep
  <2>3. ASSUME NEW n \in Node, NEW m \in Node, NEW term \in 1 .. MaxTerm, Accept(n, m, term)
        PROVE  OrderlyInv'
    BY <1>1, <1>3, <2>3, OtherStepOrderly
  <2>4. CASE UNCHANGED vars
    BY <1>1, <1>3, <2>4, OtherStepOrderly
  <2>5. ASSUME LapseClaim
        PROVE  OrderlyInv'
    <3>1. claim \in Node
      BY <2>5 DEF LapseClaim, IInv, TypeOK, MaybeNode
    <3> QED
      BY <2>1, <2>5, <3>1
  <2> QED
    BY <2>1, <2>2, <2>3, <2>4, <2>5 DEF Next
<1> QED
  BY <1>1, <1>2, <1>3 DEF IInv

\* The inductive invariant holds at first.
LEMMA InitInv == Init => IInv
BY InitType, InitTerms, InitOrderly DEF IInv

\* In an orderly world a node's fence has reached the newest term it has on disk
\* and the one it leads in, through any number of restarts, but for a term whose
\* claim a thread of its own made and is yet to hear of: raise_term comes after
\* the answer in read_leaders and leader(), and a second thread, told that the
\* claim is there, leads and writes in its term before that.
THEOREM FencesCover == Spec => []FenceCovers
<1>1. IInv => FenceCovers
  BY DEF FenceCovers, IInv, OrderlyInv, NodeOK, Own, Covered, Cover
<1> QED
  BY <1>1, InitInv, StepInv, PTL DEF Spec

\* In an orderly world no two nodes stamp writes in one term: each of them
\* created the claim of it.  MCRace shows what one fault of disorder does to it.
THEOREM OrderlyTermsHaveOneNode == Spec => [](Orderly => OneNodePerTerm)
<1>1. IInv => (Orderly => OneNodePerTerm)
  BY DEF IInv, OrderlyInv, OrderedOK, Won, OneNodePerTerm
<1> QED
  BY <1>1, InitInv, StepInv, PTL DEF Spec
-----------------------------------------------------------------------------
(* EtcdCluster implements Leadership. *)

\* What is shown of an orderly world is what is there, before a step and after.
LEMMA OrderlyShows ==
    ASSUME Orderly, Orderly'
    PROVE  /\ Shown(claims, <<>>) = claims /\ Shown(claims, <<>>)' = claims'
           /\ Shown(terms, [n \in Node |-> 0]) = terms
           /\ Shown(terms, [n \in Node |-> 0])' = terms'
           /\ Shown(stored, [n \in Node |-> 0]) = stored
           /\ Shown(stored, [n \in Node |-> 0])' = stored'
           /\ Shown(ordered, {}) = ordered /\ Shown(ordered, {})' = ordered'
BY DEF Shown

\* What is shown of the first state is the promise's first state.
LEMMA InitPromise == Init => Promise!Init
BY DEF Init, Promise!Init, Shown

\* Raising a fence, or what a store kept.
LEMMA RaisedIsLarger ==
    ASSUME NEW f \in [Node -> Term], NEW n \in Node, NEW t \in Term
    PROVE  [f EXCEPT ![n] = Larger(@, t)] = Promise!Raised(f, n, t)
<1>1. f[n] \in Nat /\ t \in Nat
  BY Values
<1>2. Larger(f[n], t) = IF t > f[n] THEN t ELSE f[n]
  BY <1>1 DEF Larger
<1> QED
  BY <1>2 DEF Promise!Raised

\* A step of one node in one term is one of Leadership's.
LEMMA TermStep ==
    ASSUME Orderly, Orderly', NEW n \in Node, NEW t \in 1 .. Len(claims),
           Promise!Hear(n, t) \/ Promise!Order(n, t) \/ Promise!Take(n, t)
    PROVE  Promise!Next
<1>1. \E m \in Node, u \in 1 .. Len(Shown(claims, <<>>)) :
        Promise!Hear(m, u) \/ Promise!Order(m, u) \/ Promise!Take(m, u) \/ Promise!Keep(m, u)
  <2>1. t \in 1 .. Len(Shown(claims, <<>>))
    BY OrderlyShows
  <2> WITNESS n \in Node, t \in 1 .. Len(Shown(claims, <<>>))
  <2> QED
    OBVIOUS
<1> QED
  BY <1>1 DEF Promise!Next

\* Every step issues a term, hears of one, orders in one or takes a write of
\* one, restores a fence, or shows nothing.
LEMMA StepPromise == IInv /\ [Next]_vars => [Promise!Next]_(Promise!vars)
<1> SUFFICES ASSUME IInv, [Next]_vars
             PROVE  Promise!Next
  OBVIOUS
<1>0. TypeOK /\ Types /\ Orderly' = Orderly
  BY Typed, ClaimsRise DEF IInv, Orderly
<1>1. CASE ~Orderly
  <2>1. UNCHANGED Promise!vars
    BY <1>0, <1>1 DEF Promise!vars, Shown
  <2> QED
    BY <2>1 DEF Promise!Next
<1>2. CASE Orderly
  <2> USE <1>2
  <2>0. /\ OrderlyInv /\ TermsSeen /\ Orderly' /\ "lost" \notin Faults
        /\ \A t \in Thread : Host[t] \in Node
    BY <1>0, ClusterAssumption, Fields DEF IInv, Orderly, Faults, Disorder, Types
  <2>s. ASSUME UNCHANGED <<claims, terms, stored, ordered>>
        PROVE  Promise!Next
    BY <2>0, <2>s, OrderlyShows DEF Promise!Next, Promise!vars
  <2>i. ASSUME NEW n \in Node, claims' = Append(claims, n), UNCHANGED <<terms, stored, ordered>>
        PROVE  Promise!Next
    <3>1. Promise!Issue(n)
      BY <2>0, <2>i, OrderlyShows DEF Promise!Issue
    <3> QED
      BY <3>1 DEF Promise!Next
  \* A create shows a term issued, or nothing.
  <2>c. ASSUME NEW n \in Node, NEW a \in Answer, CreateTxn(n, a),
               UNCHANGED <<terms, stored, ordered>>
        PROVE  Promise!Next
    BY <1>0, <2>c, <2>i, <2>s, CreateShape
  \* A write ordered in a term of the node's own.
  <2>o. ASSUME NEW n \in Node, NEW t \in Term, Order(n, t), Won(n, t), UNCHANGED claims,
               terms' \in {terms, [terms EXCEPT ![n] = Larger(@, t)]}
        PROVE  Promise!Next
    <3>1. terms' \in {terms, Promise!Raised(terms, n, t)}
      BY <1>0, <2>o, RaisedIsLarger DEF Types
    <3>2. stored' = Promise!Raised(stored, n, t)
      BY <1>0, <2>o, RaisedIsLarger DEF Types, Order
    <3>3. Promise!Order(n, t)
      BY <2>0, <2>o, <3>1, <3>2, OrderlyShows DEF Promise!Order, Won, Order
    <3> QED
      BY <2>0, <2>o, <3>3, TermStep DEF Won
  <2>1. ASSUME NEW n \in Node,
               \/ LapseRegistration(n)
               \/ Refresh(n) \/ SkipLeaders(n) \/ ReadLeadersFails(n) \/ ReadLeaders(n)
               \/ KeepClaim(n) \/ RemoveClaim(n) \/ RemoveAnswered(n)
               \/ LeaveUnclaimed(n) \/ StoreLeaders(n)
        PROVE  Promise!Next
    BY <2>1, <2>s
       DEF LapseRegistration, Refresh, SkipLeaders, ReadLeadersFails, ReadLeaders, KeepClaim,
           RemoveClaim, RemoveAnswered, LeaveUnclaimed, StoreLeaders, etcd
  <2>2. ASSUME NEW n \in Node, CreateClaim(n)
        PROVE  Promise!Next
    BY <2>2, <2>c DEF CreateClaim
  <2>3. ASSUME NEW n \in Node, CreateAnswered(n)
        PROVE  Promise!Next
    <3>1. /\ UNCHANGED <<claims, stored, ordered>> /\ pass[n].at = "claim"
          /\ terms' = IF pass[n].answer.held
                      THEN [terms EXCEPT ![n] = Larger(@, pass[n].answer.term)] ELSE terms
      BY <2>3 DEF CreateAnswered, RaiseTerm, etcd
    <3>2. CASE pass[n].answer.held
      <4>1. Own(n, pass[n].answer.term) /\ pass[n].answer.term \in Term
        BY <1>0, <2>0, <3>1, <3>2, Fields DEF OrderlyInv, PassOK
      <4>2. PICK t \in Term : t = pass[n].answer.term
        BY <4>1
      <4>3. /\ Won(n, t)
            /\ terms' = Promise!Raised(terms, n, t)
        <5>1. terms' = [terms EXCEPT ![n] = Larger(@, t)] /\ terms \in [Node -> Term]
          BY <1>0, <3>1, <3>2, <4>2 DEF Types
        <5>2. Won(n, t)
          BY <4>1, <4>2 DEF Own, Won
        <5> QED
          BY <5>1, <5>2, RaisedIsLarger
      <4>4. Promise!Hear(n, t)
        BY <2>0, <3>1, <4>3, OrderlyShows DEF Promise!Hear, Won
      <4> QED
        BY <2>0, <4>3, <4>4, TermStep DEF Won
    <3>3. CASE ~pass[n].answer.held
      BY <2>s, <3>1, <3>3
    <3> QED
      BY <3>2, <3>3
  <2>4. ASSUME NEW n \in Node, LeadCached(n)
        PROVE  Promise!Next
    <3>1. /\ UNCHANGED <<claims, terms>>
          /\ leader[n].node = n /\ Order(n, leader[n].term) /\ leader[n].term \in Term
      BY <1>0, <2>4, Fields DEF LeadCached, etcd
    <3>2. Own(n, leader[n].term)
      BY <2>0, <3>1 DEF OrderlyInv, NodeOK
    <3>3. PICK t \in Term : t = leader[n].term
      BY <3>1
    <3>4. Order(n, t) /\ Won(n, t)
      BY <3>1, <3>2, <3>3 DEF Order, Own
    <3> QED
      BY <2>o, <3>1, <3>4
  <2>5. ASSUME NEW t \in Thread, AskHeld(t) \/ AskUnclaimed(t)
        PROVE  Promise!Next
    BY <2>5, <2>s DEF AskHeld, AskUnclaimed, etcd
  <2>6. ASSUME NEW t \in Thread, LeadHeld(t)
        PROVE  Promise!Next
    <3> DEFINE n == Host[t]
    <3>1. /\ UNCHANGED <<claims, terms>> /\ n \in Node
          /\ Order(n, terms[n]) /\ terms[n] \in Term /\ Holds(n)
      BY <1>0, <2>0, <2>6 DEF LeadHeld, TermOf, etcd, Types, OrderlyInv, CallOK
    <3>2. Won(n, terms[n])
      BY <1>0, <2>0, <3>1, HolderMayLead DEF Won
    <3>3. PICK u \in Term : u = terms[n]
      BY <3>1
    <3>4. Order(n, u) /\ Won(n, u)
      BY <3>1, <3>2, <3>3 DEF Order
    <3> QED
      BY <2>o, <3>1, <3>4
  <2>7. ASSUME NEW t \in Thread, CreateForWrite(t)
        PROVE  Promise!Next
    BY <2>0, <2>7, <2>c DEF CreateForWrite
  <2>8. ASSUME NEW t \in Thread, CreateForWriteAnswered(t)
        PROVE  Promise!Next
    <3> DEFINE n == Host[t]
    <3>1. /\ UNCHANGED claims /\ n \in Node /\ call[t].at = "claim"
          /\ call[t].answer.term \in Term /\ CallOK(t)
      BY <1>0, <2>0, <2>8, Fields DEF CreateForWriteAnswered, etcd, OrderlyInv
    <3>2. PICK a \in Term : a = call[t].answer.term
      BY <3>1
    <3>3. terms' = IF call[t].answer.held
                   THEN [terms EXCEPT ![n] = Larger(@, a)] ELSE terms
      BY <2>8, <3>2 DEF CreateForWriteAnswered, RaiseTerm
    <3>4. CASE call[t].answer.node = n
      <4>1. Order(n, a) /\ Won(n, a)
        BY <2>8, <3>1, <3>2, <3>4 DEF CreateForWriteAnswered, Order, CallOK, Own
      <4> QED
        BY <2>o, <3>1, <3>3, <4>1
    <3>5. CASE call[t].answer.node # n
      <4>1. ~call[t].answer.held /\ UNCHANGED <<stored, ordered>>
        BY <2>8, <3>1, <3>5 DEF CreateForWriteAnswered, CallOK
      <4> QED
        BY <2>s, <3>1, <3>3, <4>1
    <3> QED
      BY <3>4, <3>5
  <2>9. ASSUME NEW n \in Node, NEW m \in Node, NEW term \in 1 .. MaxTerm, Accept(n, m, term)
        PROVE  Promise!Next
    <3>1. /\ UNCHANGED <<claims, ordered>> /\ <<m, term>> \in ordered
          /\ term >= terms[n] /\ term \in Term
          /\ terms' = [terms EXCEPT ![n] = Larger(@, term)]
          /\ stored' = [stored EXCEPT ![n] = Larger(@, term)]
      BY <2>9, ClusterAssumption DEF Accept, RaiseTerm, etcd, Term
    <3>2. /\ terms' = Promise!Raised(terms, n, term)
          /\ stored' = Promise!Raised(stored, n, term)
      BY <1>0, <3>1, RaisedIsLarger DEF Types
    <3>3. term \in 1 .. Len(claims)
      BY <2>0, <3>1 DEF OrderlyInv, OrderedOK, Won
    <3>4. Promise!Take(n, term)
      BY <2>0, <3>1, <3>2, OrderlyShows DEF Promise!Take
    <3> QED
      BY <2>0, <3>3, <3>4, TermStep
  <2>10. ASSUME NEW n \in Node, Restart(n)
         PROVE  Promise!Next
    <3>1. /\ UNCHANGED <<claims, stored, ordered>>
          /\ terms' = [terms EXCEPT ![n] = stored[n]]
      BY <2>10 DEF Restart, RestoredTerm, etcd
    <3>2. Promise!Restore(n)
      BY <2>0, <3>1, OrderlyShows DEF Promise!Restore
    <3> QED
      BY <3>2 DEF Promise!Next
  <2>11. CASE LapseClaim \/ UNCHANGED vars
    BY <2>11, <2>s DEF LapseClaim, vars
  <2> QED
    BY <2>1, <2>2, <2>3, <2>4, <2>5, <2>6, <2>7, <2>8, <2>9, <2>10, <2>11
       DEF Next, PassStep, CallStep
<1> QED
  BY <1>1, <1>2

\* Claims, leases and the threads that read and make them implement Leadership,
\* for any nodes, threads, worlds and number of claims: read_leaders and
\* leader() let a node order writes only in a term whose claim it created.
THEOREM ClaimsKeepThePromise == Spec => PromiseKept
BY InitInv, StepInv, InitPromise, StepPromise, PTL DEF Spec, PromiseKept, Promise!Spec
=============================================================================
