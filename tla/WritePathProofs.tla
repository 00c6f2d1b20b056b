-------------------------- MODULE WritePathProofs --------------------------
(***************************************************************************)
(* A write that was answered for is on every copy, for any nodes, copies   *)
(* and writes.  What is inductive is that a copy that has answered for a   *)
(* write holds it or a later one, that the leader's own copy does from the *)
(* moment the write is sent, and that a store never goes back.             *)
(*                                                                         *)
(* Then: a write implements what leadership promises, because whoever      *)
(* orders in a term was given it; and writes are acknowledged in the order *)
(* they were asked for, because each acknowledgement leaves fences behind  *)
(* at the copies it was carried to, which refuse what is older.            *)
(***************************************************************************)
EXTENDS WritePath, TLAPS

\* A stamp is complete before the write leaves the node that ordered it.
LegInv ==
    \A w \in Write, c \in Node :
        leg[w][c] # "none" => state[w] \in {"sent", "acked", "refused"}

\* A copy that answered holds the write or a later one.
DoneInv ==
    \A w \in Write, c \in Node :
        leg[w][c] = "done" => ~IsNewer(stamp[w], held[c])

\* So does the copy of the node that ordered it, once it is sent.
OwnInv ==
    \A w \in Write :
        (state[w] = "sent" /\ by[w] \in Copies) =>
            ~IsNewer(stamp[w], held[by[w]])

IInv == TypeOK /\ LegInv /\ DoneInv /\ OwnInv /\ AckedOnEveryCopy

\* A node to name before any write has one.
LEMMA FirstNode == (CHOOSE n \in Node : TRUE) \in Node
BY WritePathAssumption

\* Versions are pairs of naturals, and a version no newer than one is no newer
\* than any that is at least as new.
LEMMA VersionsAreNaturals ==
    ASSUME NEW v \in Versions
    PROVE  v.term \in Nat /\ v.count \in Nat
BY WritePathAssumption DEF Versions

\* is_newer orders versions: not being newer carries over.
LEMMA NotNewerIsTransitive ==
    ASSUME NEW u \in Versions, NEW v \in Versions, NEW x \in Versions,
           ~IsNewer(u, v), ~IsNewer(v, x)
    PROVE  ~IsNewer(u, x)
BY VersionsAreNaturals DEF IsNewer

\* write_record leaves a store no older than it was and than what it was given.
LEMMA WriteRecordRises ==
    ASSUME TypeOK, NEW n \in Node, NEW v \in Versions, WriteRecord(n, v)
    PROVE  /\ held' \in [Node -> Versions]
           /\ ~IsNewer(v, held'[n])
           /\ \A c \in Node : ~IsNewer(held[c], held'[c])
<1>1. held \in [Node -> Versions]
  BY DEF TypeOK
<1>2. held' = [held EXCEPT ![n] = IF IsNewer(held[n], v) THEN held[n] ELSE v]
  BY DEF WriteRecord
<1>3. held' \in [Node -> Versions]
  BY <1>1, <1>2
<1>4. \A c \in Node : c # n => held'[c] = held[c]
  BY <1>1, <1>2
<1>5. held'[n] = IF IsNewer(held[n], v) THEN held[n] ELSE v
  BY <1>1, <1>2
<1>6. \A c \in Node : held[c].term \in Nat /\ held[c].count \in Nat
  BY <1>1, VersionsAreNaturals
<1>7. v.term \in Nat /\ v.count \in Nat
  BY VersionsAreNaturals
<1>8. ~IsNewer(v, held'[n]) /\ ~IsNewer(held[n], held'[n])
  BY <1>5, <1>6, <1>7 DEF IsNewer
<1>9. ASSUME NEW c \in Node
      PROVE  ~IsNewer(held[c], held[c])
  <2>1. held[c].term \in Nat /\ held[c].count \in Nat
    BY <1>6
  <2> QED
    BY <2>1 DEF IsNewer
<1> QED
  BY <1>3, <1>4, <1>8, <1>9
-----------------------------------------------------------------------------
\* The inductive invariant holds at first.
LEMMA InitInv == Init => IInv
<1> SUFFICES ASSUME Init
             PROVE  IInv
  OBVIOUS
<1>0. NoVersion \in Versions /\ 0 \in 0 .. MaxTerm /\ 0 \in 0 .. MaxCount
  BY WritePathAssumption DEF Versions, NoVersion
<1>1. by \in [Write -> Node] /\ after \in [Write -> SUBSET Write]
  BY FirstNode DEF Init
<1>2. leg \in [Write -> [Node -> {"none", "sent", "accepted", "done", "refused"}]]
  BY DEF Init
<1>3. claims \in Seq(Node) /\ stamp \in [Write -> Versions] /\ held \in [Node -> Versions]
  BY <1>0 DEF Init
<1>4. TypeOK
  BY <1>0, <1>1, <1>2, <1>3 DEF Init, TypeOK
<1> QED
  BY <1>4 DEF Init, IInv, LegInv, DoneInv, OwnInv, AckedOnEveryCopy

\* Types are kept by every step.
LEMMA StepType == TypeOK /\ [Next]_vars => TypeOK'
<1> SUFFICES ASSUME TypeOK, [Next]_vars
             PROVE  TypeOK'
  OBVIOUS
<1> USE WritePathAssumption DEF TypeOK
<1>1. ASSUME NEW n \in Node, Claim(n) \/ Raise(n)
      PROVE  TypeOK'
  <2>1. CASE Claim(n)
    <3>1. TermWon \in 1 .. MaxTerm
      BY <2>1 DEF Claim, TermWon
    <3>2. own' \in [Node -> SUBSET (1 .. MaxTerm)]
      BY <2>1, <3>1 DEF Claim
    <3>3. claims' \in Seq(Node)
      BY <2>1 DEF Claim
    <3> QED
      BY <2>1, <3>2, <3>3 DEF Claim
  <2>2. CASE Raise(n)
    <3>1. PICK t \in own[n] : fence' = RaisedTo(fence, n, t)
      BY <2>2 DEF Raise
    <3>2. fence' \in [Node -> 0 .. MaxTerm]
      BY <3>1 DEF RaisedTo
    <3> QED
      BY <2>2, <3>2 DEF Raise
  <2> QED
    BY <1>1, <2>1, <2>2
<1>2. ASSUME NEW n \in Node, Lead(n) \/ Unlead(n)
      PROVE  TypeOK'
  <2>1. CASE Lead(n)
    <3>1. PICK t \in own[n] : lead' = [lead EXCEPT ![n] = t]
      BY <2>1 DEF Lead
    <3>2. lead' \in [Node -> 0 .. MaxTerm]
      BY <3>1
    <3> QED
      BY <2>1, <3>2 DEF Lead
  <2>2. CASE Unlead(n)
    BY <2>2 DEF Unlead
  <2> QED
    BY <1>2, <2>1, <2>2
<1>3. ASSUME NEW n \in Node, Restart(n)
      PROVE  TypeOK'
  <2>1. fence' \in [Node -> 0 .. MaxTerm]
    BY <1>3 DEF Restart, RestoredFence, Versions
  <2> QED
    BY SMTT(30), <1>3, <2>1 DEF Restart
<1>4. ASSUME NEW w \in Write, NEW n \in Node, Route(w, n)
      PROVE  TypeOK'
  <2>1. stamp' \in [Write -> Versions]
    BY <1>4 DEF Route, Versions
  <2> QED
    BY <1>4, <2>1 DEF Route
<1>5. ASSUME NEW w \in Write, Stamp(w)
      PROVE  TypeOK'
  <2>1. count[by[w]] + 1 \in 0 .. MaxCount
    BY <1>5 DEF Stamp
  <2>2. stamp' \in [Write -> Versions]
    BY <1>5, <2>1 DEF Stamp, Versions
  <2>3. count' \in [Node -> 0 .. MaxCount]
    BY <1>5, <2>1 DEF Stamp
  <2> QED
    BY <1>5, <2>2, <2>3 DEF Stamp
<1>6. ASSUME NEW w \in Write, WriteOwn(w)
      PROVE  TypeOK'
  <2>1. held' \in [Node -> Versions]
    BY <1>6, WriteRecordRises DEF WriteOwn
  <2> QED
    BY <1>6, <2>1 DEF WriteOwn
<1>7. ASSUME NEW w \in Write, Ack(w) \/ Refuse(w)
      PROVE  TypeOK'
  BY <1>7 DEF Ack, Refuse
<1>8. ASSUME NEW w \in Write, NEW c \in Copies, Take(w, c)
      PROVE  TypeOK'
  <2>1. stamp[w].term \in 0 .. MaxTerm
    BY DEF Versions
  <2>2. c \in Node
    OBVIOUS
  <2>3. leg' \in [Write -> [Node -> {"none", "sent", "accepted", "done", "refused"}]]
    <3>1. CASE leg' = [leg EXCEPT ![w][c] = "accepted"]
      BY <2>2, <3>1
    <3>2. CASE leg' = [leg EXCEPT ![w][c] = "refused"]
      BY <2>2, <3>2
    <3> QED
      BY <1>8, <3>1, <3>2 DEF Take
  <2>4. fence' \in [Node -> 0 .. MaxTerm]
    BY <1>8, <2>1, <2>2 DEF Take, Accept, RaisedTo
  <2> QED
    BY <1>8, <2>3, <2>4 DEF Take
<1>9. ASSUME NEW w \in Write, NEW c \in Copies, Apply(w, c)
      PROVE  TypeOK'
  <2>1. held' \in [Node -> Versions]
    BY <1>9, WriteRecordRises DEF Apply
  <2> QED
    BY <1>9, <2>1 DEF Apply
<1>10. CASE UNCHANGED vars
  BY <1>10 DEF vars
<1> QED
  BY <1>1, <1>2, <1>3, <1>4, <1>5, <1>6, <1>7, <1>8, <1>9, <1>10 DEF Next

\* A step that leaves every write where it is, but for what it may refuse or
\* take again, and changes no stamp and no store.
LEMMA QuietStepInv ==
    ASSUME IInv, TypeOK',
           UNCHANGED <<held, stamp, by>>,
           \A w \in Write : state'[w] \in {state[w], "refused"},
           \A w \in Write, c \in Node :
               leg'[w][c] # "none" => leg[w][c] # "none",
           \A w \in Write, c \in Node :
               leg'[w][c] = "done" => leg[w][c] = "done"
    PROVE  IInv'
<1>1. LegInv'
  BY DEF IInv, LegInv
<1>2. DoneInv'
  BY DEF IInv, DoneInv
<1>3. OwnInv' /\ AckedOnEveryCopy'
  BY DEF IInv, OwnInv, AckedOnEveryCopy
<1> QED
  BY <1>1, <1>2, <1>3 DEF IInv

\* A version that a store is not behind stays so as the store rises.
LEMMA HeldRises ==
    ASSUME TypeOK, TypeOK', NEW c \in Node, NEW v \in Versions,
           ~IsNewer(held[c], held'[c]), ~IsNewer(v, held[c])
    PROVE  ~IsNewer(v, held'[c])
<1>1. held[c] \in Versions /\ held'[c] \in Versions
  BY DEF TypeOK
<1> QED
  BY <1>1, NotNewerIsTransitive

\* Every step keeps the inductive invariant.
LEMMA StepInv == IInv /\ [Next]_vars => IInv'
<1> SUFFICES ASSUME IInv, [Next]_vars
             PROVE  IInv'
  OBVIOUS
<1>0. TypeOK /\ TypeOK'
  BY StepType DEF IInv
<1>1. ASSUME NEW n \in Node,
             Claim(n) \/ Raise(n) \/ Lead(n) \/ Unlead(n) \/ Restart(n)
      PROVE  IInv'
  <2>1. UNCHANGED <<held, stamp, by>>
    BY <1>1 DEF Claim, Raise, Lead, Unlead, Restart
  <2>2. \A w \in Write : state'[w] \in {state[w], "refused"}
    BY <1>0, <1>1 DEF Claim, Raise, Lead, Unlead, Restart, TypeOK
  <2>3. \A w \in Write, c \in Node :
          leg'[w][c] = leg[w][c] \/ (leg[w][c] = "accepted" /\ leg'[w][c] = "refused")
    <3>1. CASE UNCHANGED leg
      BY <3>1
    <3>2. CASE Restart(n)
      BY <1>0, <3>2 DEF Restart, TypeOK
    <3> QED
      BY <1>1, <3>1, <3>2 DEF Claim, Raise, Lead, Unlead
  <2> QED
    BY <1>0, <2>1, <2>2, <2>3, QuietStepInv
<1>2. ASSUME NEW w \in Write, (\E n \in Node : Route(w, n)) \/ Stamp(w)
      PROVE  IInv'
  \* The write being stamped has been sent nowhere.
  <2>1. /\ state[w] \in {"new", "led"} /\ state'[w] \in {"led", "stamped"}
        /\ \A v \in Write \ {w} : /\ state'[v] = state[v]
                                 /\ stamp'[v] = stamp[v]
                                 /\ by'[v] = by[v]
        /\ UNCHANGED <<held, leg>>
    BY SMTT(30), <1>0, <1>2 DEF Route, Stamp, TypeOK
  <2>2. \A c \in Node : leg[w][c] = "none"
    BY <2>1 DEF IInv, LegInv
  <2>3. LegInv'
    BY <2>1, <2>2 DEF IInv, LegInv
  <2>4. DoneInv'
    BY <2>1, <2>2 DEF IInv, DoneInv
  <2>5. OwnInv' /\ AckedOnEveryCopy'
    BY <2>1 DEF IInv, OwnInv, AckedOnEveryCopy
  <2> QED
    BY <1>0, <2>3, <2>4, <2>5 DEF IInv
<1>3. ASSUME NEW w \in Write, WriteOwn(w)
      PROVE  IInv'
  <2>1. stamp[w] \in Versions /\ by[w] \in Node
    BY <1>0 DEF TypeOK
  <2>2. /\ \A c \in Node : ~IsNewer(held[c], held'[c])
        /\ by[w] \in Copies => ~IsNewer(stamp[w], held'[by[w]])
    <3>1. CASE by[w] \in Copies
      BY <1>0, <1>3, <2>1, <3>1, WriteRecordRises DEF WriteOwn
    <3>2. CASE by[w] \notin Copies
      <4>1. held' = held /\ held \in [Node -> Versions]
        BY <1>0, <1>3, <3>2 DEF WriteOwn, TypeOK
      <4>2. ASSUME NEW c \in Node
            PROVE  ~IsNewer(held[c], held'[c])
        <5>1. held[c].term \in Nat /\ held[c].count \in Nat
          BY <4>1, VersionsAreNaturals
        <5> QED
          BY <4>1, <5>1 DEF IsNewer
      <4> QED
        BY <3>2, <4>2
    <3> QED
      BY <3>1, <3>2
  <2>3. /\ state[w] = "stamped" /\ state'[w] = "sent"
        /\ \A v \in Write \ {w} : state'[v] = state[v] /\ leg'[v] = leg[v]
        /\ \A c \in Node : leg'[w][c] \in {"none", "sent"}
        /\ UNCHANGED <<stamp, by>>
    BY <1>0, <1>3 DEF WriteOwn, TypeOK
  <2>4. \A v \in Write, c \in Node :
          ~IsNewer(stamp[v], held[c]) => ~IsNewer(stamp[v], held'[c])
    BY <1>0, <2>2, HeldRises DEF TypeOK
  <2>5. LegInv'
    BY <2>3 DEF IInv, LegInv
  <2>6. DoneInv'
    BY <2>3, <2>4 DEF IInv, DoneInv
  <2>7. OwnInv'
    BY <1>0, <2>2, <2>3, <2>4 DEF IInv, OwnInv, TypeOK
  <2>8. AckedOnEveryCopy'
    BY <2>3, <2>4, WritePathAssumption DEF IInv, AckedOnEveryCopy
  <2> QED
    BY <1>0, <2>5, <2>6, <2>7, <2>8 DEF IInv
<1>4. ASSUME NEW w \in Write, Ack(w)
      PROVE  IInv'
  <2>1. /\ state[w] = "sent" /\ state'[w] = "acked"
        /\ \A v \in Write \ {w} : state'[v] = state[v]
        /\ \A c \in Copies \ {by[w]} : leg[w][c] = "done"
        /\ UNCHANGED <<stamp, by, leg, held>>
    BY <1>0, <1>4 DEF Ack, Answered, TypeOK
  <2>2. \A c \in Copies : ~IsNewer(stamp[w], held[c])
    BY <2>1, WritePathAssumption DEF IInv, DoneInv, OwnInv
  <2>3. AckedOnEveryCopy'
    BY <2>1, <2>2 DEF IInv, AckedOnEveryCopy
  <2>4. LegInv' /\ DoneInv' /\ OwnInv'
    BY <2>1 DEF IInv, LegInv, DoneInv, OwnInv
  <2> QED
    BY <1>0, <2>3, <2>4 DEF IInv
<1>5. ASSUME NEW w \in Write, Refuse(w)
      PROVE  IInv'
  <2>1. /\ UNCHANGED <<held, stamp, by, leg>>
        /\ \A v \in Write : state'[v] \in {state[v], "refused"}
    BY <1>0, <1>5 DEF Refuse, TypeOK
  <2> QED
    BY <1>0, <2>1, QuietStepInv
<1>6. ASSUME NEW w \in Write, NEW c \in Copies, Take(w, c)
      PROVE  IInv'
  <2>1. UNCHANGED <<held, stamp, by, state>> /\ leg[w][c] # "none"
    BY <1>6 DEF Take
  <2>2. c \in Node
    BY WritePathAssumption
  <2>3. /\ leg'[w][c] \in {"accepted", "refused"}
        /\ \A v \in Write, d \in Node :
             leg'[v][d] = leg[v][d] \/ (v = w /\ d = c)
    <3>1. CASE leg' = [leg EXCEPT ![w][c] = "accepted"]
      BY <1>0, <2>2, <3>1 DEF TypeOK
    <3>2. CASE leg' = [leg EXCEPT ![w][c] = "refused"]
      BY <1>0, <2>2, <3>2 DEF TypeOK
    <3> QED
      BY <1>6, <3>1, <3>2 DEF Take
  <2> QED
    BY <1>0, <2>1, <2>3, QuietStepInv
<1>7. ASSUME NEW w \in Write, NEW c \in Copies, Apply(w, c)
      PROVE  IInv'
  <2>1. /\ UNCHANGED <<stamp, by, state>>
        /\ leg[w][c] = "accepted" /\ leg'[w][c] = "done"
        /\ \A v \in Write, d \in Node :
             leg'[v][d] = leg[v][d] \/ (v = w /\ d = c)
    BY <1>0, <1>7, WritePathAssumption DEF Apply, TypeOK
  <2>2. /\ ~IsNewer(stamp[w], held'[c])
        /\ \A d \in Node : ~IsNewer(held[d], held'[d])
    <3>1. c \in Node /\ stamp[w] \in Versions
      BY <1>0, WritePathAssumption DEF TypeOK
    <3> QED
      BY <1>0, <1>7, <3>1, WriteRecordRises DEF Apply
  <2>3. \A v \in Write, d \in Node :
          ~IsNewer(stamp[v], held[d]) => ~IsNewer(stamp[v], held'[d])
    BY <1>0, <2>2, HeldRises DEF TypeOK
  <2>4. LegInv'
    BY <2>1 DEF IInv, LegInv
  <2>5. DoneInv'
    BY <2>1, <2>2, <2>3 DEF IInv, DoneInv
  <2>6. OwnInv' /\ AckedOnEveryCopy'
    BY <1>0, <2>1, <2>3, WritePathAssumption
       DEF IInv, OwnInv, AckedOnEveryCopy, TypeOK
  <2> QED
    BY <1>0, <2>4, <2>5, <2>6 DEF IInv
<1>8. CASE UNCHANGED vars
  BY <1>0, <1>8, QuietStepInv DEF vars
<1> QED
  BY <1>1, <1>2, <1>3, <1>4, <1>5, <1>6, <1>7, <1>8 DEF Next

\* Types hold in every state the write path reaches.
THEOREM WritePathTypeCorrect == Spec => []TypeOK
<1>1. IInv => TypeOK
  BY DEF IInv
<1> QED
  BY <1>1, InitInv, StepInv, PTL DEF Spec

\* A write lead_write answers for is on every copy of its key, or a later one
\* is, whatever was delivered late or twice and whoever restarted or took the
\* lead meanwhile.
THEOREM AckedWritesAreKept == Spec => []AckedOnEveryCopy
<1>1. IInv => AckedOnEveryCopy
  BY DEF IInv
<1> QED
  BY <1>1, InitInv, StepInv, PTL DEF Spec
-----------------------------------------------------------------------------
(* Leadership kept, and the order of writes. *)

\* Terms as the nodes know them.  A node leads in a term it claimed, a write is
\* ordered in a term its node claimed, a copy that took it is fenced by its
\* term, and so is every copy that must refuse what is older than an answer.
Won(n) == {t \in 1 .. Len(claims) : claims[t] = n}

NodeTerms ==
    \A n \in Node : own[n] \subseteq Won(n) /\ lead[n] \in Won(n) \cup {0}

WriteTerms ==
    \A w \in Write : state[w] # "new" => stamp[w].term \in Won(by[w])

LegTerms ==
    \A w \in Write, c \in Node :
        leg[w][c] \in {"accepted", "done"} => stamp[w].term <= fence[c]

AnswerTerms ==
    \A w \in Write : state[w] = "acked" =>
        \A c \in Refusing(w) : stamp[w].term <= fence[c]

TermInv == NodeTerms /\ WriteTerms /\ LegTerms /\ AnswerTerms

\* At first no term is open.
LEMMA InitTerms == Init => TermInv
BY DEF Init, TermInv, NodeTerms, WriteTerms, LegTerms, AnswerTerms, NoVersion

\* What write_record leaves is of the term it was given or of the one it had,
\* whichever is the later.
LEMMA WriteRecordTerm ==
    ASSUME TypeOK, NEW n \in Node, NEW v \in Versions, WriteRecord(n, v)
    PROVE  /\ held'[n].term = IF v.term > held[n].term THEN v.term ELSE held[n].term
           /\ \A c \in Node \ {n} : held'[c] = held[c]
<1>1. held \in [Node -> Versions]
  BY DEF TypeOK
<1>2. /\ held[n].term \in Nat /\ held[n].count \in Nat
      /\ v.term \in Nat /\ v.count \in Nat
  BY <1>1, VersionsAreNaturals
<1>3. held' = [held EXCEPT ![n] = IF IsNewer(held[n], v) THEN held[n] ELSE v]
  BY DEF WriteRecord
<1>4. held'[n] = IF IsNewer(held[n], v) THEN held[n] ELSE v
  BY <1>1, <1>3
<1>5. held'[n].term = IF v.term > held[n].term THEN v.term ELSE held[n].term
  BY <1>2, <1>4 DEF IsNewer
<1> QED
  BY <1>1, <1>3, <1>5

\* The terms of the nodes and of the writes are naturals.
LEMMA TermsAreNaturals ==
    ASSUME TypeOK
    PROVE  /\ \A n \in Node : /\ held[n].term \in Nat
                              /\ fence[n] \in Nat /\ lead[n] \in Nat
           /\ \A w \in Write : stamp[w].term \in Nat /\ by[w] \in Node
           /\ Len(claims) \in Nat
<1>1. \A n \in Node : held[n] \in Versions
  BY DEF TypeOK
<1>2. \A w \in Write : stamp[w] \in Versions
  BY DEF TypeOK
<1> QED
  BY <1>1, <1>2, VersionsAreNaturals DEF TypeOK

\* What a step keeps of the terms when no fence falls and nobody claims, leads,
\* routes or answers.
LEMMA QuietStepTerms ==
    ASSUME IInv, TermInv, TypeOK',
           UNCHANGED <<claims, by, early>>,
           \A n \in Node : own'[n] \subseteq own[n] /\ lead'[n] \in {lead[n], 0} \cup own[n],
           \A n \in Node : fence[n] <= fence'[n],
           \A w \in Write : stamp'[w].term = stamp[w].term,
           \A w \in Write : state'[w] # "new" => state[w] # "new",
           \A w \in Write : state'[w] = "acked" => state[w] = "acked",
           \A w \in Write, c \in Node :
             leg'[w][c] \in {"accepted", "done"} =>
                 leg[w][c] \in {"accepted", "done"} \/ stamp[w].term <= fence'[c]
    PROVE  TermInv'
<1>t. /\ \A n \in Node : fence[n] \in Nat /\ fence'[n] \in Nat
      /\ \A w \in Write : stamp[w].term \in Nat
      /\ Copies \subseteq Node
  <2>1. \A w \in Write : stamp[w] \in Versions
    BY DEF IInv, TypeOK
  <2>2. \A n \in Node : fence[n] \in Nat /\ fence'[n] \in Nat
    BY DEF IInv, TypeOK
  <2> QED
    BY <2>1, <2>2, VersionsAreNaturals, WritePathAssumption
<1>1. NodeTerms' /\ WriteTerms'
  BY DEF TermInv, NodeTerms, WriteTerms, Won
<1>2. LegTerms'
  <2> SUFFICES ASSUME NEW w \in Write, NEW c \in Node,
                      leg'[w][c] \in {"accepted", "done"}
               PROVE  stamp'[w].term <= fence'[c]
    BY DEF LegTerms
  <2>1. stamp[w].term <= fence[c] \/ stamp[w].term <= fence'[c]
    BY DEF TermInv, LegTerms
  <2> QED
    BY <1>t, <2>1
<1>3. AnswerTerms'
  <2> SUFFICES ASSUME NEW w \in Write, state'[w] = "acked", NEW c \in Refusing(w)
               PROVE  stamp'[w].term <= fence'[c]
    BY DEF AnswerTerms, Refusing
  <2>1. c \in Node /\ stamp[w].term <= fence[c]
    BY <1>t DEF TermInv, AnswerTerms, Refusing
  <2> QED
    BY <1>t, <2>1
<1> QED
  BY <1>1, <1>2, <1>3 DEF TermInv

\* Every step keeps what is known of the terms.
LEMMA StepTerms == IInv /\ TermInv /\ [Next]_vars => TermInv'
<1> SUFFICES ASSUME IInv, TermInv, [Next]_vars
             PROVE  TermInv'
  OBVIOUS
<1>0. TypeOK /\ TypeOK' /\ Copies \subseteq Node
  BY StepType, WritePathAssumption DEF IInv
<1>t. /\ \A n \in Node : held[n].term \in Nat /\ fence[n] \in Nat /\ lead[n] \in Nat
      /\ \A w \in Write : stamp[w].term \in Nat /\ by[w] \in Node
      /\ Len(claims) \in Nat
  BY <1>0, TermsAreNaturals
<1>1. ASSUME NEW n \in Node, Claim(n)
      PROVE  TermInv'
  <2>1. /\ Len(claims') = Len(claims) + 1
        /\ \A t \in 1 .. Len(claims) : claims'[t] = claims[t]
        /\ claims'[Len(claims) + 1] = n
    BY <1>0, <1>1 DEF Claim, TypeOK
  <2>2. /\ own'[n] = own[n] \cup {Len(claims) + 1}
        /\ \A m \in Node \ {n} : own'[m] = own[m]
        /\ UNCHANGED <<lead, fence, held, state, by, stamp, leg, early>>
    BY <1>0, <1>1 DEF Claim, TermWon, TypeOK
  <2>3. \A m \in Node : Won(m) \subseteq Won(m)'
    BY <1>t, <2>1 DEF Won
  <2>4. Len(claims) + 1 \in Won(n)'
    BY <1>t, <2>1 DEF Won
  <2>5. NodeTerms'
    BY <2>2, <2>3, <2>4 DEF TermInv, NodeTerms
  <2>6. WriteTerms'
    BY <1>t, <2>2, <2>3 DEF TermInv, WriteTerms
  <2> QED
    BY <2>2, <2>5, <2>6 DEF TermInv, LegTerms, AnswerTerms, Refusing
<1>2. ASSUME NEW n \in Node, Raise(n) \/ Lead(n) \/ Unlead(n)
      PROVE  TermInv'
  <2>1. /\ \A m \in Node : fence[m] <= fence'[m]
        /\ \A m \in Node : lead'[m] \in {lead[m], 0} \cup own[m]
    <3>1. CASE Raise(n)
      <4>1. PICK t \in own[n] : fence' = RaisedTo(fence, n, t)
        BY <3>1 DEF Raise
      <4>2. t \in Nat
        BY <1>0 DEF TypeOK
      <4>3. /\ fence'[n] = IF t > fence[n] THEN t ELSE fence[n]
            /\ \A m \in Node \ {n} : fence'[m] = fence[m]
        BY <1>0, <4>1 DEF RaisedTo, TypeOK
      <4>4. \A m \in Node : fence[m] <= fence'[m]
        BY <1>t, <4>2, <4>3
      <4> QED
        BY <3>1, <4>4 DEF Raise
    <3>2. CASE Lead(n) \/ Unlead(n)
      <4>1. UNCHANGED fence
        BY <3>2 DEF Lead, Unlead
      <4>2. \A m \in Node : lead'[m] \in {lead[m], 0} \cup own[m]
        BY <1>0, <3>2 DEF Lead, Unlead, TypeOK
      <4> QED
        BY <1>t, <4>1, <4>2
    <3> QED
      BY <1>2, <3>1, <3>2
  <2>2. UNCHANGED <<claims, own, state, by, stamp, leg, early>>
    BY <1>2 DEF Raise, Lead, Unlead
  <2> QED
    BY <1>0, <2>1, <2>2, QuietStepTerms
<1>3. ASSUME NEW n \in Node, Restart(n)
      PROVE  TermInv'
  \* The fence falls, and to what the store kept: a copy that took a write has
  \* it or a later one there.
  <2>1. /\ own'[n] = {} /\ lead'[n] = 0 /\ fence'[n] = held[n].term
        /\ \A m \in Node \ {n} : /\ own'[m] = own[m] /\ lead'[m] = lead[m]
                                 /\ fence'[m] = fence[m]
        /\ UNCHANGED <<claims, held, by, stamp, early>>
    BY <1>0, <1>3 DEF Restart, RestoredFence, TypeOK
  <2>2. \A w \in Write :
          /\ state'[w] # "new" => state[w] # "new"
          /\ state'[w] = "acked" => state[w] = "acked"
    BY <1>0, <1>3 DEF Restart, TypeOK
  <2>3. \A w \in Write, c \in Node :
          leg'[w][c] \in {"accepted", "done"} =>
              leg'[w][c] = leg[w][c] /\ (c = n => leg[w][c] = "done")
    BY <1>0, <1>3 DEF Restart, TypeOK
  <2>4. NodeTerms' /\ WriteTerms'
    BY <2>1, <2>2 DEF TermInv, NodeTerms, WriteTerms, Won
  <2>5. \A w \in Write : ~IsNewer(stamp[w], held[n]) => stamp[w].term <= fence'[n]
    BY <1>t, <2>1 DEF IsNewer
  <2>6. LegTerms'
    <3> SUFFICES ASSUME NEW w \in Write, NEW c \in Node,
                        leg'[w][c] \in {"accepted", "done"}
                 PROVE  stamp[w].term <= fence'[c]
      BY <2>1 DEF LegTerms
    <3>1. CASE c = n
      BY <2>3, <2>5, <3>1 DEF IInv, DoneInv
    <3>2. CASE c # n
      BY <2>1, <2>3, <3>2 DEF TermInv, LegTerms
    <3> QED
      BY <3>1, <3>2
  <2>7. AnswerTerms'
    <3> SUFFICES ASSUME NEW w \in Write, state'[w] = "acked", NEW c \in Refusing(w)
                 PROVE  stamp[w].term <= fence'[c]
      BY <2>1 DEF AnswerTerms, Refusing
    <3>1. c \in Copies /\ c \in Node /\ state[w] = "acked"
      BY <1>0, <2>2 DEF Refusing
    <3>2. CASE c = n
      BY <2>5, <3>1, <3>2 DEF IInv, AckedOnEveryCopy
    <3>3. CASE c # n
      BY <2>1, <3>1, <3>3 DEF TermInv, AnswerTerms
    <3> QED
      BY <3>2, <3>3
  <2> QED
    BY <2>4, <2>6, <2>7 DEF TermInv
<1>4. ASSUME NEW w \in Write, NEW n \in Node, Route(w, n)
      PROVE  TermInv'
  <2>1. /\ lead[n] # 0 /\ state[w] = "new"
        /\ state'[w] = "led" /\ by'[w] = n /\ stamp'[w].term = lead[n]
        /\ \A v \in Write \ {w} :
             state'[v] = state[v] /\ by'[v] = by[v] /\ stamp'[v] = stamp[v]
        /\ UNCHANGED <<claims, own, lead, fence, held, leg, early>>
    BY <1>0, <1>4 DEF Route, TypeOK, Versions
  <2>2. \A c \in Node : leg[w][c] = "none"
    BY <2>1 DEF IInv, LegInv
  <2>3. NodeTerms' /\ WriteTerms'
    BY <2>1 DEF TermInv, NodeTerms, WriteTerms, Won
  <2>4. LegTerms'
    BY <2>1, <2>2 DEF TermInv, LegTerms
  <2>5. AnswerTerms'
    BY <2>1 DEF TermInv, AnswerTerms, Refusing
  <2> QED
    BY <2>3, <2>4, <2>5 DEF TermInv
<1>5. ASSUME NEW w \in Write, Stamp(w) \/ Refuse(w) \/ WriteOwn(w)
      PROVE  TermInv'
  <2>1. UNCHANGED <<claims, own, lead, fence, by, early>>
    BY <1>5 DEF Stamp, Refuse, WriteOwn
  <2>2. \A v \in Write : stamp'[v].term = stamp[v].term
    <3>1. CASE Stamp(w)
      <4>1. stamp' = [stamp EXCEPT ![w] = [stamp[w] EXCEPT !.count = count[by[w]] + 1]]
        BY <3>1 DEF Stamp
      <4>2. stamp[w] \in Versions /\ stamp'[w].term = stamp[w].term
        BY <1>0, <4>1 DEF TypeOK, Versions
      <4> QED
        BY <1>0, <4>1, <4>2 DEF TypeOK
    <3>2. CASE Refuse(w) \/ WriteOwn(w)
      BY <3>2 DEF Refuse, WriteOwn
    <3> QED
      BY <1>5, <3>1, <3>2
  <2>3. \A v \in Write :
          /\ state'[v] # "new" => state[v] # "new"
          /\ state'[v] = "acked" => state[v] = "acked"
    BY <1>0, <1>5 DEF Stamp, Refuse, WriteOwn, TypeOK
  <2>4. \A v \in Write, c \in Node :
          leg'[v][c] \in {"accepted", "done"} => leg[v][c] \in {"accepted", "done"}
    <3>1. CASE Stamp(w) \/ Refuse(w)
      BY <3>1 DEF Stamp, Refuse
    <3>2. CASE WriteOwn(w)
      BY <1>0, <3>2 DEF WriteOwn, TypeOK
    <3> QED
      BY <1>5, <3>1, <3>2
  <2> QED
    BY <1>0, <1>t, <2>1, <2>2, <2>3, <2>4, QuietStepTerms
<1>6. ASSUME NEW w \in Write, Ack(w)
      PROVE  TermInv'
  <2>1. /\ UNCHANGED <<claims, own, lead, fence, by, stamp, leg>>
        /\ state[w] = "sent" /\ state'[w] = "acked"
        /\ \A v \in Write \ {w} : state'[v] = state[v]
        /\ \A c \in Copies \ {by[w]} : leg[w][c] = "done"
        /\ early' = IF stamp[w].term > fence[by[w]] THEN early \cup {w} ELSE early
    BY <1>0, <1>6 DEF Ack, Answered, TypeOK
  <2>2. NodeTerms' /\ WriteTerms' /\ LegTerms'
    BY <2>1 DEF TermInv, NodeTerms, WriteTerms, LegTerms, Won
  <2>3. AnswerTerms'
    <3> SUFFICES ASSUME NEW v \in Write, state'[v] = "acked",
                        NEW c \in Copies, c # by[v] \/ v \notin early'
                 PROVE  stamp[v].term <= fence[c]
      BY <2>1 DEF AnswerTerms, Refusing
    <3>1. CASE v = w
      <4>1. CASE c # by[w]
        BY <1>0, <2>1, <3>1, <4>1 DEF TermInv, LegTerms
      <4>2. CASE c = by[w]
        <5>1. ~(stamp[w].term > fence[by[w]])
          BY <2>1, <3>1, <4>2
        <5> QED
          BY <1>t, <3>1, <4>2, <5>1
      <4> QED
        BY <4>1, <4>2
    <3>2. CASE v # w
      <4>1. state[v] = "acked" /\ c \in Refusing(v)
        BY <2>1, <3>2 DEF Refusing
      <4> QED
        BY <4>1 DEF TermInv, AnswerTerms
    <3> QED
      BY <3>1, <3>2
  <2> QED
    BY <2>2, <2>3 DEF TermInv
<1>7. ASSUME NEW w \in Write, NEW c \in Copies, Take(w, c)
      PROVE  TermInv'
  <2>0. c \in Node
    BY <1>0
  <2>1. UNCHANGED <<claims, own, lead, held, state, by, stamp, early>>
    BY <1>7 DEF Take
  <2>2. CASE Accept(c, stamp[w].term)
    <3>1. /\ fence'[c] = IF stamp[w].term > fence[c] THEN stamp[w].term ELSE fence[c]
          /\ \A d \in Node \ {c} : fence'[d] = fence[d]
      BY <1>0, <1>7, <2>0, <2>2 DEF Take, RaisedTo, TypeOK
    <3>2. \A v \in Write, d \in Node :
            leg'[v][d] \in {"accepted", "done"} =>
                leg[v][d] \in {"accepted", "done"} \/ (v = w /\ d = c)
      <4>1. leg' = [leg EXCEPT ![w][c] = "accepted"]
        BY <1>7, <2>2 DEF Take
      <4> QED
        BY SMTT(30), <1>0, <2>0, <4>1 DEF TypeOK
    <3>3. \A d \in Node : fence[d] <= fence'[d]
      BY <1>t, <2>0, <3>1
    <3>4. stamp[w].term <= fence'[c]
      BY <1>t, <2>0, <3>1
    <3> QED
      BY <1>0, <2>1, <3>2, <3>3, <3>4, QuietStepTerms
  <2>3. CASE ~Accept(c, stamp[w].term)
    <3>1. UNCHANGED fence
      BY <1>7, <2>3 DEF Take
    <3>2. leg' = [leg EXCEPT ![w][c] = "refused"]
      BY <1>7, <2>3 DEF Take
    <3>3. \A v \in Write, d \in Node :
            leg'[v][d] \in {"accepted", "done"} => leg[v][d] \in {"accepted", "done"}
      BY <1>0, <2>0, <3>2 DEF TypeOK
    <3> QED
      BY <1>0, <1>t, <2>1, <3>1, <3>3, QuietStepTerms
  <2> QED
    BY <2>2, <2>3
<1>8. ASSUME NEW w \in Write, NEW c \in Copies, Apply(w, c)
      PROVE  TermInv'
  <2>1. /\ UNCHANGED <<claims, own, lead, fence, state, by, stamp, early>>
        /\ leg[w][c] = "accepted" /\ leg' = [leg EXCEPT ![w][c] = "done"]
    BY <1>8 DEF Apply
  <2>2. \A v \in Write, d \in Node :
          leg'[v][d] \in {"accepted", "done"} => leg[v][d] \in {"accepted", "done"}
    BY <1>0, <2>1 DEF TypeOK
  <2> QED
    BY <1>0, <1>t, <2>1, <2>2, QuietStepTerms
<1>9. CASE UNCHANGED vars
  <2>1. UNCHANGED <<claims, own, lead, fence, state, by, stamp, leg, early>>
    BY <1>9 DEF vars
  <2> QED
    BY <1>0, <1>t, <2>1, QuietStepTerms
<1> QED
  BY <1>1, <1>2, <1>3, <1>4, <1>5, <1>6, <1>7, <1>8, <1>9 DEF Next
-----------------------------------------------------------------------------
(* WritePath implements Leadership. *)

\* The mapping: the terms the stores kept, and those ordered in.
Kept == [n \in Node |-> held[n].term]
Ordered == {<<by[w], stamp[w].term>> : w \in {v \in Write : state[v] # "new"}}

\* What is shown of the first state is the promise's first state.
LEMMA InitPromise == Init => Promise!Init
<1> SUFFICES ASSUME Init
             PROVE  Promise!Init
  OBVIOUS
<1>1. Kept = [n \in Node |-> 0]
  BY DEF Init, Kept, NoVersion
<1>2. Ordered = {}
  BY DEF Init, Ordered
<1> QED
  BY <1>1, <1>2 DEF Init, Promise!Init, Kept, Ordered

\* What a step that leaves every write in its term, once it has one, shows.
LEMMA OrderedStays ==
    ASSUME TypeOK,
           \A w \in Write : state'[w] # "new" <=> state[w] # "new",
           \A w \in Write : by'[w] = by[w] /\ stamp'[w].term = stamp[w].term
    PROVE  Ordered' = Ordered
BY DEF Ordered

\* Writing a record raises the term its node kept.
LEMMA WriteRaisesKept ==
    ASSUME TypeOK, NEW n \in Node, NEW v \in Versions, WriteRecord(n, v)
    PROVE  Kept' = Promise!Raised(Kept, n, v.term)
<1>1. /\ held'[n].term = IF v.term > held[n].term THEN v.term ELSE held[n].term
      /\ \A c \in Node \ {n} : held'[c] = held[c]
  BY WriteRecordTerm
<1> QED
  BY <1>1 DEF Kept, Promise!Raised

\* A step of one node in one term is one of Leadership's.
LEMMA TermStep ==
    ASSUME NEW n \in Node, NEW t \in 1 .. Len(claims),
           \/ Promise!Hear(n, t) \/ Promise!Order(n, t)
           \/ Promise!Take(n, t) \/ Promise!Keep(n, t)
    PROVE  Promise!Next
<1>1. \E m \in Node, u \in 1 .. Len(claims) :
        Promise!Hear(m, u) \/ Promise!Order(m, u) \/ Promise!Take(m, u) \/ Promise!Keep(m, u)
  <2> WITNESS n \in Node, t \in 1 .. Len(claims)
  <2> QED
    OBVIOUS
<1> QED
  BY <1>1 DEF Promise!Next

\* Every step issues a term, orders in one, takes or keeps a write, restores a
\* fence, or shows nothing.
LEMMA StepPromise == IInv /\ TermInv /\ [Next]_vars => [Promise!Next]_(Promise!vars)
<1> SUFFICES ASSUME IInv, TermInv, [Next]_vars
             PROVE  Promise!Next
  OBVIOUS
<1>0. TypeOK
  BY DEF IInv
<1>t. /\ \A n \in Node : held[n].term \in Nat /\ fence[n] \in Nat /\ lead[n] \in Nat
      /\ \A w \in Write : stamp[w].term \in Nat /\ by[w] \in Node
      /\ Len(claims) \in Nat
  BY <1>0, TermsAreNaturals
<1>s. ASSUME UNCHANGED <<claims, fence, Kept, Ordered>>
      PROVE  Promise!Next
  BY <1>s DEF Promise!Next, Promise!vars, Kept, Ordered
<1>1. ASSUME NEW n \in Node, Claim(n)
      PROVE  Promise!Next
  <2>1. claims' = Append(claims, n) /\ UNCHANGED <<fence, held, by, stamp, state>>
    BY <1>1 DEF Claim
  <2>2. Kept' = Kept /\ Ordered' = Ordered
    BY <2>1 DEF Kept, Ordered
  <2>3. Promise!Issue(n)
    BY <2>1, <2>2 DEF Promise!Issue, Kept, Ordered
  <2> QED
    BY <2>3 DEF Promise!Next
<1>2. ASSUME NEW n \in Node, Raise(n) \/ Lead(n) \/ Unlead(n)
      PROVE  Promise!Next
  <2>1. CASE Raise(n)
    <3>1. PICK t \in own[n] : fence' = RaisedTo(fence, n, t)
      BY <2>1 DEF Raise
    <3>2. t \in 1 .. Len(claims) /\ claims[t] = n
      BY DEF TermInv, NodeTerms, Won
    <3>3. fence' = Promise!Raised(fence, n, t)
      BY <3>1 DEF RaisedTo, Promise!Raised
    <3>4. UNCHANGED <<claims, Kept, Ordered>>
      BY <2>1 DEF Raise, Kept, Ordered
    <3>5. Promise!Hear(n, t)
      BY <3>2, <3>3, <3>4 DEF Promise!Hear, Kept, Ordered
    <3> QED
      BY <3>2, <3>5, TermStep
  <2>2. CASE Lead(n) \/ Unlead(n)
    BY <2>2, <1>s DEF Lead, Unlead, Kept, Ordered
  <2> QED
    BY <1>2, <2>1, <2>2
<1>3. ASSUME NEW n \in Node, Restart(n)
      PROVE  Promise!Next
  <2>1. \A w \in Write : state'[w] # "new" <=> state[w] # "new"
    BY <1>0, <1>3 DEF Restart, TypeOK
  <2>2. UNCHANGED <<claims, held, by, stamp>>
    BY <1>3 DEF Restart
  <2>3. Ordered' = Ordered /\ Kept' = Kept
    BY <1>0, <2>1, <2>2, OrderedStays DEF Kept
  <2>4. fence' = [fence EXCEPT ![n] = Kept[n]]
    BY <1>3 DEF Restart, RestoredFence, Kept
  <2>5. Promise!Restore(n)
    BY <2>2, <2>3, <2>4 DEF Promise!Restore, Kept, Ordered
  <2> QED
    BY <2>5 DEF Promise!Next
<1>4. ASSUME NEW w \in Write, NEW n \in Node, Route(w, n)
      PROVE  Promise!Next
  <2>1. /\ lead[n] # 0 /\ state[w] = "new"
        /\ state'[w] = "led" /\ by'[w] = n /\ stamp'[w].term = lead[n]
        /\ \A v \in Write \ {w} :
             state'[v] = state[v] /\ by'[v] = by[v] /\ stamp'[v] = stamp[v]
        /\ UNCHANGED <<claims, fence, held>>
    BY <1>0, <1>4 DEF Route, TypeOK, Versions
  <2>2. lead[n] \in 1 .. Len(claims) /\ claims[lead[n]] = n
    BY <2>1 DEF TermInv, NodeTerms, Won
  <2>3. Ordered' = Ordered \cup {<<n, lead[n]>>}
    <3>1. Ordered' \subseteq Ordered \cup {<<n, lead[n]>>}
      BY <2>1 DEF Ordered
    <3>2. \A v \in Write : state[v] # "new" => <<by[v], stamp[v].term>> \in Ordered'
      BY <2>1 DEF Ordered
    <3>3. Ordered \subseteq Ordered'
      BY <3>2 DEF Ordered
    <3>4. <<n, lead[n]>> \in Ordered'
      BY <2>1 DEF Ordered
    <3> QED
      BY <3>1, <3>3, <3>4
  <2>4. Kept' = Kept
    BY <2>1 DEF Kept
  <2>5. PICK t \in 1 .. Len(claims) : t = lead[n]
    BY <2>2
  <2>6. Promise!Order(n, t)
    BY <2>1, <2>2, <2>3, <2>4, <2>5 DEF Promise!Order, Kept, Ordered
  <2> QED
    BY <2>6, TermStep
<1>5. ASSUME NEW w \in Write, Stamp(w) \/ Ack(w) \/ Refuse(w)
      PROVE  Promise!Next
  <2>1. UNCHANGED <<claims, fence, held, by>>
    BY <1>5 DEF Stamp, Ack, Refuse
  <2>2. \A v \in Write : stamp'[v].term = stamp[v].term
    <3>1. CASE Stamp(w)
      <4>1. stamp' = [stamp EXCEPT ![w] = [stamp[w] EXCEPT !.count = count[by[w]] + 1]]
        BY <3>1 DEF Stamp
      <4>2. stamp[w] \in Versions /\ stamp'[w].term = stamp[w].term
        BY <1>0, <4>1 DEF TypeOK, Versions
      <4> QED
        BY <1>0, <4>1, <4>2 DEF TypeOK
    <3>2. CASE Ack(w) \/ Refuse(w)
      BY <3>2 DEF Ack, Refuse
    <3> QED
      BY <1>5, <3>1, <3>2
  <2>3. \A v \in Write : state'[v] # "new" <=> state[v] # "new"
    BY <1>0, <1>5 DEF Stamp, Ack, Refuse, TypeOK
  <2>4. Ordered' = Ordered /\ Kept' = Kept
    BY <1>0, <2>1, <2>2, <2>3, OrderedStays DEF Kept
  <2> QED
    BY <1>s, <2>1, <2>4
<1>6. ASSUME NEW w \in Write, WriteOwn(w)
      PROVE  Promise!Next
  <2>1. UNCHANGED <<claims, fence, by, stamp>> /\ state[w] = "stamped"
    BY <1>6 DEF WriteOwn
  <2>2. \A v \in Write : state'[v] # "new" <=> state[v] # "new"
    BY <1>0, <1>6 DEF WriteOwn, TypeOK
  <2>3. Ordered' = Ordered
    BY <1>0, <2>1, <2>2, OrderedStays
  <2>4. CASE by[w] \in Copies
    <3>1. stamp[w] \in Versions /\ by[w] \in Node /\ WriteRecord(by[w], stamp[w])
      BY <1>0, <1>6, <2>4 DEF WriteOwn, TypeOK
    <3>2. Kept' = Promise!Raised(Kept, by[w], stamp[w].term)
      BY <1>0, <3>1, WriteRaisesKept
    <3>3. /\ stamp[w].term \in 1 .. Len(claims) /\ claims[stamp[w].term] = by[w]
          /\ <<by[w], stamp[w].term>> \in Ordered
      BY <2>1 DEF TermInv, WriteTerms, Won, Ordered
    <3>4. Ordered' = Ordered \cup {<<by[w], stamp[w].term>>}
      BY <2>3, <3>3
    <3>5. PICK n \in Node, t \in 1 .. Len(claims) : n = by[w] /\ t = stamp[w].term
      BY <3>1, <3>3
    <3>6. Promise!Order(n, t)
      BY <2>1, <3>2, <3>3, <3>4, <3>5 DEF Promise!Order, Kept, Ordered
    <3> QED
      BY <3>6, TermStep
  <2>5. CASE by[w] \notin Copies
    <3>1. Kept' = Kept
      BY <1>6, <2>5 DEF WriteOwn, Kept
    <3> QED
      BY <1>s, <2>1, <2>3, <3>1
  <2> QED
    BY <2>4, <2>5
<1>7. ASSUME NEW w \in Write, NEW c \in Copies, Take(w, c)
      PROVE  Promise!Next
  <2>0. c \in Node
    BY WritePathAssumption
  <2>1. /\ UNCHANGED <<claims, held, state, by, stamp>>
        /\ leg[w][c] # "none"
    BY <1>7 DEF Take
  <2>2. Ordered' = Ordered /\ Kept' = Kept
    BY <2>1 DEF Ordered, Kept
  <2>3. CASE Accept(c, stamp[w].term)
    <3>1. state[w] # "new"
      BY <2>0, <2>1 DEF IInv, LegInv
    <3>2. /\ stamp[w].term \in 1 .. Len(claims)
          /\ <<by[w], stamp[w].term>> \in Ordered /\ by[w] \in Node
      BY <1>t, <3>1 DEF TermInv, WriteTerms, Won, Ordered
    <3>3. fence' = Promise!Raised(fence, c, stamp[w].term)
      BY <1>0, <1>7, <2>0, <2>3 DEF Take, RaisedTo, Promise!Raised, TypeOK
    <3>4. PICK t \in 1 .. Len(claims) : t = stamp[w].term
      BY <3>2
    <3>5. Promise!Take(c, t)
      BY <2>1, <2>2, <2>3, <3>2, <3>3, <3>4 DEF Promise!Take, Accept, Kept, Ordered
    <3> QED
      BY <2>0, <3>5, TermStep
  <2>4. CASE ~Accept(c, stamp[w].term)
    BY <1>7, <1>s, <2>1, <2>2, <2>4 DEF Take
  <2> QED
    BY <2>3, <2>4
<1>8. ASSUME NEW w \in Write, NEW c \in Copies, Apply(w, c)
      PROVE  Promise!Next
  <2>0. c \in Node /\ stamp[w] \in Versions
    BY <1>0, WritePathAssumption DEF TypeOK
  <2>1. /\ UNCHANGED <<claims, fence, state, by, stamp>>
        /\ leg[w][c] = "accepted" /\ WriteRecord(c, stamp[w])
    BY <1>8 DEF Apply
  <2>2. Ordered' = Ordered
    BY <2>1 DEF Ordered
  <2>3. Kept' = Promise!Raised(Kept, c, stamp[w].term)
    BY <1>0, <2>0, <2>1, WriteRaisesKept
  <2>4. state[w] # "new" /\ stamp[w].term <= fence[c]
    BY <2>0, <2>1 DEF IInv, LegInv, TermInv, LegTerms
  <2>5. /\ stamp[w].term \in 1 .. Len(claims)
        /\ <<by[w], stamp[w].term>> \in Ordered /\ by[w] \in Node
    BY <1>t, <2>4 DEF TermInv, WriteTerms, Won, Ordered
  <2>6. PICK t \in 1 .. Len(claims) : t = stamp[w].term
    BY <2>5
  <2>7. Promise!Keep(c, t)
    BY <2>1, <2>2, <2>3, <2>4, <2>5, <2>6 DEF Promise!Keep, Kept, Ordered
  <2> QED
    BY <2>0, <2>7, TermStep
<1>9. CASE UNCHANGED vars
  BY <1>9, <1>s DEF vars, Kept, Ordered
<1> QED
  BY <1>1, <1>2, <1>3, <1>4, <1>5, <1>6, <1>7, <1>8, <1>9 DEF Next

\* The write path implements Leadership, for any nodes, copies and writes and
\* however many terms and counts there are: route_record orders only in a term
\* leader() answered, apply_write takes nothing older than the fence, and a
\* process that starts again is fenced by what it kept.
THEOREM WritesKeepThePromise == Spec => PromiseKept
<1>1. Init => IInv /\ TermInv
  BY InitInv, InitTerms
<1>2. IInv /\ TermInv /\ [Next]_vars => (IInv /\ TermInv)'
  BY StepInv, StepTerms
<1> QED
  BY <1>1, <1>2, InitPromise, StepPromise, PTL DEF Spec, PromiseKept, Promise!Spec
-----------------------------------------------------------------------------
(* Writes asked for after an answer are the later ones. *)

\* A stamp has no count before it is complete, and a node no count behind one
\* it handed out.
CountInv ==
    \A w \in Write :
        /\ state[w] \in {"new", "led"} => stamp[w].count = 0
        /\ stamp[w].count <= count[by[w]]

\* What was answered for stays answered for.
AfterAcked == \A w \in Write : \A v \in after[w] : state[v] = "acked"

\* No copy that refuses what is older than an answered write takes one of an
\* older term that was asked for after it.
NoOlderLeg ==
    \A w \in Write : \A v \in after[w] :
        stamp[w].term < stamp[v].term =>
            \A c \in Refusing(v) : leg[w][c] \notin {"accepted", "done"}

\* Two writes of one term are of one node, whose counts rise.
CountsRise ==
    \A w \in Write : \A v \in after[w] :
        (stamp[w].term = stamp[v].term /\ state[w] \in {"stamped", "sent", "acked"}) =>
            stamp[w].count > stamp[v].count

OrderInv == CountInv /\ AfterAcked /\ NoOlderLeg /\ CountsRise /\ RealTimeOrder

\* At first no write was asked for, so none is out of order.
LEMMA InitOrder == Init => OrderInv
<1> SUFFICES ASSUME Init
             PROVE  OrderInv
  OBVIOUS
<1>1. CountInv
  BY FirstNode DEF Init, CountInv, NoVersion
<1> QED
  BY <1>1 DEF Init, OrderInv, AfterAcked, NoOlderLeg, CountsRise, RealTimeOrder

\* A step that stamps, routes and answers for nothing, and after which no copy
\* has taken what it had not.
LEMMA QuietStepOrder ==
    ASSUME TypeOK, OrderInv,
           UNCHANGED <<by, stamp, after, count, early>>,
           \A v \in Write : state'[v] = "acked" <=> state[v] = "acked",
           \A v \in Write : state'[v] \in {"new", "led"} => state[v] \in {"new", "led"},
           \A v \in Write : state'[v] \in {"stamped", "sent"} =>
                              state[v] \in {"stamped", "sent"},
           \A v \in Write, c \in Copies :
             leg'[v][c] \in {"accepted", "done"} => leg[v][c] \in {"accepted", "done"}
    PROVE  OrderInv'
<1>0. \A w \in Write : after[w] \subseteq Write
  BY DEF TypeOK
<1>1. CountInv'
  BY DEF OrderInv, CountInv
<1>2. AfterAcked'
  BY <1>0 DEF OrderInv, AfterAcked
<1>3. NoOlderLeg'
  BY DEF OrderInv, NoOlderLeg, Refusing
<1>4. CountsRise'
  <2>1. \A v \in Write : state'[v] \in {"stamped", "sent", "acked"} =>
                           state[v] \in {"stamped", "sent", "acked"}
    OBVIOUS
  <2> QED
    BY <2>1 DEF OrderInv, CountsRise
<1>5. RealTimeOrder'
  BY DEF OrderInv, RealTimeOrder, Refusing, IsNewer
<1> QED
  BY <1>1, <1>2, <1>3, <1>4, <1>5 DEF OrderInv

\* Every step keeps the order of the writes.
LEMMA StepOrder ==
    ASSUME IInv, TermInv, OrderInv, [Next]_vars
    PROVE  OrderInv'
<1>0. TypeOK
  BY DEF IInv
<1>t. /\ \A n \in Node : held[n].term \in Nat /\ fence[n] \in Nat /\ count[n] \in Nat
      /\ \A w \in Write : /\ stamp[w].term \in Nat /\ stamp[w].count \in Nat
                          /\ by[w] \in Node /\ after[w] \subseteq Write
  <2>1. \A w \in Write : stamp[w] \in Versions /\ by[w] \in Node /\ after[w] \subseteq Write
    BY <1>0 DEF TypeOK
  <2>2. \A n \in Node : count[n] \in Nat
    BY <1>0, WritePathAssumption DEF TypeOK
  <2> QED
    BY <1>0, <2>1, <2>2, VersionsAreNaturals, TermsAreNaturals
<1>1. ASSUME NEW n \in Node, Claim(n) \/ Raise(n) \/ Lead(n) \/ Unlead(n)
      PROVE  OrderInv'
  <2>1. UNCHANGED <<by, stamp, after, count, state, leg, early>>
    BY <1>1 DEF Claim, Raise, Lead, Unlead
  <2> QED
    BY <1>0, <2>1, QuietStepOrder
<1>2. ASSUME NEW n \in Node, Restart(n)
      PROVE  OrderInv'
  <2>1. UNCHANGED <<by, stamp, after, count, early>>
    BY <1>2 DEF Restart
  <2>2. \A v \in Write : state'[v] = state[v] \/
                           (state[v] \in {"led", "stamped", "sent"} /\ state'[v] = "refused")
    BY <1>2 DEF Restart
  <2>3. \A v \in Write, c \in Node : leg'[v][c] = leg[v][c] \/ leg'[v][c] = "refused"
    BY <1>0, <1>2 DEF Restart, TypeOK
  <2>4. \A v \in Write, c \in Copies :
          leg'[v][c] \in {"accepted", "done"} => leg[v][c] \in {"accepted", "done"}
    BY <2>3, WritePathAssumption
  <2> QED
    BY <1>0, <2>1, <2>2, <2>4, QuietStepOrder
<1>3. ASSUME NEW w \in Write, NEW n \in Node, Route(w, n)
      PROVE  OrderInv'
  <2>1. /\ state[w] = "new" /\ state'[w] = "led" /\ by'[w] = n
        /\ stamp'[w].count = stamp[w].count
        /\ after'[w] = {v \in Write : state[v] = "acked"}
        /\ \A v \in Write \ {w} : /\ state'[v] = state[v] /\ by'[v] = by[v]
                                  /\ stamp'[v] = stamp[v] /\ after'[v] = after[v]
        /\ UNCHANGED <<count, leg, early>>
    BY <1>0, <1>3 DEF Route, TypeOK, Versions
  <2>2. CountInv'
    BY <1>t, <2>1 DEF OrderInv, CountInv
  <2>3. \A v \in Write : w \notin after[v]
    BY <2>1 DEF OrderInv, AfterAcked
  <2>4. AfterAcked'
    BY <1>t, <2>1, <2>3 DEF OrderInv, AfterAcked
  <2>5. \A c \in Copies : leg[w][c] = "none"
    BY <2>1, WritePathAssumption DEF IInv, LegInv
  <2>6. NoOlderLeg'
    <3>1. \A v \in Write \ {w} : Refusing(v)' = Refusing(v)
      BY <2>1 DEF Refusing
    <3>2. Refusing(w)' \subseteq Copies
      BY DEF Refusing
    <3>3. \A v \in Write : \A c \in Refusing(v)' : c \in Copies
      BY <3>2 DEF Refusing
    <3> SUFFICES ASSUME NEW x \in Write, NEW v \in after'[x],
                        stamp'[x].term < stamp'[v].term, NEW c \in Refusing(v)'
                 PROVE  leg[x][c] \notin {"accepted", "done"}
      BY <2>1 DEF NoOlderLeg
    <3>4. v \in Write /\ v # w
      BY <1>t, <2>1, <2>3
    <3>5. CASE x = w
      BY <2>5, <3>3, <3>4, <3>5
    <3>6. CASE x # w
      BY <2>1, <3>1, <3>4, <3>6 DEF OrderInv, NoOlderLeg
    <3> QED
      BY <3>5, <3>6
  <2>7. CountsRise'
    BY <1>t, <2>1, <2>3 DEF OrderInv, CountsRise
  <2>8. RealTimeOrder'
    BY <1>t, <2>1, <2>3 DEF OrderInv, RealTimeOrder, Refusing, IsNewer
  <2> QED
    BY <2>2, <2>4, <2>6, <2>7, <2>8 DEF OrderInv
<1>4. ASSUME NEW w \in Write, Stamp(w)
      PROVE  OrderInv'
  <2> DEFINE n == by[w]
  <2>1. /\ state[w] = "led" /\ state'[w] = "stamped" /\ n \in Node
        /\ stamp'[w].count = count[n] + 1 /\ stamp'[w].term = stamp[w].term
        /\ count'[n] = count[n] + 1
        /\ \A m \in Node \ {n} : count'[m] = count[m]
        /\ \A v \in Write \ {w} : state'[v] = state[v] /\ stamp'[v] = stamp[v]
        /\ UNCHANGED <<by, leg, after, early>>
    BY <1>0, <1>4 DEF Stamp, TypeOK, Versions
  <2>2. \A m \in Node : count[m] <= count'[m] /\ count'[m] \in Nat
    BY <1>t, <2>1
  <2>3. CountInv'
    <3>1. ASSUME NEW v \in Write \ {w}
          PROVE  stamp'[v].count <= count'[by[v]]
      BY <1>t, <2>1, <2>2 DEF OrderInv, CountInv
    <3>2. stamp'[w].count <= count'[by[w]]
      BY <1>t, <2>1
    <3> QED
      BY <2>1, <3>1, <3>2 DEF OrderInv, CountInv
  <2>4. \A v \in Write : w \notin after[v]
    BY <2>1 DEF OrderInv, AfterAcked
  <2>5. AfterAcked'
    BY <1>t, <2>1, <2>4 DEF OrderInv, AfterAcked
  <2>6. NoOlderLeg'
    BY <1>t, <2>1, <2>4 DEF OrderInv, NoOlderLeg, Refusing
  <2>7. CountsRise'
    <3>1. ASSUME NEW v \in after[w], stamp[w].term = stamp[v].term
          PROVE  count[n] + 1 > stamp[v].count
      <4>1. v \in Write /\ state[v] = "acked"
        BY <1>t DEF OrderInv, AfterAcked
      <4>2. by[v] = n
        BY <2>1, <3>1, <4>1 DEF TermInv, WriteTerms, Won
      <4>3. stamp[v].count <= count[n]
        BY <4>1, <4>2 DEF OrderInv, CountInv
      <4> QED
        BY <1>t, <2>1, <4>1, <4>3
    <3>2. ASSUME NEW v \in after[w], stamp'[w].term = stamp'[v].term
          PROVE  stamp'[w].count > stamp'[v].count
      <4>1. v \in Write \ {w}
        BY <1>t, <2>4
      <4> QED
        BY <2>1, <3>1, <3>2, <4>1
    <3>3. ASSUME NEW x \in Write \ {w}, NEW v \in after[x],
                 stamp'[x].term = stamp'[v].term, state'[x] \in {"stamped", "sent", "acked"}
          PROVE  stamp'[x].count > stamp'[v].count
      <4>1. v \in Write \ {w}
        BY <1>t, <2>4
      <4> QED
        BY <2>1, <3>3, <4>1 DEF OrderInv, CountsRise
    <3> QED
      BY <2>1, <3>2, <3>3 DEF CountsRise
  <2>8. RealTimeOrder'
    BY <1>t, <2>1, <2>4 DEF OrderInv, RealTimeOrder, Refusing, IsNewer
  <2> QED
    BY <2>3, <2>5, <2>6, <2>7, <2>8 DEF OrderInv
<1>5. ASSUME NEW w \in Write, WriteOwn(w)
      PROVE  OrderInv'
  <2>1. /\ UNCHANGED <<by, stamp, after, count, early>>
        /\ state[w] = "stamped" /\ state'[w] = "sent"
        /\ \A v \in Write \ {w} : state'[v] = state[v]
    BY <1>0, <1>5 DEF WriteOwn, TypeOK
  <2>2. \A v \in Write, c \in Node :
          leg'[v][c] \in {"accepted", "done"} => leg[v][c] \in {"accepted", "done"}
    BY <1>0, <1>5 DEF WriteOwn, TypeOK
  <2>3. \A v \in Write, c \in Copies :
          leg'[v][c] \in {"accepted", "done"} => leg[v][c] \in {"accepted", "done"}
    BY <2>2, WritePathAssumption
  <2> QED
    BY <1>0, <2>1, <2>3, QuietStepOrder
<1>6. ASSUME NEW w \in Write, Refuse(w)
      PROVE  OrderInv'
  <2>1. /\ UNCHANGED <<by, stamp, after, count, leg, early>>
        /\ state[w] = "sent" /\ state'[w] = "refused"
        /\ \A v \in Write \ {w} : state'[v] = state[v]
    BY <1>0, <1>6 DEF Refuse, TypeOK
  <2> QED
    BY <1>0, <2>1, QuietStepOrder
<1>7. ASSUME NEW w \in Write, Ack(w)
      PROVE  OrderInv'
  <2>1. /\ UNCHANGED <<by, stamp, after, count, leg>>
        /\ state[w] = "sent" /\ state'[w] = "acked"
        /\ \A v \in Write \ {w} : state'[v] = state[v]
        /\ early' \subseteq early \cup {w} /\ early \subseteq early'
    BY <1>0, <1>7 DEF Ack, TypeOK
  \* Nothing was asked for after w was answered, so what it leaves refusing
  \* others matters to nobody yet.
  <2>2. \A x \in Write : \A v \in after[x] : v # w /\ Refusing(v)' = Refusing(v)
    <3>1. \A x \in Write : \A v \in after[x] : v # w
      BY <2>1 DEF OrderInv, AfterAcked
    <3> QED
      BY <2>1, <3>1 DEF Refusing
  <2>3. \A c \in Copies \ {by[w]} : leg[w][c] = "done"
    BY <1>7 DEF Ack, Answered
  <2>4. ASSUME NEW v \in after[w], NEW c \in Refusing(v), c # by[w]
        PROVE  IsNewer(stamp[w], stamp[v])
    <3>1. leg[w][c] = "done"
      BY <2>3, <2>4 DEF Refusing
    <3>2. ~(stamp[w].term < stamp[v].term)
      BY <3>1 DEF OrderInv, NoOlderLeg
    <3>3. stamp[w].term = stamp[v].term => stamp[w].count > stamp[v].count
      BY <2>1 DEF OrderInv, CountsRise
    <3> QED
      BY <1>t, <3>2, <3>3 DEF IsNewer
  <2>5. RealTimeOrder'
    <3> SUFFICES ASSUME NEW x \in Write, state'[x] = "acked", NEW v \in after[x],
                        NEW c \in Refusing(v), c # by[x]
                 PROVE  IsNewer(stamp[x], stamp[v])
      BY <2>1, <2>2 DEF RealTimeOrder, IsNewer
    <3>1. CASE x = w
      BY <2>4, <3>1
    <3>2. CASE x # w
      BY <2>1, <3>2 DEF OrderInv, RealTimeOrder
    <3> QED
      BY <3>1, <3>2
  <2>6. CountInv' /\ AfterAcked' /\ NoOlderLeg'
    BY <1>t, <2>1, <2>2 DEF OrderInv, CountInv, AfterAcked, NoOlderLeg
  <2>7. CountsRise'
    BY <2>1 DEF OrderInv, CountsRise
  <2> QED
    BY <2>5, <2>6, <2>7 DEF OrderInv
<1>8. ASSUME NEW w \in Write, NEW c \in Copies, Take(w, c)
      PROVE  OrderInv'
  <2>0. c \in Node
    BY WritePathAssumption
  <2>1. UNCHANGED <<by, stamp, after, count, state, early>>
    BY <1>8 DEF Take
  <2>2. CASE Accept(c, stamp[w].term)
    <3>1. \A v \in Write, d \in Copies :
            leg'[v][d] \in {"accepted", "done"} =>
                leg[v][d] \in {"accepted", "done"} \/ (v = w /\ d = c)
      <4>1. leg' = [leg EXCEPT ![w][c] = "accepted"]
        BY <1>8, <2>2 DEF Take
      <4> QED
        BY SMTT(30), <1>0, <2>0, <4>1, WritePathAssumption DEF TypeOK
    <3>2. ASSUME NEW v \in after[w], c \in Refusing(v)
          PROVE  ~(stamp[w].term < stamp[v].term)
      <4>1. v \in Write /\ state[v] = "acked"
        BY <1>t DEF OrderInv, AfterAcked
      <4>2. stamp[v].term <= fence[c] /\ fence[c] <= stamp[w].term
        BY <2>2, <3>2, <4>1 DEF TermInv, AnswerTerms, Accept
      <4> QED
        BY <1>t, <2>0, <4>1, <4>2
    <3>3. NoOlderLeg'
      <4> SUFFICES ASSUME NEW x \in Write, NEW v \in after[x],
                          stamp[x].term < stamp[v].term, NEW d \in Refusing(v)
                   PROVE  leg'[x][d] \notin {"accepted", "done"}
        BY <2>1 DEF NoOlderLeg, Refusing
      <4>1. leg[x][d] \notin {"accepted", "done"} /\ d \in Copies
        BY DEF OrderInv, NoOlderLeg, Refusing
      <4>2. ~(x = w /\ d = c)
        BY <3>2
      <4> QED
        BY <3>1, <4>1, <4>2
    <3> QED
      BY <2>1, <3>3
         DEF OrderInv, CountInv, AfterAcked, CountsRise, RealTimeOrder, Refusing, IsNewer
  <2>3. CASE ~Accept(c, stamp[w].term)
    <3>1. leg' = [leg EXCEPT ![w][c] = "refused"]
      BY <1>8, <2>3 DEF Take
    <3>2. \A v \in Write, d \in Copies :
            leg'[v][d] \in {"accepted", "done"} => leg[v][d] \in {"accepted", "done"}
      BY <1>0, <2>0, <3>1, WritePathAssumption DEF TypeOK
    <3> QED
      BY <1>0, <2>1, <3>2, QuietStepOrder
  <2> QED
    BY <2>2, <2>3
<1>9. ASSUME NEW w \in Write, NEW c \in Copies, Apply(w, c)
      PROVE  OrderInv'
  <2>1. /\ UNCHANGED <<by, stamp, after, count, state, early>>
        /\ leg[w][c] = "accepted" /\ leg' = [leg EXCEPT ![w][c] = "done"]
    BY <1>9 DEF Apply
  <2>2. \A v \in Write, d \in Copies :
          leg'[v][d] \in {"accepted", "done"} => leg[v][d] \in {"accepted", "done"}
    BY <1>0, <2>1, WritePathAssumption DEF TypeOK
  <2> QED
    BY <1>0, <2>1, <2>2, QuietStepOrder
<1>10. CASE UNCHANGED vars
  BY <1>0, <1>10, QuietStepOrder DEF vars
<1> QED
  BY <1>1, <1>2, <1>3, <1>4, <1>5, <1>6, <1>7, <1>8, <1>9, <1>10 DEF Next

\* A write routed after another was answered for is the later of the two, for
\* any nodes, copies, writes and bounds, wherever a copy that refuses what is
\* older had to take it.  lead_write asks accept() for no word about its own
\* copy, and a thread that leads beside the one that made the claim (leader(),
\* create() answered held = false) raises no fence: what is left out is a write
\* ordered by the only node that holds such a copy.
THEOREM AnswersAreInOrder == Spec => []RealTimeOrder
<1>1. Init => IInv /\ TermInv /\ OrderInv
  BY InitInv, InitTerms, InitOrder
<1>2. (IInv /\ TermInv /\ OrderInv) /\ [Next]_vars => (IInv /\ TermInv /\ OrderInv)'
  <2> SUFFICES ASSUME IInv, TermInv, OrderInv, [Next]_vars
               PROVE  (IInv /\ TermInv /\ OrderInv)'
    OBVIOUS
  <2> QED
    BY StepInv, StepTerms, StepOrder
<1>3. OrderInv => RealTimeOrder
  BY DEF OrderInv
<1> QED
  BY <1>1, <1>2, <1>3, PTL DEF Spec
=============================================================================
