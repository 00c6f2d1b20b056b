---------------------------- MODULE EtcdCluster ----------------------------
(***************************************************************************)
(* How a node knows the membership and who leads a partition               *)
(* (cluster/etcd_cluster.cpp over etcd/etcd_client.cpp), for one           *)
(* partition.                                                              *)
(*                                                                         *)
(* A node registers itself in etcd on a lease.  Its membership thread      *)
(* makes a pass over and over (refresh): renew the lease, read the         *)
(* registrations, read the claims, and claim or give up what the placement *)
(* says.  A partition is led by the node whose claim is in etcd; the       *)
(* revision that created the claim is the term, and a copy refuses a write *)
(* in a term older than the newest it has seen.  Request threads ask       *)
(* leader() who leads, and may claim an unclaimed partition themselves.    *)
(*                                                                         *)
(* etcd's revisions count every change of every key; the model counts the  *)
(* claims of this partition alone, which keeps their order and no more.    *)
(* Time is left out: a key may lapse at any step, and the tick     *)
(* between marking a claim and giving it up is any time at all.            *)
(***************************************************************************)
EXTENDS Partition, Integers

CONSTANTS
    P,          \* the partition
    Thread,     \* request threads that may be inside leader()
    Host,       \* Host[t]: the node a thread belongs to
    MaxTerm,    \* bound: claims ever created
    Worlds      \* what a behaviour may start in: what may go wrong in it, and
                \* whether that is orderly; the nodes that stay registered and
                \* otherwise do nothing; how many claims it may create

\* "silent":  etcd does not answer a call, and did not carry it out
\* "lost":    etcd applies a transaction and its answer is lost, or comes from
\*            the next endpoint the call was repeated at
\* "reboot":  a process ends and is started again once its claim has gone
\* "restart": a process is killed and started again before its lease ran out
\* "slow":    a lease runs out, or a claim is given up, while an answer that
\*            read the claim is on its way to the node holding it
\* "race":    the membership thread reads the claim while a request thread of
\*            the same node waits to hear that it created it
FaultKinds == {"silent", "lost", "reboot", "restart", "slow", "race"}

\* The ones that may let a node take an older term for its claim's.  The others
\* leave a read of the claim and the newest term seen in step.
Disorder == {"lost", "restart", "slow", "race"}

ASSUME ClusterAssumption ==
    /\ 0 \notin Node
    /\ P \in Part
    /\ Worlds \subseteq [faults : SUBSET FaultKinds, quiet : SUBSET Node,
                        claims : 0 .. MaxTerm, orderly : BOOLEAN]
    /\ \A w \in Worlds : w.orderly = (w.faults \cap Disorder = {})
    /\ Host \in [Thread -> Node]
    /\ \A w \in Worlds, t \in Thread : Host[t] \notin w.quiet
    /\ MaxTerm \in Nat

NoNode == 0             \* the empty name
MaybeNode == Node \cup {NoNode}

VARIABLES
    world,      \* the one of Worlds this behaviour is in, which never changes
    \* etcd
    registered, \* the nodes whose registration is there
    claims,     \* claims[t]: the node that created the claim of term t
    claim,      \* the holder of the claim there is now, NoNode for none
    \* each node, in memory
    leased,     \* whether the node holds a lease as far as it knows
    members,    \* the membership it last read
    answered,   \* whether etcd answered the last read of it
    leader,     \* leader_list for this partition
    terms,      \* the newest term seen, the fence
    releasing,  \* the claim was found to be another node's to make
    pass,       \* the membership thread
    call,       \* each request thread inside leader()
    \* each node, on disk
    stored,     \* the newest term of a record written to its store
    \* history
    ordered     \* <<n, t>>: node n has stamped a write in term t

Faults == world.faults
Quiet == world.quiet

etcd == <<world, registered, claims, claim>>
vars == <<world, registered, claims, claim, leased, members, answered, leader, terms,
          releasing, pass, call, stored, ordered>>

NoLead == [node |-> NoNode, term |-> 0]
NoAnswer == [held |-> FALSE, node |-> NoNode, term |-> 0]
IdlePass == [at |-> "idle", seen |-> NoNode, answer |-> NoAnswer]
IdleCall == [at |-> "idle", answer |-> NoAnswer]

Term == 0 .. MaxTerm
Answer == [held : BOOLEAN, node : MaybeNode, term : Term]
Lead == [node : MaybeNode, term : Term]

TypeOK ==
    /\ world \in Worlds
    /\ registered \subseteq Node
    /\ claims \in Seq(Node)
    /\ claim \in MaybeNode
    /\ leased \in [Node -> BOOLEAN]
    /\ members \in [Node -> SUBSET Node]
    /\ answered \in [Node -> BOOLEAN]
    /\ leader \in [Node -> Lead]
    /\ terms \in [Node -> Term]
    /\ releasing \in [Node -> BOOLEAN]
    /\ pass \in [Node -> [at : {"idle", "leaders", "decide", "release",
                                "claim", "store"},
                          seen : MaybeNode, answer : Answer]]
    /\ call \in [Thread -> [at : {"idle", "held", "create", "claim"},
                            answer : Answer]]
    /\ stored \in [Node -> Term]
    /\ ordered \subseteq Node \X Term

Init ==
    /\ world \in Worlds
    /\ registered = Quiet
    /\ claims = <<>>
    /\ claim = NoNode
    /\ leased = [n \in Node |-> FALSE]
    /\ members = [n \in Node |-> {}]
    /\ answered = [n \in Node |-> FALSE]
    /\ leader = [n \in Node |-> NoLead]
    /\ terms = [n \in Node |-> 0]
    /\ releasing = [n \in Node |-> FALSE]
    /\ pass = [n \in Node |-> IdlePass]
    /\ call = [t \in Thread |-> IdleCall]
    /\ stored = [n \in Node |-> 0]
    /\ ordered = {}
-----------------------------------------------------------------------------
(* The terms of a node. *)

Larger(a, b) == IF a > b THEN a ELSE b

\* Mutants of RaiseTerm: the raise is forgotten; it goes one too far.
RaiseForgotten(seen, term) == seen
RaiseTooFar(seen, term) == Larger(seen, term + 1)

\* raise_term, as what it leaves behind.  It answers whether the term was no
\* older than what was there.
RaiseTerm(seen, term) == Larger(seen, term)

\* term_of: the term to lead in, once a read says who holds the claim.  What
\* etcd answers is the holder alone, so it is the newest term seen here.
TermOf(n, holder) == IF holder = n THEN terms[n] ELSE 0

\* Mutant of RestoredTerm: a node starts with no fence at all.
RestoredNothing(n) == 0

\* restore_terms: the fence a process starts with, from what its store holds.
RestoredTerm(n) == stored[n]

\* should_lead
ShouldLead(n) == OwnerOf(P, members[n]) = n
-----------------------------------------------------------------------------
(* etcd, as the client sees it.  A call that is not answered changes        *)
(* nothing here unless an action says otherwise.                            *)

\* The create transaction of node n, and the answer a the client makes of it:
\* the claim is made if there is none, and read back otherwise.  On a lease that
\* has run out it is refused, which the client does not tell from no answer.
CreateTxn(n, a) ==
    \/ /\ claim = NoNode
       /\ Len(claims) < world.claims
       /\ claim' = n
       /\ claims' = Append(claims, n)
       /\ LET term == Len(claims) + 1
              made == [held |-> TRUE, node |-> n, term |-> term]
              again == [held |-> FALSE, node |-> n, term |-> term]
          IN  \/ a = made
              \/ "lost" \in Faults /\ a \in {NoAnswer, again}
    \/ /\ claim # NoNode
       /\ a = [held |-> FALSE, node |-> claim, term |-> Len(claims)]
       /\ UNCHANGED <<claim, claims>>
    \/ /\ a = NoAnswer
       /\ UNCHANGED <<claim, claims>>

\* Answers that read the claim of node n as its own, on their way to it.
ReadOnItsWay(n) ==
    \/ pass[n].at \in {"decide", "release"} /\ pass[n].seen = n
    \/ \E t \in Thread : Host[t] = n /\ call[t].at = "held"

\* Creates of node n not answered yet.
CreateOnItsWay(n) ==
    \/ pass[n].at = "claim"
    \/ \E t \in Thread : Host[t] = n /\ call[t].at = "claim"

\* The terms of the claims node n made and has not heard of.
Unheard(n) ==
    {c \in Term :
        \/ pass[n].at = "claim" /\ pass[n].answer.held /\ c = pass[n].answer.term
        \/ \E t \in Thread : /\ Host[t] = n
                             /\ call[t].at = "claim" /\ call[t].answer.held
                             /\ c = call[t].answer.term}

\* A key goes with the lease it was written on, when the node stops renewing
\* it or revokes it in leave().  A node that was granted a second lease has its
\* registration on that one and its claim still on the first, so each key goes
\* in a step of its own.
LapseRegistration(n) ==
    /\ n \in registered
    /\ registered' = registered \ {n}
    /\ UNCHANGED <<world, claims, claim, leased, members, answered, leader, terms,
                   releasing, pass, call, stored, ordered>>

LapseClaim ==
    /\ claim # NoNode
    /\ "slow" \in Faults \/ ~ReadOnItsWay(claim)
    /\ claim' = NoNode
    /\ UNCHANGED <<world, registered, claims, leased, members, answered, leader, terms,
                   releasing, pass, call, stored, ordered>>
-----------------------------------------------------------------------------
(* The membership thread: refresh, one round trip to etcd at a time. *)

\* The lease is renewed; or there is none, or keep_alive fails, and
\* register_node is granted a new one.  The node keeps that whether or not the
\* registration on it is answered, and a registration that was not answered may
\* have been written.
HoldLease(n) ==
    \/ leased[n] /\ UNCHANGED <<leased, registered>>
    \/ /\ leased' = [leased EXCEPT ![n] = TRUE]
       /\ \/ registered' = registered \cup {n}
          \/ "silent" \in Faults /\ registered' = registered

\* Neither keep_alive nor grant_lease is answered: the node stands without a
\* lease, whatever etcd still holds for it.
LoseLease(n) ==
    /\ "silent" \in Faults
    /\ leased' = [leased EXCEPT ![n] = FALSE]
    /\ UNCHANGED registered

\* read_members: the nodes registered now, and this node whether it is or not.
ReadMembers(n) ==
    /\ members' = [members EXCEPT ![n] = registered' \cup {n}]
    /\ answered' = [answered EXCEPT ![n] = TRUE]

\* read_members without an answer: the membership is kept, and a node that
\* never read one puts itself in the list.
KeepMembers(n) ==
    /\ "silent" \in Faults
    /\ members' = [members EXCEPT ![n] = IF @ = {} THEN {n} ELSE @]
    /\ answered' = [answered EXCEPT ![n] = FALSE]

\* refresh, up to read_leaders.  These calls write no key but the node's own
\* registration and are one step here.
Refresh(n) ==
    /\ pass[n].at = "idle"
    /\ HoldLease(n) \/ LoseLease(n)
    /\ ReadMembers(n) \/ KeepMembers(n)
    /\ pass' = [pass EXCEPT ![n].at = "leaders"]
    /\ UNCHANGED <<world, claims, claim, leader, terms, releasing, call, stored,
                   ordered>>

\* read_leaders returns early, leader_list as it was, with nobody to lead for
\* or no lease to claim on.
SkipLeaders(n) ==
    /\ pass[n].at = "leaders"
    /\ Cardinality(members[n]) < 2 \/ ~leased[n]
    /\ pass' = [pass EXCEPT ![n] = IdlePass]
    /\ UNCHANGED <<etcd, leased, members, answered, leader, terms, releasing,
                   call, stored, ordered>>

CanReadLeaders(n) ==
    /\ pass[n].at = "leaders"
    /\ Cardinality(members[n]) >= 2 /\ leased[n]

\* The range over the claims is not answered: leader_list is cleared.
ReadLeadersFails(n) ==
    /\ "silent" \in Faults
    /\ CanReadLeaders(n)
    /\ leader' = [leader EXCEPT ![n] = NoLead]
    /\ pass' = [pass EXCEPT ![n] = IdlePass]
    /\ UNCHANGED <<etcd, leased, members, answered, terms, releasing, call,
                   stored, ordered>>

\* The range is answered.
ReadLeaders(n) ==
    /\ CanReadLeaders(n)
    /\ "race" \in Faults \/ ~CreateOnItsWay(n)
    /\ pass' = [pass EXCEPT ![n].at = "decide", ![n].seen = claim]
    /\ UNCHANGED <<etcd, leased, members, answered, leader, terms, releasing,
                   call, stored, ordered>>

\* Put a leadership in the map the pass will leave in leader_list.
Know(n, node, term) ==
    pass' = [pass EXCEPT
               ![n] = [at |-> "store", seen |-> NoNode,
                       answer |-> [held |-> FALSE, node |-> node, term |-> term]]]

\* The claim is there, and another node's or rightly this one's; or it is this
\* one's and no longer should be, which is noted, and it is kept for now: the
\* first pass to find it so, less than a tick ago, or out of claims for a pass.
KeepClaim(n) ==
    /\ pass[n].at = "decide"
    /\ pass[n].seen # NoNode
    /\ Know(n, pass[n].seen, TermOf(n, pass[n].seen))
    /\ releasing' = [releasing EXCEPT ![n] = pass[n].seen = n /\ ~ShouldLead(n)]
    /\ UNCHANGED <<etcd, leased, members, answered, leader, terms, call, stored,
                   ordered>>

\* A claim marked by an earlier pass is given up: the key is deleted if it
\* still holds this node's name.
RemoveClaim(n) ==
    /\ pass[n].at = "decide"
    /\ pass[n].seen = n /\ ~ShouldLead(n) /\ releasing[n]
    /\ \/ "slow" \in Faults
       \/ \A t \in Thread : ~(Host[t] = n /\ call[t].at = "held")
    /\ \/ /\ claim = n
          /\ claim' = NoNode
          /\ \E ok \in (IF "lost" \in Faults THEN BOOLEAN ELSE {TRUE}) :
               pass' = [pass EXCEPT ![n].at = "release", ![n].answer.held = ok]
       \/ /\ UNCHANGED claim
          /\ pass' = [pass EXCEPT ![n].at = "release", ![n].answer.held = FALSE]
    /\ UNCHANGED <<world, registered, claims, leased, members, answered, leader, terms,
                   releasing, call, stored, ordered>>

\* What the pass makes of the answer: the claim is gone, or it is still this
\* node's as far as it knows and is tried again.
RemoveAnswered(n) ==
    /\ pass[n].at = "release"
    /\ IF pass[n].answer.held
       THEN /\ Know(n, NoNode, 0)
            /\ releasing' = [releasing EXCEPT ![n] = FALSE]
       ELSE /\ Know(n, n, TermOf(n, n))
            /\ releasing' = releasing
    /\ UNCHANGED <<etcd, leased, members, answered, leader, terms, call, stored,
                   ordered>>

\* Nobody claims it and this node does not either: it is not the one named, or
\* it has made its share of claims for one pass.
LeaveUnclaimed(n) ==
    /\ pass[n].at = "decide"
    /\ pass[n].seen = NoNode
    /\ Know(n, NoNode, 0)
    /\ releasing' = [releasing EXCEPT ![n] = FALSE]
    /\ UNCHANGED <<etcd, leased, members, answered, leader, terms, call, stored,
                   ordered>>

\* Nobody claims it and this node is named: it claims it on its lease.
CreateClaim(n) ==
    /\ pass[n].at = "decide"
    /\ pass[n].seen = NoNode
    /\ ShouldLead(n)
    /\ \E a \in Answer :
         /\ CreateTxn(n, a)
         /\ pass' = [pass EXCEPT ![n].at = "claim", ![n].answer = a]
    /\ releasing' = [releasing EXCEPT ![n] = FALSE]
    /\ UNCHANGED <<world, registered, leased, members, answered, leader, terms, call,
                   stored, ordered>>

\* The answer: the claim's holder and the term it was created in, and a claim
\* that was won raises the fence here.
CreateAnswered(n) ==
    /\ pass[n].at = "claim"
    /\ LET a == pass[n].answer
       IN  /\ Know(n, a.node, a.term)
           /\ terms' = IF a.held
                       THEN [terms EXCEPT ![n] = RaiseTerm(@, a.term)]
                       ELSE terms
    /\ UNCHANGED <<etcd, leased, members, answered, leader, releasing, call,
                   stored, ordered>>

\* The pass ends: leader_list is what it knows.
StoreLeaders(n) ==
    /\ pass[n].at = "store"
    /\ leader' = [leader EXCEPT ![n] = [node |-> pass[n].answer.node,
                                        term |-> pass[n].answer.term]]
    /\ pass' = [pass EXCEPT ![n] = IdlePass]
    /\ UNCHANGED <<etcd, leased, members, answered, terms, releasing, call,
                   stored, ordered>>
-----------------------------------------------------------------------------
(* leader(), called by the thread serving a write, and what the write does  *)
(* to the terms.  A leadership that is not this node's sends the write      *)
(* elsewhere and changes nothing here.                                      *)

CanLead(n) == answered[n] /\ Cardinality(members[n]) >= 2

\* lead_write: a write is stamped in a term and written to the node's own
\* store, which remembers the term.
Order(n, term) ==
    /\ ordered' = ordered \cup {<<n, term>>}
    /\ stored' = [stored EXCEPT ![n] = Larger(@, term)]

\* leader_list says this node leads.
LeadCached(n) ==
    /\ CanLead(n)
    /\ leader[n].node = n
    /\ Order(n, leader[n].term)
    /\ UNCHANGED <<etcd, leased, members, answered, leader, terms, releasing,
                   pass, call>>

\* leader_list has nothing, and etcd says this node holds the claim.
AskHeld(t) ==
    /\ call[t].at = "idle"
    /\ CanLead(Host[t]) /\ leader[Host[t]] = NoLead
    /\ claim = Host[t]
    /\ "race" \in Faults \/ ~CreateOnItsWay(Host[t])
    /\ call' = [call EXCEPT ![t].at = "held"]
    /\ UNCHANGED <<etcd, leased, members, answered, leader, terms, releasing,
                   pass, stored, ordered>>

\* The answer arrives; the term is read only now.  leader_list is left alone.
LeadHeld(t) ==
    /\ call[t].at = "held"
    /\ Order(Host[t], TermOf(Host[t], Host[t]))
    /\ call' = [call EXCEPT ![t] = IdleCall]
    /\ UNCHANGED <<etcd, leased, members, answered, leader, terms, releasing,
                   pass>>

\* leader_list has nothing, nobody holds the claim, and this node is named and
\* has a lease to claim on.
AskUnclaimed(t) ==
    /\ call[t].at = "idle"
    /\ CanLead(Host[t]) /\ leader[Host[t]] = NoLead
    /\ claim = NoNode
    /\ ShouldLead(Host[t])
    /\ leased[Host[t]]
    /\ call' = [call EXCEPT ![t].at = "create"]
    /\ UNCHANGED <<etcd, leased, members, answered, leader, terms, releasing,
                   pass, stored, ordered>>

CreateForWrite(t) ==
    /\ call[t].at = "create"
    /\ \E a \in Answer :
         /\ CreateTxn(Host[t], a)
         /\ call' = [call EXCEPT ![t].at = "claim", ![t].answer = a]
    /\ UNCHANGED <<world, registered, leased, members, answered, leader, terms,
                   releasing, pass, stored, ordered>>

\* The answer to it: the write is refused without one, and otherwise the
\* leadership is cached, and ordered in if it is this node's.
CreateForWriteAnswered(t) ==
    /\ call[t].at = "claim"
    /\ LET n == Host[t]
           a == call[t].answer
       IN  /\ terms' = IF a.held
                       THEN [terms EXCEPT ![n] = RaiseTerm(@, a.term)]
                       ELSE terms
           /\ IF a.node = NoNode
              THEN UNCHANGED leader
              ELSE leader' = [leader EXCEPT ![n] = [node |-> a.node, term |-> a.term]]
           /\ IF a.node = n
              THEN Order(n, a.term)
              ELSE UNCHANGED <<stored, ordered>>
    /\ call' = [call EXCEPT ![t] = IdleCall]
    /\ UNCHANGED <<etcd, leased, members, answered, releasing, pass>>

\* accept(), called with a write another node ordered and carried here, at any
\* time after.  A write in no term is not a carried one.  The record is written
\* to the store, which remembers the term with it.
Accept(n, m, term) ==
    /\ <<m, term>> \in ordered
    /\ m # n /\ term # 0
    /\ term >= terms[n]
    /\ terms' = [terms EXCEPT ![n] = RaiseTerm(@, term)]
    /\ stored' = [stored EXCEPT ![n] = Larger(@, term)]
    /\ UNCHANGED <<etcd, leased, members, answered, leader, releasing, pass,
                   call, ordered>>

\* The process ends and another starts on the same store: the constructor's
\* state, with the terms the store remembers (restore_terms).
Restart(n) ==
    /\ "restart" \in Faults \/ ("reboot" \in Faults /\ claim # n)
    /\ leased' = [leased EXCEPT ![n] = FALSE]
    /\ members' = [members EXCEPT ![n] = {}]
    /\ answered' = [answered EXCEPT ![n] = FALSE]
    /\ leader' = [leader EXCEPT ![n] = NoLead]
    /\ terms' = [terms EXCEPT ![n] = RestoredTerm(n)]
    /\ releasing' = [releasing EXCEPT ![n] = FALSE]
    /\ pass' = [pass EXCEPT ![n] = IdlePass]
    /\ call' = [t \in Thread |-> IF Host[t] = n THEN IdleCall ELSE call[t]]
    /\ UNCHANGED <<etcd, stored, ordered>>

PassStep(n) ==
    \/ Refresh(n) \/ SkipLeaders(n) \/ ReadLeadersFails(n) \/ ReadLeaders(n)
    \/ KeepClaim(n) \/ RemoveClaim(n) \/ RemoveAnswered(n)
    \/ LeaveUnclaimed(n) \/ CreateClaim(n) \/ CreateAnswered(n)
    \/ StoreLeaders(n)

CallStep(t) ==
    \/ AskHeld(t) \/ AskUnclaimed(t) \/ LeadHeld(t) \/ CreateForWrite(t) \/ CreateForWriteAnswered(t)

Next ==
    \/ LapseClaim
    \/ \E n \in Node \ Quiet :
         LapseRegistration(n) \/ PassStep(n) \/ LeadCached(n) \/ Restart(n)
    \/ \E t \in Thread : CallStep(t)
    \/ \E n, m \in Node \ Quiet, term \in 1 .. MaxTerm : Accept(n, m, term)

Spec == Init /\ [][Next]_vars
-----------------------------------------------------------------------------
\* No two nodes stamp writes in the same term: record/record.h says so of the
\* version ("no two nodes ever issue the same pair for one key"), and is_newer
\* relies on it to order any two writes of a key.
OneNodePerTerm ==
    \A a, b \in ordered : a[2] = b[2] => a[1] = b[1]

Orderly == world.orderly

\* A node refuses writes older than the newest it has on disk, through any
\* number of restarts ("a node that restarts onto the volume it kept refuses
\* exactly what it refused before", doc/database/cluster.md), and one that takes
\* itself for the leader those older than the term it leads in.  The one
\* exception is a term whose claim one thread made and has not heard of: others
\* are told that the claim is there, lead in its term and write records in it
\* before that thread raises the fence.
FenceCovers ==
    Orderly => \A n \in Node :
        /\ stored[n] <= terms[n] \/ stored[n] \in Unheard(n)
        /\ leader[n].node = n =>
             leader[n].term <= terms[n] \/ leader[n].term \in Unheard(n)

\* No fence is ever above the newest claim, in memory or on disk, whatever goes
\* wrong: a copy above it would refuse the rightful leader for good.
NoFenceAboveClaims ==
    \A n \in Node : terms[n] <= Len(claims) /\ stored[n] <= Len(claims)
-----------------------------------------------------------------------------
\* Leadership as this module brings it about.  Where it is not orderly the
\* promise is not made, and nothing of it is shown.
Shown(x, nothing) == IF Orderly THEN x ELSE nothing

Promise == INSTANCE Leadership WITH
    issued <- Shown(claims, <<>>),
    fence <- Shown(terms, [n \in Node |-> 0]),
    kept <- Shown(stored, [n \in Node |-> 0]),
    ordered <- Shown(ordered, {})

\* Claiming, reading and giving up claims, with request threads claiming beside
\* the membership thread, implements Leadership: every step at most issues,
\* hears of, orders in, takes or restores a term as that module allows.  A node
\* then orders writes only in terms whose claim it created itself, which is what
\* makes OneNodePerTerm true where it is.
PromiseKept == Promise!Spec
=============================================================================
