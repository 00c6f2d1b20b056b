----------------------------- MODULE WritePath -----------------------------
(***************************************************************************)
(* A write, from the node that orders it to the copies of its key          *)
(* (router/router.cpp: route_record, lead_write, apply_write), for one key *)
(* and a placement every node agrees on.                                   *)
(*                                                                         *)
(* Leadership is what module EtcdCluster promises when nothing races: a    *)
(* claim opens a new term, the thread that made it raises its node's fence *)
(* to it when it hears so, another thread may lead in it before that, and  *)
(* a node goes on taking itself for the leader of an earlier term until it *)
(* hears otherwise.  A node's store is what module Store promises where    *)
(* its reads are answered: it keeps the newest version it was handed, and  *)
(* a process that starts on it is fenced by its term.                      *)
(*                                                                         *)
(* A carried write travels on its own connection to each copy: it may be   *)
(* late, lost, refused, or delivered a second time (the exchange is made   *)
(* again on a pooled connection that broke), and the leader may stop       *)
(* waiting for it while it is still on its way.                            *)
(***************************************************************************)
EXTENDS Naturals, Sequences

CONSTANTS
    Node,
    Copies,     \* the nodes replicas() names for the key
    Write,      \* the writes clients ask for
    MaxTerm,    \* bound: claims ever made
    MaxCount    \* bound: counts a node hands out

ASSUME WritePathAssumption ==
    /\ Node # {}
    /\ Copies \subseteq Node
    /\ MaxTerm \in Nat
    /\ MaxCount \in Nat

VARIABLES
    claims,     \* claims[t]: the node that won the claim of term t
    own,        \* the terms of the claims each process made since it started
    lead,       \* the term each node takes itself for the leader in, 0 for none
    fence,      \* the newest term each node has seen
    held,       \* the version of the key in each node's store
    count,      \* the last count each node handed out
    state,      \* where each write is
    by,         \* the node ordering it
    stamp,      \* its version; the term is taken with the leadership
    leg,        \* leg[w][c]: the write on its way to copy c
    after,      \* history: the writes answered for when this one was routed
    early       \* history: the ones answered for before their node was fenced

vars == <<claims, own, lead, fence, held, count, state, by, stamp, leg, after, early>>

NoVersion == [term |-> 0, count |-> 0]
Versions == [term : 0 .. MaxTerm, count : 0 .. MaxCount]

TypeOK ==
    /\ claims \in Seq(Node)
    /\ own \in [Node -> SUBSET (1 .. MaxTerm)]
    /\ lead \in [Node -> 0 .. MaxTerm]
    /\ fence \in [Node -> 0 .. MaxTerm]
    /\ held \in [Node -> Versions]
    /\ count \in [Node -> 0 .. MaxCount]
    /\ state \in [Write -> {"new", "led", "stamped", "sent", "acked", "refused"}]
    /\ by \in [Write -> Node]
    /\ stamp \in [Write -> Versions]
    /\ leg \in [Write -> [Node -> {"none", "sent", "accepted", "done", "refused"}]]
    /\ after \in [Write -> SUBSET Write]
    /\ early \subseteq Write

Init ==
    /\ claims = <<>>
    /\ own = [n \in Node |-> {}]
    /\ lead = [n \in Node |-> 0]
    /\ fence = [n \in Node |-> 0]
    /\ held = [n \in Node |-> NoVersion]
    /\ count = [n \in Node |-> 0]
    /\ state = [w \in Write |-> "new"]
    /\ by = [w \in Write |-> CHOOSE n \in Node : TRUE]
    /\ stamp = [w \in Write |-> NoVersion]
    /\ leg = [w \in Write |-> [c \in Node |-> "none"]]
    /\ after = [w \in Write |-> {}]
    /\ early = {}

\* is_newer
IsNewer(v, than) ==
    \/ v.term > than.term
    \/ v.term = than.term /\ v.count > than.count

\* Mutant of WriteRecord: the last write to arrive stands.
WriteLast(n, v) == held' = [held EXCEPT ![n] = v]

\* write_record: what a store holds afterwards.
WriteRecord(n, v) == held' = [held EXCEPT ![n] = IF IsNewer(@, v) THEN @ ELSE v]
-----------------------------------------------------------------------------
(* Leadership *)

\* Mutant of TermWon: a revision ahead of the claim's.
TermAhead == Len(claims) + 2

\* The term of a claim made now.
TermWon == Len(claims) + 1

\* f with the value at n raised to t, or left where it is.
RaisedTo(f, n, t) == [f EXCEPT ![n] = IF t > @ THEN t ELSE @]

\* etcd applies the create of one of a node's threads.
Claim(n) ==
    /\ Len(claims) < MaxTerm
    /\ claims' = Append(claims, n)
    /\ own' = [own EXCEPT ![n] = @ \cup {TermWon}]
    /\ UNCHANGED <<lead, fence, held, count, state, by, stamp, leg, after, early>>

\* That thread is answered that it made the claim: raise_term.
Raise(n) ==
    /\ \E t \in own[n] : t > fence[n] /\ fence' = RaisedTo(fence, n, t)
    /\ UNCHANGED <<claims, own, lead, held, count, state, by, stamp, leg, after, early>>

\* It leads in the claim's term.  So does any thread answered that the claim is
\* its own node's and was there already, in the term the answer carries and
\* with no raise_term, whether the first one has heard or not.
Lead(n) ==
    /\ \E t \in own[n] : lead' = [lead EXCEPT ![n] = t]
    /\ UNCHANGED <<claims, own, fence, held, count, state, by, stamp, leg, after, early>>

\* A pass of the membership thread finds the claim gone or another's.
Unlead(n) ==
    /\ lead[n] # 0
    /\ lead' = [lead EXCEPT ![n] = 0]
    /\ UNCHANGED <<claims, own, fence, held, count, state, by, stamp, leg, after, early>>
-----------------------------------------------------------------------------
(* Ordering a write *)

\* A client's write reaches a node that leader() says leads here.
Route(w, n) ==
    /\ state[w] = "new"
    /\ lead[n] # 0
    /\ state' = [state EXCEPT ![w] = "led"]
    /\ by' = [by EXCEPT ![w] = n]
    /\ stamp' = [stamp EXCEPT ![w].term = lead[n]]
    /\ after' = [after EXCEPT ![w] = {v \in Write : state[v] = "acked"}]
    /\ UNCHANGED <<claims, own, lead, fence, held, count, leg, early>>

\* lead_write: the next count completes the stamp.
Stamp(w) ==
    LET n == by[w]
    IN  /\ state[w] = "led"
        /\ count[n] < MaxCount
        /\ count' = [count EXCEPT ![n] = @ + 1]
        /\ stamp' = [stamp EXCEPT ![w].count = count[n] + 1]
        /\ state' = [state EXCEPT ![w] = "stamped"]
        /\ UNCHANGED <<claims, own, lead, fence, held, by, leg, after, early>>

\* The leader's own copy is written, where it holds one, with no word from
\* accept(); then the write is sent to the others, all at once.
WriteOwn(w) ==
    LET n == by[w]
    IN  /\ state[w] = "stamped"
        /\ IF n \in Copies THEN WriteRecord(n, stamp[w]) ELSE UNCHANGED held
        /\ state' = [state EXCEPT ![w] = "sent"]
        /\ leg' = [leg EXCEPT ![w] = [c \in Node |->
                     IF c \in Copies \ {n} THEN "sent" ELSE "none"]]
        /\ UNCHANGED <<claims, own, lead, fence, count, by, stamp, after, early>>

\* Mutant of Accept: every term is taken.
AcceptAny(n, term) == TRUE

\* accept(): whether the term is no older than the newest seen.
Accept(n, term) == term >= fence[n]

\* apply_write at a copy, with the write a first time or again: the fence is
\* raised, or the write refused.
Take(w, c) ==
    /\ leg[w][c] \in {"sent", "done"}
    /\ \/ /\ Accept(c, stamp[w].term)
          /\ fence' = RaisedTo(fence, c, stamp[w].term)
          /\ leg' = [leg EXCEPT ![w][c] = "accepted"]
       \/ /\ ~Accept(c, stamp[w].term)
          /\ leg' = [leg EXCEPT ![w][c] = "refused"]
          /\ UNCHANGED fence
    /\ UNCHANGED <<claims, own, lead, held, count, state, by, stamp, after, early>>

\* Then the record is written, the fence having been let go in between.
Apply(w, c) ==
    /\ leg[w][c] = "accepted"
    /\ WriteRecord(c, stamp[w])
    /\ leg' = [leg EXCEPT ![w][c] = "done"]
    /\ UNCHANGED <<claims, own, lead, fence, count, state, by, stamp, after, early>>

\* Mutant of Answered: one copy that took the write is enough.
AnsweredByOne(w) ==
    Copies \ {by[w]} # {} => \E c \in Copies \ {by[w]} : leg[w][c] = "done"

\* refusal(): nobody the write was forwarded to refused it.
Answered(w) == \A c \in Copies \ {by[w]} : leg[w][c] = "done"

\* The client is told the write is there.
Ack(w) ==
    /\ state[w] = "sent"
    /\ Answered(w)
    /\ state' = [state EXCEPT ![w] = "acked"]
    /\ early' = IF stamp[w].term > fence[by[w]] THEN early \cup {w} ELSE early
    /\ UNCHANGED <<claims, own, lead, fence, held, count, by, stamp, leg, after>>

\* A copy refused it, failed, or did not answer in time: the client is told so,
\* and what was sent stays on its way and what was taken stays taken.
Refuse(w) ==
    /\ state[w] = "sent"
    /\ state' = [state EXCEPT ![w] = "refused"]
    /\ UNCHANGED <<claims, own, lead, fence, held, count, by, stamp, leg, after, early>>

\* Mutant of RestoredFence: a node starts with no fence at all.
RestoredNothing(n) == 0

\* restore_terms
RestoredFence(n) == held[n].term

\* A process ends and starts again on its store.  The writes it was ordering
\* go unanswered, and the ones it had accepted and not written are lost.
Restart(n) ==
    /\ own' = [own EXCEPT ![n] = {}]
    /\ lead' = [lead EXCEPT ![n] = 0]
    /\ fence' = [fence EXCEPT ![n] = RestoredFence(n)]
    /\ state' = [w \in Write |->
                   IF by[w] = n /\ state[w] \in {"led", "stamped", "sent"}
                   THEN "refused" ELSE state[w]]
    /\ leg' = [w \in Write |-> [leg[w] EXCEPT
                 ![n] = IF @ = "accepted" THEN "refused" ELSE @]]
    /\ UNCHANGED <<claims, held, count, by, stamp, after, early>>

Next ==
    \/ \E n \in Node : Claim(n) \/ Raise(n) \/ Lead(n) \/ Unlead(n) \/ Restart(n)
    \/ \E w \in Write :
         \/ \E n \in Node : Route(w, n)
         \/ Stamp(w) \/ WriteOwn(w) \/ Ack(w) \/ Refuse(w)
         \/ \E c \in Copies : Take(w, c) \/ Apply(w, c)

Spec == Init /\ [][Next]_vars
-----------------------------------------------------------------------------
\* Every copy of the key holds a write the client was told of, or a later one:
\* "every copy has to take it" (doc/database/cluster.md), so a read answered by
\* any of them sees it.
AckedOnEveryCopy ==
    \A w \in Write : state[w] = "acked" =>
        \A c \in Copies : ~IsNewer(stamp[w], held[c])

\* A write asked for after another was answered is the later of the two: a
\* leader "which lost its lease, but not its network" is stopped "from writing
\* behind the leader that replaced it" (doc/database/cluster.md:248-251), the
\* nodes that hold a copy being the ones that refuse.  Otherwise a client is
\* told of a write that no copy kept.
AnsweredInOrder ==
    \A w \in Write : state[w] = "acked" =>
        \A v \in after[w] : IsNewer(stamp[w], stamp[v])

\* The copies an answered write leaves refusing what is older: those it was
\* carried to, and its own node's if that was fenced by then.
Refusing(v) == {c \in Copies : c # by[v] \/ v \notin early}

\* A write asked for after another was answered is the later of the two if any
\* copy that refuses what is older had to take it: any but the one of the node
\* that orders it, which lead_write writes with no word from accept().
RealTimeOrder ==
    \A w \in Write : state[w] = "acked" =>
        \A v \in after[w] :
            Refusing(v) \subseteq {by[w]} \/ IsNewer(stamp[w], stamp[v])
-----------------------------------------------------------------------------
\* Leadership as the writes of this key see it: a term is ordered in from the
\* moment a write is routed in it, and a store keeps the term of its record.
Promise == INSTANCE Leadership WITH
    issued <- claims,
    kept <- [n \in Node |-> held[n].term],
    ordered <- {<<by[w], stamp[w].term>> : w \in {v \in Write : state[v] # "new"}}

\* Routing, carrying, late and repeated deliveries and restarts implement
\* Leadership: a copy takes nothing older than its fence, and starts again
\* fenced by what it kept.
PromiseKept == Promise!Spec
=============================================================================
