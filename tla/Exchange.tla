------------------------------ MODULE Exchange ------------------------------
(***************************************************************************)
(* Requests to other processes: what is sent over which connection, what   *)
(* is tried again and what comes back (http/beast_client.cpp, pool.cpp,    *)
(* shared_pool.cpp, connection.cpp), with the two that ask: the forwarder  *)
(* (cluster/http_forwarder.cpp), which asks one node, and the etcd client  *)
(* (etcd/etcd_client.cpp), which walks its members until one answers.      *)
(*                                                                         *)
(* Calls run at once and share one pool: coroutines do the shared_pool, and *)
(* the requests of one fan_out their thread's.  A connection is a TCP      *)
(* connection: connecting again makes another.  The process at its other   *)
(* end reads a request, acts on it and answers, and may close or die at    *)
(* any point; what the client then sees of it comes later.  Time is left   *)
(* out: a deadline may pass at any step of an exchange.                    *)
(***************************************************************************)
EXTENDS Naturals, Sequences, SequencesExt, FiniteSetsExt

CONSTANTS
    Call,       \* calls made, each once
    None,       \* no connection, no call
    Members,    \* how many processes there are to ask
    Connections, \* bound: TCP connections made
    Cache       \* connection_cache

ASSUME ExchangeAssumption ==
    /\ None \notin Call \cup (1 .. Connections)
    /\ Call \cap {"waiting", "closed"} = {}
    /\ Members \in Nat \ {0} /\ Connections \in Nat /\ Cache \in Nat \ {0}

Host == 0 .. Members - 1
Conn == 1 .. Connections
\* What can be read from a connection: the answer to a call, or its end.
Fin == [of |-> None, keep |-> FALSE, refused |-> FALSE]
Answer == [of : Call, keep : BOOLEAN, refused : BOOLEAN]
Kind == {"walk", "revoke", "forward"}

VARIABLES
    current,    \* the member of etcd that answered last
    idle,       \* the connections kept for the next request, oldest first
    \* each call
    kind, at, attempt, host,
    link,       \* the connection its exchange is on
    reused,     \* answer.reused
    got,        \* the answer it was given
    \* each connection
    made,       \* how many have been made
    to, up,     \* where it goes, and whether this end is open
    wire,       \* a request that was written and not read
    side,       \* the other end: waiting, handling a call, or closed
    back,       \* what came back and was not read
    \* a stream of its own
    stream, stop,
    \* history
    asked,      \* the members each call has asked
    moved,      \* the calls during which another moved current
    missed      \* a stop found the stream looking its host up

pool == <<current, idle>>
calls == <<kind, at, attempt, host, link, reused, got>>
net == <<made, to, up, wire, side, back>>
feeding == <<stream, stop, missed>>
history == <<asked, moved>>
vars == <<pool, calls, net, feeding, history>>

TypeOK ==
    /\ current \in Host
    /\ idle \in Seq(Conn) /\ Len(idle) <= Cache
    /\ kind \in [Call -> Kind]
    /\ at \in [Call -> {"unmade", "next", "connecting", "writing", "reading",
                        "keeping", "answered", "unanswered"}]
    /\ attempt \in [Call -> 0 .. Members] /\ host \in [Call -> Host]
    /\ link \in [Call -> Conn \cup {None}]
    /\ reused \in [Call -> BOOLEAN]
    /\ got \in [Call -> Answer \cup {None}]
    /\ made \in 0 .. Connections
    /\ to \in [Conn -> Host] /\ up \in [Conn -> BOOLEAN]
    /\ wire \in [Conn -> Call \cup {None}]
    /\ side \in [Conn -> Call \cup {"waiting", "closed"}]
    /\ back \in [Conn -> Seq(Answer \cup {Fin})]
    /\ stream \in {"none", "spawned", "resolving", "connecting", "reading", "ended"}
    /\ stop \in {"no", "posted", "ran"}
    /\ asked \in [Call -> SUBSET Host] /\ moved \subseteq Call
    /\ missed \in BOOLEAN

Init ==
    /\ current = 0 /\ idle = <<>>
    /\ kind \in [Call -> Kind]
    /\ at = [r \in Call |-> "unmade"]
    /\ attempt = [r \in Call |-> 0] /\ host = [r \in Call |-> 0]
    /\ link = [r \in Call |-> None]
    /\ reused = [r \in Call |-> FALSE] /\ got = [r \in Call |-> None]
    /\ made = 0
    /\ to = [c \in Conn |-> 0] /\ up = [c \in Conn |-> FALSE]
    /\ wire = [c \in Conn |-> None] /\ side = [c \in Conn |-> "closed"]
    /\ back = [c \in Conn |-> <<>>]
    /\ stream = "none" /\ stop = "no" /\ missed = FALSE
    /\ asked = [r \in Call |-> {}] /\ moved = {}
-----------------------------------------------------------------------------
(* The pool *)

\* The k-th of the positions K, and what is left of a pool when only those at K
\* stay, in the order they had.
Nth(K, k) == CHOOSE i \in K : Cardinality({j \in K : j <= i}) = k
Staying(conns, K) == [k \in 1 .. Cardinality(K) |-> conns[Nth(K, k)]]

\* A connection that may be used again: open, not idle for too long, and with
\* nothing to read.
IsReusable(c, aged) == up[c] /\ c \notin aged /\ back[c] = <<>>

\* What is left of the pool once those to h that are of no use were dropped.
Kept(h, aged) ==
    Staying(idle, {k \in DOMAIN idle : to[idle[k]] = h => IsReusable(idle[k], aged)})

\* The one to h that was kept last, if there is one.
Held(kept, h) ==
    LET going == {k \in DOMAIN kept : to[kept[k]] = h}
    IN  IF going = {} THEN None ELSE kept[Max(going)]

\* Mutant of Taken: the connection taken stays in the pool.
TakenStays(kept, c) == kept

\* The pool without the connection taken.
Taken(kept, c) == Staying(kept, {k \in DOMAIN kept : kept[k] # c})

\* Mutant of Evicted: the pool only grows.
NeverEvicted == idle

\* Room for one more: the connection that was idle longest goes.
Evicted == IF Len(idle) >= Cache THEN Tail(idle) ELSE idle

\* The connections of ids closed at this end: nothing more is read from them,
\* and what was written may still be acted on.
Closing(ids) ==
    /\ up' = [c \in Conn |-> up[c] /\ c \notin ids]
    /\ back' = [c \in Conn |-> IF c \in ids THEN <<>> ELSE back[c]]
-----------------------------------------------------------------------------
(* A call *)

\* How many members a call may ask.
Attempts(r) == IF kind[r] = "walk" THEN Members ELSE 1

\* Mutant of Member: every attempt asks the same member.
MemberAgain(r) == current

\* The member an attempt asks.
Member(r) == (current + attempt[r]) % Members

\* The next attempt takes a connection out of the pool, or has one to make.
Attempt(r) ==
    /\ at[r] \in {"unmade", "next"}
    /\ \E h \in IF kind[r] = "forward" THEN Host ELSE {Member(r)}, n \in 0 .. Len(idle) :
        LET aged == {idle[k] : k \in 1 .. n}
            kept == Kept(h, aged)
            c == Held(kept, h)
        IN  /\ host' = [host EXCEPT ![r] = h]
            /\ link' = [link EXCEPT ![r] = c]
            /\ reused' = [reused EXCEPT ![r] = c # None]
            /\ at' = [at EXCEPT ![r] = IF c = None THEN "connecting" ELSE "writing"]
            /\ idle' = Taken(kept, c)
            /\ Closing(ToSet(idle) \ ToSet(kept))
            /\ asked' = [asked EXCEPT ![r] = @ \cup {h}]
    /\ got' = [got EXCEPT ![r] = None]
    /\ UNCHANGED <<current, kind, attempt, made, to, wire, side, feeding, moved>>

\* A new connection, and the process at the other end waits on it.
Connect(r) ==
    /\ at[r] = "connecting" /\ made < Connections
    /\ made' = made + 1
    /\ to' = [to EXCEPT ![made'] = host[r]]
    /\ up' = [up EXCEPT ![made'] = TRUE]
    /\ side' = [side EXCEPT ![made'] = "waiting"]
    /\ link' = [link EXCEPT ![r] = made']
    /\ at' = [at EXCEPT ![r] = "writing"]
    /\ UNCHANGED <<pool, kind, attempt, host, reused, got, wire, back, feeding, history>>

\* The request is written; one written to an end that is closed is lost.
Write(r) ==
    /\ at[r] = "writing"
    /\ wire' = [wire EXCEPT ![link[r]] = IF side[link[r]] = "closed" THEN @ ELSE r]
    /\ at' = [at EXCEPT ![r] = "reading"]
    /\ UNCHANGED <<pool, kind, attempt, host, link, reused, got, made, to, up, side,
                   back, feeding, history>>

\* The whole of an answer is read, and the connection closed if the other end
\* does not keep it.
Read(r) ==
    /\ at[r] = "reading" /\ back[link[r]] # <<>>
    /\ LET answer == Head(back[link[r]]) IN
        /\ answer # Fin
        /\ got' = [got EXCEPT ![r] = answer]
        /\ IF answer.keep
           THEN /\ back' = [back EXCEPT ![link[r]] = Tail(@)]
                /\ UNCHANGED up
           ELSE Closing({link[r]})
    /\ at' = [at EXCEPT ![r] = "keeping"]
    /\ UNCHANGED <<pool, kind, attempt, host, link, reused, made, to, wire, side,
                   feeding, history>>

\* Mutant of Broken: the connection an exchange failed on stays open.
NotBroken(r) == {}

\* The connection that is closed when an exchange fails.
Broken(r) == {link[r]}

\* Connecting, writing or reading fails, or the deadline passes: the connection
\* is closed, and the request made again if the connection was one of the pool's
\* and nothing of the answer was read.
Fail(r) ==
    /\ at[r] \in {"connecting", "writing", "reading"}
    /\ Closing(Broken(r))
    /\ \E some \in BOOLEAN :
        /\ some => at[r] = "reading" /\ back[link[r]] \notin {<<>>, <<Fin>>}
        /\ IF reused[r] /\ ~some
           THEN /\ at' = [at EXCEPT ![r] = "connecting"]
                /\ reused' = [reused EXCEPT ![r] = FALSE]
           ELSE /\ at' = [at EXCEPT ![r] = "keeping"]
                /\ UNCHANGED reused
    /\ UNCHANGED <<pool, kind, attempt, host, link, got, made, to, wire, side, feeding,
                   history>>

\* Whether an attempt gives the caller its answer: the etcd client passes over a
\* member that failed or refused with a 500.
Answers(r) == got[r] # None /\ (got[r].refused => kind[r] = "forward")

\* The connection goes to the pool if it is open.  The member that answered is
\* where the next call to etcd begins; without an answer the walk goes on to the
\* next, or has none left, and the forwarder answers storage_error.
Keep(r) ==
    /\ at[r] = "keeping"
    /\ idle' = IF link[r] # None /\ up[link[r]] THEN Append(Evicted, link[r]) ELSE idle
    /\ Closing(ToSet(idle) \ ToSet(idle'))
    /\ link' = [link EXCEPT ![r] = None]
    /\ IF Answers(r)
       THEN /\ at' = [at EXCEPT ![r] = "answered"]
            /\ current' = IF kind[r] = "forward" THEN current ELSE host[r]
            /\ moved' = IF current' = current THEN moved ELSE
                           moved \cup {q \in Call \ {r} : at[q] # "unmade"}
            /\ UNCHANGED attempt
       ELSE /\ attempt' = [attempt EXCEPT ![r] = @ + 1]
            /\ at' = [at EXCEPT ![r] = IF attempt'[r] < Attempts(r) THEN "next"
                                      ELSE "unanswered"]
            /\ UNCHANGED <<current, moved>>
    /\ UNCHANGED <<kind, host, reused, got, made, to, wire, side, feeding, asked>>
-----------------------------------------------------------------------------
(* The other end of a connection *)

\* A request is read and acted on, whether this end still waits for it or not.
Handle(c) ==
    /\ side[c] = "waiting" /\ wire[c] # None
    /\ side' = [side EXCEPT ![c] = wire[c]]
    /\ wire' = [wire EXCEPT ![c] = None]
    /\ UNCHANGED <<pool, calls, made, to, up, back, feeding, history>>

\* It is answered, and the connection kept or not.
Reply(c) ==
    /\ side[c] \in Call
    /\ \E keep, refused \in BOOLEAN :
        /\ back' = IF up[c]
                   THEN [back EXCEPT ![c] =
                           Append(@, [of |-> side[c], keep |-> keep, refused |-> refused])]
                   ELSE back
        /\ side' = [side EXCEPT ![c] = IF keep THEN "waiting" ELSE "closed"]
    /\ UNCHANGED <<pool, calls, made, to, up, wire, feeding, history>>

\* It closes a connection it waited on for too long, or dies at any point.
CloseThere(c) ==
    /\ side[c] # "closed"
    /\ side' = [side EXCEPT ![c] = "closed"]
    /\ wire' = [wire EXCEPT ![c] = None]
    /\ UNCHANGED <<pool, calls, made, to, up, back, feeding, history>>

\* The end of a connection closed there arrives here.
FinArrives(c) ==
    /\ side[c] = "closed" /\ up[c]
    /\ Fin \notin ToSet(back[c])
    /\ back' = [back EXCEPT ![c] = Append(@, Fin)]
    /\ UNCHANGED <<pool, calls, made, to, up, wire, side, feeding, history>>
-----------------------------------------------------------------------------
(* A stream, on a connection and an io_context of its own: etcd's watch *)

elsewhere == <<pool, calls, net, history>>

\* The watch is made, and made again when it ends, until it is told to stop.
Stream ==
    /\ stream \in {"none", "ended"} /\ stop = "no"
    /\ stream' = "spawned"
    /\ UNCHANGED <<elsewhere, stop, missed>>

\* feed begins: a host that is a name is looked up before connecting.
Feed ==
    /\ stream = "spawned"
    /\ stream' \in {"resolving", "connecting"}
    /\ UNCHANGED <<elsewhere, stop, missed>>

\* It goes on, or ends: refused, broken, or ended by what receives it.
Feeds ==
    /\ \/ stream = "resolving" /\ stream' \in {"connecting", "ended"}
       \/ stream = "connecting" /\ stream' \in {"reading", "ended"}
       \/ stream = "reading" /\ stream' = "ended"
    /\ UNCHANGED <<elsewhere, stop, missed>>

\* The token is set by another thread, before the stream was made or since, and
\* closing the connection is posted to the io_context.
StopStream ==
    /\ stop = "no" /\ stream # "none"
    /\ stop' = "posted"
    /\ UNCHANGED <<elsewhere, stream, missed>>

\* Mutant of BehindFeed: the callback is registered before feed is spawned.
AheadOfFeed == TRUE

\* The closing is queued behind the start of feed.
BehindFeed == stream # "spawned"

\* The closing cancels what is pending on the connection; a lookup is not.
CloseStream ==
    /\ stop = "posted" /\ BehindFeed
    /\ stop' = "ran"
    /\ missed' = (stream = "resolving")
    /\ stream' = IF stream \in {"connecting", "reading"} THEN "ended" ELSE stream
    /\ UNCHANGED elsewhere
-----------------------------------------------------------------------------
OnCall(r) == Attempt(r) \/ Connect(r) \/ Write(r) \/ Read(r) \/ Fail(r) \/ Keep(r)

OtherEnd(c) == Handle(c) \/ Reply(c) \/ CloseThere(c) \/ FinArrives(c)

Next ==
    \/ \E r \in Call : OnCall(r)
    \/ \E c \in Conn : OtherEnd(c)
    \/ Stream \/ Feed \/ Feeds \/ StopStream \/ CloseStream

Spec == Init /\ [][Next]_vars
-----------------------------------------------------------------------------
\* What a call is given is the answer to the request it made, whatever happened
\* on its connection before: a request given up, an answer that came late, a
\* connection used again.
OwnAnswer == \A r \in Call : got[r] # None => got[r].of = r

\* A connection of the pool is open, there once, and nobody's; two calls are
\* never on one connection.
PoolIsSpare ==
    /\ IsInjective(idle)
    /\ \A c \in ToSet(idle) : up[c] /\ \A r \in Call : link[r] # c
    /\ \A r, q \in Call : r # q => link[r] = None \/ link[r] # link[q]

\* A call that no member answered has asked all of them, unless another call
\* moved current under it.
AsksEveryMember ==
    \A r \in Call :
        at[r] = "unanswered" /\ kind[r] = "walk" /\ r \notin moved => asked[r] = Host

\* Once the closing that a stop posted has run the stream is over, and opens no
\* connection after it ("the close is queued behind the feed's start rather than
\* ahead of a connection the feed would then open", http/beast_client.cpp),
\* unless its host was being looked up as the closing ran.
StopIsHeard == stop = "ran" /\ ~missed => stream = "ended"
=============================================================================
