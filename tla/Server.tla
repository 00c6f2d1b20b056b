------------------------------- MODULE Server -------------------------------
(***************************************************************************)
(* The life of a process: how it starts serving, and how it stops while    *)
(* connections come in and requests and a pass are under way               *)
(* (server/server.cpp, server/session.cpp, main.cpp).                      *)
(*                                                                         *)
(* main calls serve(), which fills the store, joins the cluster, starts    *)
(* the reconciling thread and opens the port, and returns when its         *)
(* io_context has nothing left to do.  A signal calls drain() at any time  *)
(* until then, more than once if it is sent again, and close() is called   *)
(* by it or by the timer it sets.  Handlers of the acceptor's strand run   *)
(* one at a time, and so do those of each connection's.                    *)
(*                                                                         *)
(* A request is handled in one step: what it does is the router's.  Time   *)
(* is left out: a timer fires at any step after it was set.                *)
(***************************************************************************)
EXTENDS Naturals

CONSTANTS
    Session,    \* connections clients may make, each once
    Call        \* calls of drain(), one for each signal

ASSUME ServerAssumption == Session \cap Call = {}

VARIABLES
    phase,      \* where main is
    member,     \* whether the membership thread runs and the node is registered
    reconciler, \* the reconciling thread
    \* the acceptor and its strand
    open,       \* acceptor.is_open()
    accepting,  \* the accept that is pending, or what it came to
    posted,     \* close() has dispatched the closing of the acceptor
    timer,      \* drain_timer
    drains,     \* whether ASYNCDB_DRAIN gives a time to drain for
    draining,   \* router.is_draining()
    \* shutting down
    stopping,
    call,       \* where each call is, of drain() and of the close() it leads to
    noted,      \* the connections each close() found
    \* connections
    session,    \* where each is
    told,       \* those with a stop() dispatched to their strand
    early,      \* history: those that were told before they waited
    owed        \* history: those that read a request and have not answered it

vars == <<phase, member, reconciler, open, accepting, posted, timer, drains,
          draining, stopping, call, noted, session, told, early, owed>>

Phases == {"filling", "joined", "watching", "serving", "ended", "destroyed", "exited"}

\* A connection, from on_accept's hold() to its end.  "arrived": a request has
\* been read and on_read is due.  "cut": the read was cancelled.  What ends one
\* is told apart: closed as it should, cut, given up by the client or timed out.
Live == {"held", "waiting", "arrived", "handling", "writing", "cut"}
Over == {"closed", "dropped", "gone"}

TypeOK ==
    /\ phase \in Phases
    /\ member \in BOOLEAN
    /\ reconciler \in {"none", "running", "stopping", "ended"}
    /\ open \in BOOLEAN
    /\ accepting \in {"no", "pending", "arrived", "failed"}
    /\ posted \in BOOLEAN
    /\ timer \in {"off", "set"}
    /\ drains \in BOOLEAN
    /\ draining \in BOOLEAN
    /\ stopping \in BOOLEAN
    /\ call \in [Call -> {"none", "queued", "waiting", "leave", "reconciling",
                          "joining", "mark", "walk", "done"}]
    /\ noted \in [Call -> SUBSET {s \in Session : session[s] # "none"}]
    /\ session \in [Session -> {"none"} \cup Live \cup Over]
    /\ told \subseteq {s \in Session : session[s] # "none"}
    /\ early \subseteq Session
    /\ owed \subseteq Session

Init ==
    /\ phase = "filling"
    /\ member = FALSE
    /\ reconciler = "none"
    /\ open = TRUE
    /\ accepting = "no"
    /\ posted = FALSE
    /\ timer = "off"
    /\ drains \in BOOLEAN
    /\ draining = FALSE
    /\ stopping = FALSE
    /\ call = [c \in Call |-> "none"]
    /\ noted = [c \in Call |-> {}]
    /\ session = [s \in Session |-> "none"]
    /\ told = {}
    /\ early = {}
    /\ owed = {}

connections == <<noted, session, told, early, owed>>
acceptor == <<open, accepting, posted, timer, draining>>
-----------------------------------------------------------------------------
(* serve(), on main's thread *)

\* The store is filled and start() registers the node.
Join ==
    /\ phase = "filling"
    /\ phase' = "joined"
    /\ member' = TRUE
    /\ UNCHANGED <<reconciler, acceptor, drains, stopping, call, connections>>

StartReconciler ==
    /\ phase = "joined"
    /\ phase' = "watching"
    /\ reconciler' = "running"
    /\ UNCHANGED <<member, acceptor, drains, stopping, call, connections>>

\* listen, the first accept, and io_context.run() on every thread.
Listen ==
    /\ phase = "watching"
    /\ phase' = "serving"
    /\ accepting' = "pending"
    /\ UNCHANGED <<member, reconciler, open, posted, timer, draining, drains,
                   stopping, call, connections>>

\* The strand is not inside on_accept.
StrandFree == \A s \in Session : session[s] # "held"

\* io_context.run() returns: no operation is pending and no handler queued.
NothingLeft ==
    /\ accepting = "no" /\ ~posted /\ timer = "off" /\ told = {}
    /\ \A s \in Session : session[s] \notin Live
    /\ \A c \in Call : call[c] # "queued"

\* serve() returns once every thread is out of run(), and of the close() a
\* signal made it call.
EndServe ==
    /\ phase = "serving"
    /\ NothingLeft
    /\ \A c \in Call : call[c] \in {"none", "done"}
    /\ phase' = "ended"
    /\ UNCHANGED <<member, reconciler, acceptor, drains, stopping, call, connections>>

\* Mutant of Watched: what is destroyed is not asked to stop first.
NotWatched == FALSE

\* Whether a reconciling thread is there to be joined.
Watched == reconciler \in {"running", "stopping"}

\* ~server: the reconciling thread is told to stop, if no close() has joined
\* it, and the store goes once it has.
StopInDestructor ==
    /\ phase = "ended"
    /\ Watched
    /\ reconciler = "running"
    /\ reconciler' = "stopping"
    /\ UNCHANGED <<phase, member, acceptor, drains, stopping, call, connections>>

Destroy ==
    /\ phase = "ended"
    /\ ~Watched
    /\ phase' = "destroyed"
    /\ UNCHANGED <<member, reconciler, acceptor, drains, stopping, call, connections>>

\* ~etcd_cluster leaves, if no close() has.
Exit ==
    /\ phase = "destroyed"
    /\ phase' = "exited"
    /\ member' = FALSE
    /\ UNCHANGED <<reconciler, acceptor, drains, stopping, call, connections>>

\* The reconciling thread sees its stop token, between two passes or inside one.
ReconcilerEnds ==
    /\ reconciler = "stopping"
    /\ reconciler' = "ended"
    /\ UNCHANGED <<phase, member, acceptor, drains, stopping, call, connections>>
-----------------------------------------------------------------------------
(* drain() and close() *)

\* A signal: with nothing to drain for close() is called at once, and otherwise
\* the rest of drain() is dispatched to the acceptor's strand.
Signal(c) ==
    /\ call[c] = "none"
    /\ phase \in {"filling", "joined", "watching", "serving"}
    /\ call' = [call EXCEPT ![c] = IF drains THEN "queued" ELSE "leave"]
    /\ UNCHANGED <<phase, member, reconciler, acceptor, drains, stopping, connections>>

\* Whether the call is the one that sets the timer.
DrainsAgain == ~draining /\ open

Drain(c) ==
    /\ call[c] = "queued"
    /\ phase = "serving" /\ StrandFree
    /\ IF DrainsAgain
       THEN /\ draining' = TRUE
            /\ timer' = "set"
            /\ call' = [call EXCEPT ![c] = "waiting"]
       ELSE /\ call' = [call EXCEPT ![c] = "done"]
            /\ UNCHANGED <<draining, timer>>
    /\ UNCHANGED <<phase, member, reconciler, open, accepting, posted, drains,
                   stopping, connections>>

\* The timer fires, and finds the acceptor open or closed.
DrainEnds(c) ==
    /\ call[c] = "waiting" /\ timer = "set"
    /\ StrandFree
    /\ timer' = "off"
    /\ call' = [call EXCEPT ![c] = IF open THEN "leave" ELSE "done"]
    /\ UNCHANGED <<phase, member, reconciler, open, accepting, posted, draining,
                   drains, stopping, connections>>

\* nodes.stop(): the membership thread is joined and the lease revoked.  A call
\* that finds another at it does not wait for that one.
Leave(c) ==
    /\ call[c] = "leave"
    /\ member' = FALSE
    /\ call' = [call EXCEPT ![c] = "reconciling"]
    /\ UNCHANGED <<phase, reconciler, acceptor, drains, stopping, connections>>

\* stop_reconciling: the call that finds the thread takes it out and joins it.
StopReconciling(c) ==
    /\ call[c] = "reconciling"
    /\ IF reconciler = "running"
       THEN /\ reconciler' = "stopping"
            /\ call' = [call EXCEPT ![c] = "joining"]
       ELSE /\ call' = [call EXCEPT ![c] = "mark"]
            /\ UNCHANGED reconciler
    /\ UNCHANGED <<phase, member, acceptor, drains, stopping, connections>>

JoinReconciler(c) ==
    /\ call[c] = "joining"
    /\ reconciler = "ended"
    /\ call' = [call EXCEPT ![c] = "mark"]
    /\ UNCHANGED <<phase, member, reconciler, acceptor, drains, stopping, connections>>

\* Mutant of Known: a connection that nobody made is noted too.
KnownOrNot(s) == TRUE

\* A connection that was held and is still there.
Known(s) == session[s] \in Live

\* Under session_mutex the connections are noted and stopping is set; then the
\* closing of the acceptor is dispatched to its strand.
Mark(c) ==
    /\ call[c] = "mark"
    /\ stopping' = TRUE
    /\ noted' = [noted EXCEPT ![c] = {s \in Session : Known(s)}]
    /\ posted' = TRUE
    /\ call' = [call EXCEPT ![c] = "walk"]
    /\ UNCHANGED <<phase, member, reconciler, open, accepting, timer, draining,
                   drains, session, told, early, owed>>

\* Every connection noted that is still there is told, each on its own strand.
\* One that was held since was told by hold().
Walk(c) ==
    /\ call[c] = "walk"
    /\ told' = told \cup {s \in noted[c] : session[s] \notin Over}
    /\ noted' = [noted EXCEPT ![c] = {}]
    /\ call' = [call EXCEPT ![c] = "done"]
    /\ UNCHANGED <<phase, member, reconciler, acceptor, drains, stopping, session,
                   early, owed>>

\* On the strand: the timer is cancelled, which ends the call that set it, and
\* the acceptor closed, which fails the accept that is pending.
CloseAcceptor ==
    /\ posted
    /\ phase = "serving" /\ StrandFree
    /\ posted' = FALSE
    /\ timer' = "off"
    /\ call' = [c \in Call |-> IF call[c] = "waiting" THEN "done" ELSE call[c]]
    /\ open' = FALSE
    /\ accepting' = IF accepting = "pending" THEN "failed" ELSE accepting
    /\ UNCHANGED <<phase, member, reconciler, draining, drains, stopping, connections>>
-----------------------------------------------------------------------------
(* on_accept, on the acceptor's strand *)

\* A client connects, or the connection cannot be taken.
Connect ==
    /\ accepting = "pending"
    /\ \E s \in Session : session[s] = "none"
    /\ accepting' \in {"arrived", "failed"}
    /\ UNCHANGED <<phase, member, reconciler, open, posted, timer, draining,
                   drains, stopping, call, connections>>

\* A session is made and held; one held in a shutdown is told at once.
Hold(s) ==
    /\ accepting = "arrived"
    /\ phase = "serving" /\ StrandFree
    /\ session[s] = "none"
    /\ accepting' = "no"
    /\ session' = [session EXCEPT ![s] = "held"]
    /\ told' = IF stopping THEN told \cup {s} ELSE told
    /\ UNCHANGED <<phase, member, reconciler, open, posted, timer, draining,
                   drains, stopping, call, noted, early, owed>>

\* run() reads, on the acceptor's strand and not on the connection's: a stop()
\* that finds waiting set and no read begun has nothing to cancel, and is before
\* this.  Then the next accept, which fails if the acceptor has been closed.
Run(s) ==
    /\ session[s] = "held"
    /\ session' = [session EXCEPT ![s] = "waiting"]
    /\ accepting' = IF open THEN "pending" ELSE "failed"
    /\ UNCHANGED <<phase, member, reconciler, open, posted, timer, draining,
                   drains, stopping, call, noted, told, early, owed>>

\* Mutant of AfterFailedAccept: accepting goes on.
AcceptAgain == "pending"

\* An accept that fails with the acceptor closed is the last.
AfterFailedAccept == IF open THEN "pending" ELSE "no"

AcceptFails ==
    /\ accepting = "failed"
    /\ phase = "serving" /\ StrandFree
    /\ accepting' = AfterFailedAccept
    /\ UNCHANGED <<phase, member, reconciler, open, posted, timer, draining,
                   drains, stopping, call, connections>>
-----------------------------------------------------------------------------
(* A connection, on its own strand *)

Goes(s, from, to) ==
    /\ session[s] = from
    /\ session' = [session EXCEPT ![s] = to]

Elsewhere == <<phase, member, reconciler, acceptor, drains, stopping, call, noted>>

\* Whether cancelling ends what is pending: stop() looks at the flag waiting,
\* and a read that has ended already is past cancelling.
Cuts(s) == session[s] = "waiting"

\* The handler stop() dispatched.
Stop(s) ==
    /\ s \in told
    /\ told' = told \ {s}
    /\ session' = [session EXCEPT ![s] = IF Cuts(s) THEN "cut" ELSE @]
    /\ early' = IF session[s] = "held" THEN early \cup {s} ELSE early
    /\ UNCHANGED <<Elsewhere, owed>>

\* The client sends a request.
Ask(s) ==
    /\ Goes(s, "waiting", "arrived")
    /\ UNCHANGED <<Elsewhere, told, early, owed>>

\* on_read, and handle_request is spawned.
OnRead(s) ==
    /\ Goes(s, "arrived", "handling")
    /\ owed' = owed \cup {s}
    /\ UNCHANGED <<Elsewhere, told, early>>

\* The router answered, or no answer could be built and the session is closed.
Handled(s) ==
    /\ Goes(s, "handling", "writing") \/ Goes(s, "handling", "gone")
    /\ UNCHANGED <<Elsewhere, told, early, owed>>

\* Mutant of Keeps: a connection the client keeps is read again whatever happens.
KeepsAlways == TRUE

\* Whether a connection may be read again.
Keeps == ~stopping

\* on_write: the connection is read again if the client keeps it and the server
\* is not stopping, and closed otherwise.
OnWrite(s) ==
    /\ Goes(s, "writing", "closed") \/ (Keeps /\ Goes(s, "writing", "waiting"))
    /\ owed' = owed \ {s}
    /\ UNCHANGED <<Elsewhere, told, early>>

\* on_read with the error of a cancelled read, or of a write that was.
OnCut(s) ==
    /\ Goes(s, "cut", "dropped")
    /\ UNCHANGED <<Elsewhere, told, early, owed>>

\* The client closes, or sixty seconds go by: a read or a write fails.
Expire(s) ==
    /\ Goes(s, "waiting", "gone") \/ Goes(s, "writing", "gone")
    /\ UNCHANGED <<Elsewhere, told, early, owed>>
-----------------------------------------------------------------------------
Serve ==
    \/ Join \/ StartReconciler \/ Listen \/ EndServe \/ StopInDestructor
    \/ Destroy \/ Exit

Closing(c) ==
    \/ Drain(c) \/ DrainEnds(c) \/ Leave(c) \/ StopReconciling(c)
    \/ JoinReconciler(c) \/ Mark(c) \/ Walk(c)

OnSession(s) ==
    \/ Hold(s) \/ Run(s) \/ Stop(s) \/ OnRead(s) \/ Handled(s) \/ OnWrite(s)
    \/ OnCut(s) \/ Expire(s)

\* A process that has ended does nothing more.
Ended == phase = "exited" /\ UNCHANGED vars

Next ==
    \/ Serve \/ ReconcilerEnds \/ CloseAcceptor \/ Connect \/ AcceptFails
    \/ \E c \in Call : Signal(c) \/ Closing(c)
    \/ \E s \in Session : Ask(s) \/ OnSession(s)
    \/ Ended

Spec == Init /\ [][Next]_vars

\* Threads run what they are handed, timers fire, and a request is answered or
\* given up.  Nothing is asked of the clients or of whoever sends signals.
FairSpec ==
    /\ Spec
    /\ WF_vars(Serve) /\ WF_vars(ReconcilerEnds) /\ WF_vars(CloseAcceptor)
    /\ WF_vars(AcceptFails)
    /\ \A c \in Call : WF_vars(Closing(c))
    /\ \A s \in Session : WF_vars(OnSession(s))
-----------------------------------------------------------------------------
\* Shutting down "drops the connections that are only waiting, instead of
\* holding them until they time out" (doc/database/cluster.md), and no others.
\* Once every close() has walked the connections and what it dispatched has run,
\* none waits for a request, but one that was told before it began to: one that
\* is being answered or accepted as close() walks past must not go on waiting.
\* And none is cut that owes its client an answer, through a drain, a close and
\* both at once.
OnlyWaitersAreCut ==
    \A s \in Session :
        /\ /\ \A c \in Call : call[c] \in {"none", "done"}
           /\ ~open
           /\ session[s] = "waiting"
           => s \in told \cup early
        /\ s \in owed => session[s] \notin {"cut", "dropped"}

\* The store and the router outlive everything that uses them: connections, a
\* close() under way, and the reconciling thread, also when it was started after
\* close() had looked for it.
StoreOutlivesUsers ==
    phase \in {"destroyed", "exited"} =>
        /\ reconciler = "ended"
        /\ \A s \in Session : session[s] \notin Live
        /\ \A c \in Call : call[c] \in {"none", "done"}

\* A process that is told to stop ends, wherever it was in starting up, however
\* often it is told, and whatever its clients do ("Closing the acceptor is what
\* ends serving, and main leaves on its own once it has", main.cpp).
ServingEnds ==
    \A c \in Call : (call[c] # "none") ~> (phase = "exited")
=============================================================================
