------------------------------ MODULE Vouching ------------------------------
(***************************************************************************)
(* What one node answers "not found" for, from its start to its last       *)
(* reconcile pass (server/server.cpp: serve, reconcile;                    *)
(* reconcile/reconcile.cpp; cluster/etcd_cluster.cpp: replace_members,     *)
(* vouch).                                                                 *)
(*                                                                         *)
(* A node that is handed a partition holds nothing of it until a pass has  *)
(* fetched it, and vouches for it from then until the membership takes it  *)
(* away.  The membership thread replaces the membership at any time; the   *)
(* reconciling thread looks at it once a tick, and again and again in the  *)
(* course of a pass, each time as it stands by then.                       *)
(*                                                                         *)
(* What is fetched is left out: a share is the partitions asked of one     *)
(* node, for all tables at once, and it is read whole or it is not.        *)
(***************************************************************************)
EXTENDS Partition

CONSTANTS
    Self,               \* the node
    SelfZone,           \* its zone
    Attempts,           \* reconcile_attempts, 12 in the code
    MaxGeneration,      \* bound: memberships read
    MaxRegistrations    \* bound: registrations made

ASSUME VouchingAssumption ==
    /\ Self \in Node
    /\ SelfZone \in Zone
    /\ Attempts \in Nat \ {0}
    /\ MaxGeneration \in Nat
    /\ MaxRegistrations \in Nat

VARIABLES
    \* etcd_cluster
    members,        \* member_list
    generation,     \* members_generation
    holding,        \* the partitions held under members
    since,          \* held_since: the generation each was last gained in
    filled,         \* the partitions vouched for
    registrations,  \* how often the node has registered
    \* the reconciling thread
    seen,           \* the membership it last acted on
    registered,     \* the registrations it last acted on
    attempts,       \* passes left
    pass,           \* the pass under way
    \* history
    kept,           \* during a pass: held without a break since it began
    brought         \* before the thread begins: what the store was left with,
                    \* the rebuild read, or nobody else was there to hold

cluster == <<members, generation, holding, since, filled, registrations>>
loop == <<seen, registered, attempts>>
history == <<kept, brought>>
vars == <<members, generation, holding, since, filled, registrations,
          seen, registered, attempts, pass, kept, brought>>

\* read_members puts the node itself in every membership.
Views == {m \in Memberships : Self \in DOMAIN m /\ m[Self] = SelfZone}
NoMembers == [n \in {} |-> SelfZone]
Alone(m) == Cardinality(DOMAIN m) < 2

NoPass == [at |-> "idle", generation |-> 0, held |-> {}, asked |-> {},
           unfilled |-> {}, declared |-> FALSE, clean |-> TRUE, moved |-> FALSE]

TypeOK ==
    /\ members \in Views \cup {NoMembers}
    /\ generation \in Nat
    /\ holding \subseteq Part
    /\ since \in [Part -> Nat]
    /\ filled \subseteq holding
    /\ registrations \in Nat
    /\ seen \in Views \cup {NoMembers}
    /\ registered \in Nat
    /\ attempts \in 0 .. Attempts
    /\ pass \in [at : {"serve", "rebuild", "start", "joined", "idle", "begin",
                       "zones", "holdings", "holders", "fetch", "vouch"},
                 generation : Nat, held : SUBSET Part,
                 asked : SUBSET (Node \X Part), unfilled : SUBSET Part,
                 declared : BOOLEAN, clean : BOOLEAN, moved : BOOLEAN]
    /\ kept \subseteq Part
    /\ brought \subseteq Part

\* The constructor: no membership is this node holding every partition.
Init ==
    /\ members = NoMembers
    /\ generation = 0
    /\ holding = Part
    /\ since = [p \in Part |-> 0]
    /\ filled = {}
    /\ registrations = 0
    /\ seen = NoMembers
    /\ registered = 0
    /\ attempts = 0
    /\ pass = [NoPass EXCEPT !.at = "serve"]
    /\ kept = {}
    /\ brought = {}
-----------------------------------------------------------------------------
(* etcd_cluster *)

\* Mutant of Gained: what the node lost and got back is not gained.
GainedOnce(owned) == {p \in owned \ holding : since[p] = 0}

\* The partitions a membership hands to the node.
Gained(owned) == owned \ holding

\* Mutant of ReplaceMembers: what is taken away stays vouched for.
ReplaceKeepsVouching(m) ==
    LET owned == HoldingsOf(m, Self)
    IN  /\ generation < MaxGeneration
        /\ members' = m
        /\ generation' = generation + 1
        /\ since' = [p \in Part |-> IF p \in Gained(owned)
                                    THEN generation + 1 ELSE since[p]]
        /\ holding' = owned
        /\ kept' = kept \cap owned
        /\ UNCHANGED filled

\* replace_members
ReplaceMembers(m) ==
    LET owned == HoldingsOf(m, Self)
    IN  /\ generation < MaxGeneration
        /\ members' = m
        /\ generation' = generation + 1
        /\ since' = [p \in Part |-> IF p \in Gained(owned)
                                    THEN generation + 1 ELSE since[p]]
        /\ filled' = filled \cap owned
        /\ holding' = owned
        /\ kept' = kept \cap owned

\* vouch: of the partitions given, those held since the generation or before.
Vouched(partitions, from) ==
    {p \in partitions \cap holding : since[p] <= from}

\* read_members hears nothing: what was read last is kept.
KeepMembers ==
    /\ members # NoMembers
    /\ UNCHANGED <<members, generation, holding, since, filled, kept>>

\* A pass of the membership thread.  Where the lease had run out it registers
\* again, before it reads the members.
Register ==
    /\ pass.at \notin {"serve", "rebuild", "start"}
    /\ registrations < MaxRegistrations
    /\ registrations' = registrations + 1
    /\ UNCHANGED <<members, generation, holding, since, filled, loop, pass, history>>

ReadMembers(m) ==
    /\ pass.at \notin {"serve", "rebuild", "start"}
    /\ ReplaceMembers(m)
    /\ UNCHANGED <<registrations, loop, pass, brought>>
-----------------------------------------------------------------------------
(* serve *)

\* discover reads the members, or hears nothing and names only itself; then
\* the generation the rebuild goes by.
Discover(m) ==
    /\ pass.at = "serve"
    /\ ReplaceMembers(m)
    /\ pass' = [pass EXCEPT !.at = "rebuild", !.generation = generation']
    /\ UNCHANGED <<registrations, loop, brought>>

\* A rebuild that is whole vouches for all the node holds.  A node that came
\* up short, or returned to its store, is given its passes.
Rebuilt(returning, whole) ==
    /\ pass.at = "rebuild"
    /\ filled' = IF whole THEN Vouched(Part, pass.generation) ELSE filled
    /\ attempts' = IF returning \/ ~whole THEN Attempts ELSE 0
    /\ pass' = [pass EXCEPT !.at = "start"]
    /\ UNCHANGED <<members, generation, holding, since, registrations, seen,
                   registered, kept>>

\* What a node returns to is not rebuilt.
ReturnToStore == Rebuilt(TRUE, TRUE) /\ brought' = Part

\* zones() names nobody while the node is alone, and its own zone otherwise.
RebuildZones == IF Alone(members) THEN {} ELSE ZonesOf(members, Self, SelfZone)

\* Nowhere to read from is a rebuild that is whole; otherwise the share was
\* read whole from one zone, or from none.
Rebuild ==
    IF Cardinality(RebuildZones) < 2
    THEN Rebuilt(FALSE, TRUE) /\ brought' = IF Alone(members) THEN Part ELSE {}
    ELSE \E whole \in BOOLEAN :
           /\ Rebuilt(FALSE, whole)
           /\ brought' = IF whole THEN holding ELSE {}

\* nodes.start(): the first refresh registers the node and reads the members,
\* unless etcd answers neither.
Start(m) ==
    /\ pass.at = "start"
    /\ ReplaceMembers(m) \/ KeepMembers
    /\ registrations' \in {0, 1}
    /\ pass' = [pass EXCEPT !.at = "joined"]
    /\ UNCHANGED <<loop, brought>>
-----------------------------------------------------------------------------
(* The reconciling thread. *)

\* What the thread starts on is not a change.
LoopBegin ==
    /\ pass.at = "joined"
    /\ seen' = members
    /\ registered' = registrations
    /\ pass' = NoPass
    /\ brought' = {}
    /\ UNCHANGED <<cluster, attempts, kept>>

Changed == seen # members \/ registrations # registered

\* Where the node is until the thread looks at the membership.
Beginning == {"serve", "rebuild", "start", "joined"}

\* Mutant of NoteChange: the passes are not given back.
NoteChangeAlone ==
    /\ pass.at = "idle"
    /\ Changed
    /\ seen' = members
    /\ registered' = registrations
    /\ UNCHANGED <<cluster, attempts, pass, history>>

\* A tick finds the membership moved: its passes begin on the next one.
NoteChange ==
    /\ pass.at = "idle"
    /\ Changed
    /\ seen' = members
    /\ registered' = registrations
    /\ attempts' = Attempts
    /\ UNCHANGED <<cluster, pass, history>>

\* A tick finds it as it was, and passes left.
StartPass ==
    /\ pass.at = "idle"
    /\ ~Changed
    /\ attempts > 0
    /\ attempts' = attempts - 1
    /\ pass' = [NoPass EXCEPT !.at = "begin"]
    /\ UNCHANGED <<cluster, seen, registered, history>>

\* reconcile(): the generation is read before anything else.
ReadGeneration ==
    /\ pass.at = "begin"
    /\ pass' = [pass EXCEPT !.at = "zones", !.generation = generation]
    /\ kept' = holding
    /\ UNCHANGED <<cluster, loop, brought>>

\* A node alone has nobody to ask: it is done, with every partition.
ReadZones ==
    /\ pass.at = "zones"
    /\ pass' = IF Alone(members)
               THEN [pass EXCEPT !.at = "vouch", !.held = Part, !.declared = TRUE]
               ELSE [pass EXCEPT !.at = "holdings"]
    /\ UNCHANGED <<cluster, loop, history>>

\* declare_tables finds a node that names its tables, or none; then what the
\* node holds is read.
ReadHoldings ==
    /\ pass.at = "holdings"
    /\ \E declared \in BOOLEAN :
         pass' = [pass EXCEPT !.at = "holders", !.declared = declared,
                              !.held = holding]
    /\ UNCHANGED <<cluster, loop, history>>

\* The nodes to ask for it.  Nobody is asked where there are no tables.
ReadHolders ==
    /\ pass.at = "holders"
    /\ \E asked \in {{}, IF Alone(members) THEN {}
                         ELSE HoldersOf(pass.held, members, Self, SelfZone)} :
         pass' = [pass EXCEPT !.at = "fetch", !.asked = asked]
    /\ UNCHANGED <<cluster, loop, history>>

\* fetch_from: a node's share is read whole; or it is refused, or patience ran
\* out, which leaves its partitions unfilled and the pass unsettled.
Fetch(n) ==
    LET share == {p \in Part : <<n, p>> \in pass.asked}
    IN  /\ pass.at = "fetch"
        /\ share # {}
        /\ \E whole, took \in BOOLEAN :
             pass' = [pass EXCEPT !.asked = {a \in @ : a[1] # n},
                                  !.unfilled = IF whole THEN @ ELSE @ \cup share,
                                  !.clean = @ /\ whole,
                                  !.moved = @ \/ took]
        /\ UNCHANGED <<cluster, loop, history>>

\* The clear down: everything was given up, or something is still deferred.
ClearDown ==
    /\ pass.at = "fetch"
    /\ pass.asked = {}
    /\ \E settled, gave \in BOOLEAN :
         pass' = [pass EXCEPT !.at = "vouch", !.clean = @ /\ settled,
                              !.moved = @ \/ gave]
    /\ UNCHANGED <<cluster, loop, history>>

\* The pass is done: what it filled is vouched for, and a pass that settled is
\* the last, where one that moved something gets all its attempts back.
VouchForPass ==
    /\ pass.at = "vouch"
    /\ filled' = IF pass.declared
                 THEN filled \cup Vouched(pass.held \ pass.unfilled, pass.generation)
                 ELSE filled
    /\ attempts' = IF pass.clean THEN 0
                   ELSE IF pass.moved THEN Attempts
                   ELSE attempts
    /\ pass' = NoPass
    /\ kept' = {}
    /\ UNCHANGED <<members, generation, holding, since, registrations, seen,
                   registered, brought>>

\* The pass throws: the attempts left run the rest.
PassThrows ==
    /\ pass.at \in {"holdings", "holders", "fetch"}
    /\ pass' = NoPass
    /\ kept' = {}
    /\ UNCHANGED <<cluster, loop, brought>>

Pass ==
    \/ ReadGeneration \/ ReadZones \/ ReadHoldings \/ ReadHolders
    \/ \E n \in Node : Fetch(n)
    \/ ClearDown \/ VouchForPass \/ PassThrows

Loop == LoopBegin \/ NoteChange \/ StartPass \/ Pass

Next ==
    \/ Register
    \/ \E m \in Views : ReadMembers(m) \/ Discover(m) \/ Start(m)
    \/ ReturnToStore \/ Rebuild
    \/ Loop

Spec == Init /\ [][Next]_vars

\* The reconciling thread is woken every tick, and nothing it does waits for
\* ever: every request has a timeout and each half of a pass its patience.
FairSpec == Spec /\ WF_vars(Loop)
-----------------------------------------------------------------------------
\* "A partition is vouched for only if this node has held it without a break
\* since the generation the filling began at" (cluster.h, vouch), however the
\* membership moved between the five times a pass looks at it.
VouchedHeldThroughout ==
    [][pass.at = "vouch" => filled' \ filled \subseteq kept]_vars

\* A membership or a registration the thread has not acted on is followed by a
\* pass that begins under it, unless there is another membership or registration
\* first: none is forgotten between two ticks, nor while a pass runs or throws,
\* however often the same membership is read again.
ChangeIsTried ==
    \A m \in Views, r \in 0 .. MaxRegistrations :
        (pass.at \notin Beginning /\ members = m /\ registrations = r /\ Changed)
            ~> (members # m \/ registrations # r \/ pass.at = "begin")

\* "When it appears in the membership it has either read the whole of its share
\* or is saying it did not" (doc/runbook/rebuild.md).  Not so where the cluster
\* has one zone: no run checks it, and TLC refutes it in a few steps.
JoinsWholeOrIncomplete ==
    pass.at = "joined" /\ registrations > 0 /\ ~Alone(members)
        => filled \subseteq brought
=============================================================================
