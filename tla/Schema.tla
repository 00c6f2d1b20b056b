------------------------------- MODULE Schema -------------------------------
(***************************************************************************)
(* One table's name in the schema of every node: creates and deletes       *)
(* ordered by the leader of the tables and carried to the others           *)
(* (router/router.cpp: order_schema, create_table, delete_table), and      *)
(* schemas read from one another and merged (table/schema.cpp: merge;      *)
(* repository/rocksdb_repository.cpp: merge_schema; declare_tables).       *)
(*                                                                         *)
(* A request is fenced by accept() first and waits for the node's          *)
(* schema_lock after that.  A leader keeps its lock until every node it    *)
(* carried the operation to has answered; a merge takes no such lock, and  *)
(* can come between what an operation finds and what it does about it.     *)
(*                                                                         *)
(* Leadership is as in module WritePath: a node may lead in a claim of its  *)
(* own before its fence is raised to it.  Every node is in the membership, *)
(* and a table has no dependencies: those are checked against other names. *)
(***************************************************************************)
EXTENDS Naturals

CONSTANTS
    Node,
    Doc,        \* the documents a table may be declared with
    Op,         \* the operations clients ask for
    Requests,   \* what they may ask for: each operation is a table to create,
                \* or NoTable for a delete
    MaxTerm,    \* bound: claims ever made
    Faults      \* what may happen, of
                \*   "late"     a carried operation comes after its leader has
                \*              stopped waiting for it
                \*   "restart"  a process ends and starts again on its store
                \*   "unread"   and the database refuses it the schema's record
                \*   "refused"  the database refuses a create, a delete or
                \*              the schema's record
                \*   "merge"    it refuses a column family within a merge

NoTable == "none"

ASSUME SchemaAssumption ==
    /\ Node # {}
    /\ NoTable \notin Doc
    /\ Requests \subseteq [Op -> Doc \cup {NoTable}]
    /\ MaxTerm \in Nat

VARIABLES
    newest,     \* the newest term claimed
    lead,       \* the term each node takes itself for the leader in, 0 for none
    fence,      \* the newest term each node has seen
    count,      \* the last count each node handed out
    entry,      \* the name's entry in memory (tables)
    saved,      \* the same in the schema's record
    family,     \* whether the node has the column family
    op,         \* each operation at the node that orders it
    leg,        \* leg[w][n]: the operation carried to n
    fetched     \* the entry a pass has read and not merged, if any

store == <<entry, saved, family>>
schemaVars == <<newest, lead, fence, count, entry, saved, family, op, leg, fetched>>

\* A name never heard of is at no version, which every version is later than.
Entries == [term : Nat, count : Nat, table : Doc \cup {NoTable}]
NoEntry == [term |-> 0, count |-> 0, table |-> NoTable]

SchemaTypeOK ==
    /\ newest \in 0 .. MaxTerm
    /\ lead \in [Node -> 0 .. MaxTerm]
    /\ fence \in [Node -> 0 .. MaxTerm]
    /\ count \in [Node -> Nat]
    /\ entry \in [Node -> Entries]
    /\ saved \in [Node -> Entries]
    /\ family \in [Node -> BOOLEAN]
    /\ op \in [Op -> [at : {"new", "led", "looked", "sent", "ok", "refused"},
                      by : Node, term : 0 .. MaxTerm, count : Nat,
                      found : Doc \cup {NoTable}, asked : Doc \cup {NoTable}]]
    /\ leg \in [Op -> [Node -> {"none", "sent", "accepted", "looked", "done",
                                "refused"}]]
    /\ fetched \in [Node -> SUBSET Entries]

SchemaInit ==
    /\ newest = 0
    /\ lead = [n \in Node |-> 0]
    /\ fence = [n \in Node |-> 0]
    /\ count = [n \in Node |-> 0]
    /\ entry = [n \in Node |-> NoEntry]
    /\ saved = [n \in Node |-> NoEntry]
    /\ family = [n \in Node |-> FALSE]
    /\ \E r \in Requests :
         op = [w \in Op |-> [at |-> "new", by |-> CHOOSE n \in Node : TRUE,
                             term |-> 0, count |-> 0, found |-> NoTable,
                             asked |-> r[w]]]
    /\ leg = [w \in Op |-> [n \in Node |-> "none"]]
    /\ fetched = [n \in Node |-> {}]

\* is_newer
IsNewerEntry(e, than) ==
    \/ e.term > than.term
    \/ e.term = than.term /\ e.count > than.count

\* The entry an operation stands for at the version it is stamped with.
EntryOf(w) == [term |-> op[w].term, count |-> op[w].count, table |-> op[w].asked]
-----------------------------------------------------------------------------
(* Leadership of the tables *)

\* Mutant of TermWon: a revision ahead of the claim's.
TermAhead == newest + 2

\* The term of a claim made now.
TermWon == newest + 1

\* A node leads in the claim it made: the thread that won it has raised the
\* node's fence, or another has heard first that the claim is the node's.
Claim(n) ==
    /\ newest < MaxTerm
    /\ newest' = newest + 1
    /\ lead' = [lead EXCEPT ![n] = TermWon]
    /\ \E raised \in {fence[n], TermWon} : fence' = [fence EXCEPT ![n] = raised]
    /\ UNCHANGED <<count, store, op, leg, fetched>>

\* The thread that won it, after that one.
Raise(n) ==
    /\ lead[n] > fence[n]
    /\ fence' = [fence EXCEPT ![n] = lead[n]]
    /\ UNCHANGED <<newest, lead, count, store, op, leg, fetched>>

Unlead(n) ==
    /\ lead[n] # 0
    /\ lead' = [lead EXCEPT ![n] = 0]
    /\ UNCHANGED <<newest, fence, count, store, op, leg, fetched>>
-----------------------------------------------------------------------------
(* The store *)

\* The column family is made or dropped, the entry replaced and the schema
\* written, with the database refusing none of it.
StoreEntry(n, e) ==
    /\ family' = [family EXCEPT ![n] = e.table # NoTable]
    /\ entry' = [entry EXCEPT ![n] = e]
    /\ saved' = [saved EXCEPT ![n] = e]

\* It refuses the family, before anything has changed, or the schema's record,
\* after all else has.
StoreThrows(n, e) ==
    /\ "refused" \in Faults
    /\ \/ /\ family[n] # (e.table # NoTable)
          /\ UNCHANGED store
       \/ /\ family' = [family EXCEPT ![n] = e.table # NoTable]
          /\ entry' = [entry EXCEPT ![n] = e]
          /\ UNCHANGED saved

\* schema_lock: held from what an operation finds to the end of it.
Locked(n) ==
    \E w \in Op : \/ op[w].by = n /\ op[w].at \in {"looked", "sent"}
                  \/ leg[w][n] = "looked"
-----------------------------------------------------------------------------
(* An operation at the node that orders it *)

\* order_schema: leader() says this node leads the tables.
Order(w, n) ==
    /\ op[w].at = "new"
    /\ lead[n] # 0
    /\ op' = [op EXCEPT ![w].at = "led", ![w].by = n, ![w].term = lead[n]]
    /\ UNCHANGED <<newest, lead, fence, count, store, leg, fetched>>

\* Mutant of StampCount: a count that was handed out already.
CountAgain(n) == IF count[n] = 0 THEN 1 ELSE count[n]

\* schema_stamp takes the next count.
StampCount(n) == count[n] + 1

\* With the lock: the table as it is here, and the stamp.
Look(w) ==
    LET n == op[w].by
    IN  /\ op[w].at = "led"
        /\ ~Locked(n)
        /\ count' = [count EXCEPT ![n] = StampCount(n)]
        /\ op' = [op EXCEPT ![w].at = "looked", ![w].count = StampCount(n),
                            ![w].found = entry[n].table]
        /\ UNCHANGED <<newest, lead, fence, store, leg, fetched>>

\* Then it is carried to every other node.
Send(w) ==
    /\ op' = [op EXCEPT ![w].at = "sent"]
    /\ leg' = [leg EXCEPT ![w] = [c \in Node |-> IF c = op[w].by THEN "none" ELSE "sent"]]

End(w, answer) == op' = [op EXCEPT ![w].at = answer] /\ UNCHANGED leg

\* What the leader does itself: nothing for a table that stands as asked, or
\* that is not there to delete.
NothingToDo(w) == op[w].found = op[w].asked

\* A table of other options is refused, and so is the delete of one that is not
\* here while the node is incomplete.
RefuseHere(w) ==
    /\ op[w].at = "looked"
    /\ \/ op[w].asked # NoTable /\ op[w].found \notin {NoTable, op[w].asked}
       \/ op[w].asked = NoTable /\ NothingToDo(w)
    /\ End(w, "refused")
    /\ UNCHANGED <<newest, lead, fence, count, store, fetched>>

Act(w) ==
    /\ op[w].at = "looked"
    /\ \/ NothingToDo(w) /\ UNCHANGED store /\ Send(w)
       \/ /\ ~NothingToDo(w)
          /\ NoTable \in {op[w].found, op[w].asked}
          /\ \/ StoreEntry(op[w].by, EntryOf(w)) /\ Send(w)
             \/ StoreThrows(op[w].by, EntryOf(w)) /\ End(w, "refused")
    /\ UNCHANGED <<newest, lead, fence, count, fetched>>

\* No node refused it: the client is told so, a delete of what the leader did
\* not have being told that instead.
Answer(w) ==
    /\ op[w].at = "sent"
    /\ \A c \in Node \ {op[w].by} : leg[w][c] = "done"
    /\ End(w, "ok")
    /\ UNCHANGED <<newest, lead, fence, count, store, fetched>>

\* A node refused it, or did not answer before the request timed out.
GiveUp(w) ==
    /\ op[w].at = "sent"
    /\ \E c \in Node \ {op[w].by} : leg[w][c] # "done"
    /\ End(w, "refused")
    /\ UNCHANGED <<newest, lead, fence, count, store, fetched>>
-----------------------------------------------------------------------------
(* An operation at a node it was carried to *)

\* accept(): before the lock.
Accept(w, c) ==
    /\ leg[w][c] = "sent"
    /\ op[w].at = "sent" \/ "late" \in Faults
    /\ \/ /\ op[w].term >= fence[c]
          /\ fence' = [fence EXCEPT ![c] = op[w].term]
          /\ leg' = [leg EXCEPT ![w][c] = "accepted"]
       \/ /\ op[w].term < fence[c]
          /\ leg' = [leg EXCEPT ![w][c] = "refused"]
          /\ UNCHANGED fence
    /\ UNCHANGED <<newest, lead, count, store, op, fetched>>

\* With the lock: a create of a table that stands leaves it at the version it
\* has, or is refused for its options.  A delete is carried out either way.
LookCarried(w, c) ==
    /\ leg[w][c] = "accepted"
    /\ ~Locked(c)
    /\ leg' = [leg EXCEPT ![w][c] =
                 IF NoTable \in {op[w].asked, entry[c].table} THEN "looked"
                 ELSE IF entry[c].table = op[w].asked THEN "done"
                 ELSE "refused"]
    /\ UNCHANGED <<newest, lead, fence, count, store, op, fetched>>

\* Applied at the stamp it came with, whatever version is here.
ActCarried(w, c) ==
    /\ leg[w][c] = "looked"
    /\ \/ StoreEntry(c, EntryOf(w)) /\ leg' = [leg EXCEPT ![w][c] = "done"]
       \/ StoreThrows(c, EntryOf(w)) /\ leg' = [leg EXCEPT ![w][c] = "refused"]
    /\ UNCHANGED <<newest, lead, fence, count, op, fetched>>
-----------------------------------------------------------------------------
(* Passes and processes *)

\* transfer::tables: a pass, or a rebuild, reads another node's schema.
ReadSchema(n, m) ==
    /\ n # m
    /\ fetched[n] = {}
    /\ fetched' = [fetched EXCEPT ![n] = {entry[m]}]
    /\ UNCHANGED <<newest, lead, fence, count, store, op, leg>>

\* merge makes or drops a column family where a name goes from live to dropped
\* or back: a live entry in the place of a live one leaves it alone.
MergedFamily(n, e) ==
    IF (entry[n].table = NoTable) # (e.table = NoTable)
    THEN e.table # NoTable ELSE family[n]

\* merge_schema with a later entry: it replaces the one here, then the family is
\* made or dropped, then the schema is written.  Either of the last two may be
\* refused.
Merge(n, e) ==
    /\ entry' = [entry EXCEPT ![n] = e]
    /\ \/ /\ family' = [family EXCEPT ![n] = MergedFamily(n, e)]
          /\ saved' = [saved EXCEPT ![n] = e]
       \/ /\ "refused" \in Faults
          /\ family' = [family EXCEPT ![n] = MergedFamily(n, e)]
          /\ UNCHANGED saved
       \/ /\ "merge" \in Faults
          /\ MergedFamily(n, e) # family[n]
          /\ UNCHANGED <<family, saved>>

\* The schema is written even where nothing of it changed.
MergeSchema(n) ==
    /\ \E e \in fetched[n] :
         \/ IsNewerEntry(e, entry[n]) /\ Merge(n, e)
         \/ /\ ~IsNewerEntry(e, entry[n])
            /\ saved' = [saved EXCEPT ![n] = entry[n]]
            /\ UNCHANGED <<entry, family>>
    /\ fetched' = [fetched EXCEPT ![n] = {}]
    /\ UNCHANGED <<newest, lead, fence, count, op, leg>>

\* The router's constructor: the fence of the tables is the newest term of the
\* names that are live, where their partition has no records of a later one.
RestoredFence(e) == IF e.table = NoTable THEN 0 ELSE e.term

\* What read_tables takes the schema's record for: one that the database refuses
\* is one never written.
Read(n) == {saved[n]} \cup IF "unread" \in Faults THEN {NoEntry} ELSE {}

\* read_tables makes the families match what it read.  What the process was
\* ordering goes unanswered, and what it had accepted and not done is lost.
Restart(n) ==
    /\ "restart" \in Faults
    /\ lead' = [lead EXCEPT ![n] = 0]
    /\ \E e \in Read(n) :
         /\ fence' = [fence EXCEPT ![n] = RestoredFence(e)]
         /\ entry' = [entry EXCEPT ![n] = e]
         /\ family' = [family EXCEPT ![n] = e.table # NoTable]
    /\ op' = [w \in Op |-> IF op[w].by = n /\ op[w].at \in {"led", "looked", "sent"}
                           THEN [op[w] EXCEPT !.at = "refused"] ELSE op[w]]
    /\ leg' = [w \in Op |-> IF leg[w][n] \in {"accepted", "looked"}
                            THEN [leg[w] EXCEPT ![n] = "refused"] ELSE leg[w]]
    /\ fetched' = [fetched EXCEPT ![n] = {}]
    /\ UNCHANGED <<newest, count, saved>>
-----------------------------------------------------------------------------
Leading(w) == Look(w) \/ RefuseHere(w) \/ Act(w) \/ Answer(w) \/ GiveUp(w)
Carried(w, c) == LookCarried(w, c) \/ ActCarried(w, c)

SchemaNext ==
    \/ \E n \in Node : Claim(n) \/ Raise(n) \/ Unlead(n) \/ MergeSchema(n) \/ Restart(n)
    \/ \E n, m \in Node : ReadSchema(n, m)
    \/ \E w \in Op : Leading(w)
    \/ \E w \in Op, n \in Node : Order(w, n) \/ Accept(w, n) \/ Carried(w, n)

SchemaSpec == SchemaInit /\ [][SchemaNext]_schemaVars
-----------------------------------------------------------------------------
\* The stamp schema_stamp made travels with a carried operation: nodes that hold
\* the name at one version hold the same of it, which is what lets merge take
\* the later entry and agree.
StampNamesOneEntry ==
    \A n, m \in Node :
        /\ entry[n].term = entry[m].term
        /\ entry[n].count = entry[m].count
        => entry[n] = entry[m]
=============================================================================
