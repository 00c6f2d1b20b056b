-------------------------------- MODULE Reads --------------------------------
(***************************************************************************)
(* Reads, scans and walks of one partition, while its copies are written,  *)
(* die, come back with or without their disks and are filled again         *)
(* (router/router.cpp: route_record, read_here, read_record, scan_records, *)
(* answer_page, route_file; scan/scan.cpp; repository/                     *)
(* rocksdb_repository.cpp: scan_records, export_records).  One table.      *)
(*                                                                         *)
(* The membership stands, and every node goes by it.  Keys are numbers in  *)
(* the order of the store; what is written under one is left out.  How a   *)
(* rebuild or a pass moves records is Transfer's, and when it vouches      *)
(* Vouching's: here each is one step.                                      *)
(***************************************************************************)
EXTENDS Naturals, Sequences, SequencesExt, FiniteSetsExt

CONSTANTS
    Node,       \* the nodes of the cluster
    Copies,     \* those that hold the partition, one of each zone
    Keys,       \* bound: keys
    Drawn,      \* what instance_name may be
    MaxDeaths,  \* bound: deaths of nodes
    Tasks       \* what is asked for

Key == 1 .. Keys
Gets == [task : {"get"}, key : Key]
\* from is below to, or the range is refused
Scans == {q \in [task : {"scan"}, lo : Key, hi : 2 .. Keys + 1, reverse : BOOLEAN,
                 limit : 1 .. Keys] : q.lo < q.hi}
Walks == [task : {"walk"}, source : Copies, points : SUBSET Key]
Piece == [from : 0 .. Keys, to : 1 .. Keys + 1]

ASSUME ReadsAssumption ==
    /\ Copies \subseteq Node /\ Copies # {}
    /\ Keys \in Nat \ {0} /\ MaxDeaths \in Nat
    /\ Tasks \subseteq Gets \cup Scans \cup Walks

VARIABLES
    \* the nodes
    up, store,
    tables,     \* those with a table in their store
    short,      \* those that do not vouch for the partition
    instance,   \* instance_name of each
    deaths,
    \* the one who asks
    ask,        \* what is asked: a key, a range, or the pieces of a walk
    at,         \* how it stands
    left,       \* the copies still to be asked for the answer
    looked,     \* the node that has looked the key up and missed it, if there is one
    cursor,     \* where the next page begins, or None
    pieces,     \* the pieces of a walk not yet read to their end
    result,     \* the records it was given, in order
    \* history
    acked,      \* the records every copy took, and some copy has
    sure,       \* those of them it asked for that were there throughout
    thin,       \* nodes that vouch for what they were never given
    tainted     \* it was answered by one of these, or by one that was given the
                \* record between its look and its answer

nodes == <<up, store, tables, short, instance, deaths, acked, thin>>
client == <<ask, at, left, looked, cursor, pieces, result, sure, tainted>>
readsVars == <<nodes, client>>

None == [k |-> 0, s |-> 0]
Cursors == [k : Key, s : Drawn] \cup {None}

ReadsTypeOK ==
    /\ up \subseteq Node /\ tables \subseteq Node
    /\ store \in [Node -> SUBSET Key]
    /\ short \subseteq Copies /\ thin \subseteq Copies \ short
    /\ instance \in [Node -> Drawn]
    /\ deaths \in 0 .. MaxDeaths
    /\ ask \in Tasks
    /\ at \in {"idle", "asking", "walking", "found", "absent", "whole", "refused",
              "no table"}
    /\ left \subseteq Copies /\ looked \subseteq Copies
    /\ cursor \in Cursors /\ pieces \subseteq Piece
    /\ result \in Seq(Key)
    /\ acked \subseteq Key /\ sure \subseteq Key /\ tainted \in BOOLEAN

\* A cluster that has been written to, and nobody asks yet.
ReadsInit ==
    /\ up = Node /\ tables = Node /\ short = {} /\ thin = {}
    /\ acked \in SUBSET Key
    /\ store = [n \in Node |-> IF n \in Copies THEN acked ELSE {}]
    /\ instance \in [Node -> Drawn]
    /\ deaths = 0
    /\ ask \in Tasks
    /\ at = "idle" /\ left = {} /\ looked = {} /\ cursor = None /\ pieces = {} /\ result = <<>>
    /\ sure = {} /\ tainted = FALSE
-----------------------------------------------------------------------------
(* The copies *)

\* A write reaches some of the copies, and is acknowledged if it reached all.
Write(k, S) ==
    /\ S \subseteq Copies \cap up \cap tables /\ \E n \in S : k \notin store[n]
    /\ store' = [n \in Node |-> IF n \in S THEN store[n] \cup {k} ELSE store[n]]
    /\ acked' = IF S = Copies THEN acked \cup {k} ELSE acked
    /\ UNCHANGED <<up, tables, short, instance, deaths, thin, client>>

\* The process of a copy dies, and its disk with it or not.
Die(n, lost) ==
    /\ n \in up /\ deaths < MaxDeaths
    /\ deaths' = deaths + 1
    /\ up' = up \ {n}
    /\ store' = IF lost THEN [store EXCEPT ![n] = {}] ELSE store
    /\ tables' = IF lost THEN tables \ {n} ELSE tables
    /\ acked' = {k \in acked : \E m \in Copies : k \in store'[m]}
    /\ sure' = IF ask.task = "walk" THEN sure \cap store'[ask.source]
               ELSE sure \cap acked'
    /\ looked' = looked \ {n}
    /\ UNCHANGED <<short, instance, thin, ask, at, left, cursor, pieces, result, tainted>>

Starts(n) ==
    /\ n \notin up
    /\ up' = up \cup {n}
    /\ instance' \in {[instance EXCEPT ![n] = s] : s \in Drawn}

\* A store with tables in it is taken for whole: the node vouches for all of it,
\* also where the rebuild of the process before was cut short.
Return(n) ==
    /\ Starts(n)
    /\ n \in tables
    /\ thin' = thin \cup (short \cap {n})
    /\ short' = short \ {n}
    /\ UNCHANGED <<store, tables, deaths, acked, client>>

\* n has the tables once m has named its own.
Named(n, m) == tables' = IF m \in tables THEN tables \cup {n} ELSE tables

\* An empty one is rebuilt from a copy in another zone, whatever that copy is
\* short of itself; where that is cut short the node starts with what it has.
Rebuild(n) ==
    /\ Starts(n)
    /\ n \notin tables
    /\ \E m \in Copies \cap up :
        /\ Named(n, m)
        /\ \E taken \in SUBSET store[m] :
            /\ store' = [store EXCEPT ![n] = taken]
            /\ short' = IF taken = store[m] THEN short \ {n} ELSE short \cup {n}
            /\ thin' = IF taken = store[m] /\ m \in short \cup thin
                       THEN thin \cup {n} ELSE thin \ {n}
    /\ UNCHANGED <<deaths, acked, client>>

\* No copy answers, not even with its tables.
StartEmpty(n) ==
    /\ Starts(n)
    /\ n \notin tables
    /\ short' = short \cup {n}
    /\ thin' = thin \ {n}
    /\ UNCHANGED <<store, tables, deaths, acked, client>>

\* A pass that was named the tables and read every other copy.  One that was
\* named none has nothing to read, and vouches for it all the same.
Fill(n) ==
    /\ Copies \subseteq up /\ n \in short \cup thin
    /\ \E m \in Node \ {n} : Named(n, m)
    /\ IF n \in tables'
       THEN /\ Copies \subseteq tables'
            /\ store' = [store EXCEPT ![n] = UNION {store[m] : m \in Copies}]
            /\ thin' = thin \ {n}
       ELSE thin' = thin \cup {n} /\ UNCHANGED store
    /\ short' = short \ {n}
    /\ UNCHANGED <<up, instance, deaths, acked, client>>
-----------------------------------------------------------------------------
(* One node answers out of its store *)

\* Mutant of NotFound: a miss is a record that is not there.
NotFoundAlways(m) == TRUE

\* read_here: whether a miss is answered as one, and not as node_incomplete.
NotFound(m) == m \notin short

\* scan_records: whether the node answers a page, and not node_incomplete.
Whole(m) == m \notin short

\* Mutant of Others: every node is asked.
Everyone(n) == Node \ {n}

\* The copies another node is asked for.
Others(n) == Copies \ {n}

Answered(m, how) ==
    /\ at' = how
    /\ left' = {} /\ looked' = {}
    /\ tainted' = (tainted \/ m \in thin)

\* read_here looks the key up, and asks whether the node vouches for the
\* partition only once it has missed it.
Look(m) ==
    IF ask.key \in store[m] THEN Answered(m, "found")
    ELSE /\ at' = "walking"
         /\ left' = left \ {m} /\ looked' = {m}
         /\ UNCHANGED tainted

\* A miss is answered, or is node_incomplete and the node passed over.
Miss(m) ==
    /\ at = "walking" /\ m \in looked
    /\ IF NotFound(m)
       THEN /\ at' = "absent" /\ left' = {}
            /\ tainted' = (tainted \/ m \in thin \/ ask.key \in store[m])
       ELSE UNCHANGED <<at, left, tainted>>
    /\ looked' = {}
    /\ UNCHANGED <<nodes, ask, cursor, pieces, result, sure>>

\* Mutant of After: the next page begins at the key the last one ended with.
Again(k) == k

\* The first key after k: k followed by a zero byte.
After(k) == k + 1

\* A set of keys in the order an iterator comes to them.
Listing(S, reverse) ==
    CHOOSE s \in [1 .. Cardinality(S) -> S] :
        \A i, j \in DOMAIN s :
            i < j => IF reverse THEN s[i] > s[j] ELSE s[i] < s[j]

\* The records of a range from where its cursor stands, as the store walks them.
InRange(m) ==
    LET lo == IF cursor # None /\ ~ask.reverse THEN After(cursor.k) ELSE ask.lo
        hi == IF cursor # None /\ ask.reverse THEN cursor.k ELSE ask.hi
    IN  Listing({k \in store[m] : lo <= k /\ k < hi}, ask.reverse)

\* answer_page: a cursor of another instance is refused.  A page ends at the
\* limit, or at the budget of bytes once there is a record on it, and has a
\* cursor if there was one more.
Page(m) ==
    IF cursor # None /\ cursor.s # instance[m]
    THEN Answered(m, "refused") /\ UNCHANGED <<cursor, result>>
    ELSE LET records == InRange(m) IN
         \E n \in 0 .. Min({ask.limit, Len(records)}) :
            /\ n = 0 => records = <<>>
            /\ result' = result \o SubSeq(records, 1, n)
            /\ cursor' = IF n < Len(records) THEN [k |-> records[n], s |-> instance[m]]
                         ELSE None
            /\ Answered(m, IF n < Len(records) THEN "asking" ELSE "whole")
-----------------------------------------------------------------------------
(* A read or a scan, through whichever node is asked *)

\* The client begins.
Begin ==
    /\ at = "idle"
    /\ at' = "asking"
    /\ sure' = CASE ask.task = "get" -> acked \cap {ask.key}
                 [] ask.task = "scan" -> {k \in acked : ask.lo <= k /\ k < ask.hi}
                 [] OTHER -> store[ask.source]
    /\ pieces' = IF ask.task = "walk"
                 THEN {[from |-> Max({0} \cup {p \in ask.points : p < q}), to |-> q] :
                        q \in ask.points \cup {Keys + 1}}
                 ELSE {}
    /\ UNCHANGED <<nodes, ask, left, looked, cursor, result, tainted>>

\* A node is asked, and asks the copies if it cannot answer by itself.
Route(n) ==
    /\ at' = "walking"
    /\ left' = Others(n)
    /\ UNCHANGED <<looked, tainted>>

\* One without the table answers node_incomplete if it is short of anything, and
\* the client asks again.
Get(n) ==
    /\ ask.task = "get" /\ at = "asking" /\ n \in up
    /\ n \in tables \/ NotFound(n)
    /\ CASE n \notin tables -> Answered(n, "no table")
         [] n \in tables /\ n \in Copies /\ (ask.key \in store[n] \/ Others(n) = {}) -> Look(n)
         [] OTHER -> Route(n)
    /\ UNCHANGED <<nodes, ask, cursor, pieces, result, sure>>

Scan(n) ==
    /\ ask.task = "scan" /\ at = "asking" /\ n \in up
    /\ IF n \notin tables THEN Answered(n, "no table") /\ UNCHANGED <<cursor, result>>
       ELSE IF n \in Copies /\ Whole(n) THEN Page(n)
       ELSE Route(n) /\ UNCHANGED <<cursor, result>>
    /\ UNCHANGED <<nodes, ask, pieces, sure>>

\* read_record: the next copy is forwarded to, and its answer is the answer, also
\* that it has no such table.
Forward(m) ==
    /\ at = "walking" /\ looked = {} /\ m \in left \cap up
    /\ CASE m \notin tables -> Answered(m, "no table") /\ UNCHANGED <<cursor, result>>
         [] m \in tables /\ ask.task = "get" -> Look(m) /\ UNCHANGED <<cursor, result>>
         [] OTHER -> Whole(m) /\ Page(m)
    /\ UNCHANGED <<nodes, ask, pieces, sure>>

\* One that does not answer, or answers node_incomplete, is passed over.
PassOver(m) ==
    /\ at = "walking"
    /\ looked = {m} \/ (looked = {} /\ m \in left)
    /\ left' = left \ {m} /\ looked' = {}
    /\ UNCHANGED <<nodes, ask, at, cursor, pieces, result, sure, tainted>>

\* No copy answered, or the node that was asked died: the client asks again.
Fails ==
    /\ at = "walking"
    /\ at' = "asking" /\ left' = {} /\ looked' = {}
    /\ UNCHANGED <<nodes, ask, cursor, pieces, result, sure, tainted>>
-----------------------------------------------------------------------------
(* A walk of what one node holds, in pieces and files *)

\* Mutant of InPiece: the piece ends before its last key.
BelowEnd(k, p) == p.from < k /\ k < p.to

\* A piece begins after the key the one before it ended at, and ends at its own.
InPiece(k, p) == p.from < k /\ k <= p.to

\* export_records: a file ends when its budget is spent, and then there may be
\* more, or at the end of the piece.
AskFile(p) ==
    /\ ask.task = "walk" /\ at = "asking" /\ ask.source \in up \cap tables
    /\ p \in pieces
    /\ LET records == Listing({k \in store[ask.source] : InPiece(k, p)}, FALSE)
       IN  \E n \in 0 .. Len(records), more \in BOOLEAN :
            /\ more => n > 0
            /\ ~more => n = Len(records)
            /\ result' = result \o SubSeq(records, 1, n)
            /\ pieces' = (pieces \ {p}) \cup
                         (IF more THEN {[p EXCEPT !.from = records[n]]} ELSE {})
    /\ at' = IF pieces' = {} THEN "whole" ELSE at
    /\ UNCHANGED <<nodes, ask, left, looked, cursor, sure, tainted>>
-----------------------------------------------------------------------------
\* What happens to the copies until the client has its answer.
Cluster ==
    /\ at \in {"idle", "asking", "walking"}
    /\ \/ \E k \in Key, S \in SUBSET Copies : Write(k, S)
       \/ \E n \in Copies :
           \/ \E lost \in BOOLEAN : Die(n, lost)
           \/ Return(n) \/ Rebuild(n) \/ StartEmpty(n) \/ Fill(n)

Client ==
    \/ Begin \/ Fails
    \/ \E n \in Node : Get(n) \/ Scan(n) \/ Forward(n) \/ Miss(n) \/ PassOver(n)
    \/ \E p \in pieces : AskFile(p)

ReadsNext == Cluster \/ Client

ReadsSpec == ReadsInit /\ [][ReadsNext]_readsVars
-----------------------------------------------------------------------------
\* A record that was acknowledged and is still anywhere is never answered as
\* missing, whichever node is asked and whichever copies are down, empty or
\* being filled ("nothing is answered as absent that is not",
\* doc/database/cluster.md), but by a node that vouches for what it was never
\* given, or was given the record after it had looked for it.
NotFoundIsTrue ==
    at = "absent" /\ ~tainted => ask.key \notin sure

\* The pages of a scan, one after the other, are in the order of the keys and
\* hold none twice ("resumes strictly after that", doc/database/scans.md), though
\* they may be of several copies and records are written around the cursor; and
\* a scan that came to its end was given every record of its range that was
\* there from its first page to its last.
ScanIsExact ==
    ask.task = "scan" =>
        /\ \A i, j \in DOMAIN result :
             i < j => IF ask.reverse THEN result[i] > result[j] ELSE result[i] < result[j]
        /\ at = "whole" /\ ~tainted => sure \subseteq ToSet(result)

\* The files of a walk that came to the end of every piece hold every record
\* the node held throughout, wherever it was cut up and however the files
\* ended, and none twice.
PiecesCover ==
    ask.task = "walk" =>
        /\ IsInjective(result)
        /\ at = "whole" => sure \subseteq ToSet(result)
=============================================================================
