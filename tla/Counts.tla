------------------------------- MODULE Counts -------------------------------
(***************************************************************************)
(* The counts a node stamps its writes with (rocksdb_repository:           *)
(* next_count, reserve_counts).  A block of them is reserved on disk       *)
(* before any of it is handed out, and a process that ends gives up what   *)
(* is left of its block.  A read of the disk that is refused is taken for  *)
(* no block reserved yet, and the counts begin again.                      *)
(*                                                                         *)
(* count_mutex is held through a call, so calls are one after another and  *)
(* only the end of the process comes between two steps of one.             *)
(***************************************************************************)
EXTENDS Naturals

CONSTANTS
    Block,      \* counts_per_reservation, a million in the code
    MaxBlocks   \* bound: blocks ever reserved

ASSUME CountsAssumption == Block \in Nat \ {0} /\ MaxBlocks \in Nat

VARIABLES
    written,    \* on disk, under COUNT: the end of the last block reserved
    counts,     \* the last count handed out of the block in memory
    reserved,   \* its end
    stage,      \* "reserving": a block is written, and not yet in memory
    \* history
    highest,    \* the highest count handed out by any process
    forgotten   \* the highest end of a block that could not be read, and was
                \* taken for none

countsVars == <<written, counts, reserved, stage, highest, forgotten>>

CountsTypeOK ==
    /\ written \in Nat /\ counts \in Nat /\ reserved \in Nat
    /\ stage \in {"ready", "reserving"}
    /\ highest \in Nat /\ forgotten \in Nat

CountsInit ==
    /\ written = 0 /\ counts = 0 /\ reserved = 0
    /\ stage = "ready"
    /\ highest = 0 /\ forgotten = 0

AtLeast(n, floor) == IF floor > n THEN floor ELSE n

\* Mutant of BlockSpent: one more than the block is handed out.
BlockOverspent == counts > reserved

\* The block in memory, none at all in a new process, is used up.
BlockSpent == counts = reserved

\* next_count with something left of the block.
NextCount ==
    /\ stage = "ready"
    /\ ~BlockSpent
    /\ counts' = counts + 1
    /\ highest' = AtLeast(highest, counts')
    /\ UNCHANGED <<written, reserved, stage, forgotten>>

\* next_count with nothing left: reserve_counts comes by the end of the blocks
\* reserved so far and writes the end of a new one.
Reserve(base) ==
    /\ stage = "ready"
    /\ BlockSpent
    /\ base < Block * MaxBlocks
    /\ written' = base + Block
    /\ stage' = "reserving"
    /\ UNCHANGED <<counts, reserved, highest>>

\* It reads it; or the read is refused, and it is none.
ReserveCounts == Reserve(written) /\ UNCHANGED forgotten

ReserveUnread == Reserve(0) /\ forgotten' = AtLeast(forgotten, written)

\* The rest of that call: the block is the one in memory and its first count is
\* handed out.
NextOfBlock ==
    /\ stage = "reserving"
    /\ counts' = written - Block + 1
    /\ reserved' = written
    /\ stage' = "ready"
    /\ highest' = AtLeast(highest, counts')
    /\ UNCHANGED <<written, forgotten>>

\* The process ends, wherever it is, and another starts.
ProcessEnds ==
    /\ counts' = 0 /\ reserved' = 0
    /\ stage' = "ready"
    /\ UNCHANGED <<written, highest, forgotten>>

CountsNext ==
    NextCount \/ ReserveCounts \/ ReserveUnread \/ NextOfBlock \/ ProcessEnds

CountsSpec == CountsInit /\ [][CountsNext]_countsVars
-----------------------------------------------------------------------------
\* A count is never handed out twice by one store, nor out of order, however
\* often the process ended in between: two writes one node stamps in one term
\* are told apart by it, and the later is the newer.  "A process that ends
\* without warning gives up the rest of its block rather than issuing counts the
\* one after it will issue again" (reserve_counts): but a reservation that
\* cannot read the last one does issue again what is within it, and no more.
CountsRise ==
    [][NextCount \/ NextOfBlock => counts' > highest \/ counts' <= forgotten]_countsVars
=============================================================================
