------------------------------ MODULE Transfer ------------------------------
(***************************************************************************)
(* One walk of a share (transfer/transfer.cpp: walk, carry, take_in;       *)
(* transfer/relay.cpp).  One thread asks a node for files of every piece   *)
(* of the share at once, and hands each to the thread that takes the files *)
(* of that piece into the store, through a relay with room for one.        *)
(*                                                                         *)
(* A file is its number within its piece.  A thread that waits on a        *)
(* condition is asleep until it is notified, and then looks again; what a  *)
(* thread does under a relay's mutex, and the notification after it, is    *)
(* one step.                                                               *)
(***************************************************************************)
EXTENDS Naturals, FiniteSets

CONSTANTS
    Piece,      \* the pieces the share is cut into
    MaxFiles    \* bound: files in a piece

ASSUME TransferAssumption ==
    /\ IsFiniteSet(Piece)
    /\ Piece # {}
    /\ MaxFiles \in Nat \ {0}

VARIABLES
    files,      \* how many files each piece has at the node that is read
    walk,       \* where the asking thread is, and the pieces still to come to
    next,       \* the file each piece asks for next
    piece,      \* how each piece stands: "going", "whole", "refused"
    slot,       \* the file in each relay, 0 for none
    closed,     \* whether each relay is closed
    taker,      \* where the thread of each piece is, and the file it has
    taken,      \* the files of each piece that the store took in
    failed      \* whether it refused one

walkVars == <<files, walk, next, piece, slot, closed, taker, taken, failed>>

WalkTypeOK ==
    /\ files \in [Piece -> 1 .. MaxFiles]
    /\ walk \in [at : {"ask", "answers", "put", "asleep", "close", "join", "done"},
                 left : SUBSET Piece, on : SUBSET Piece]
    /\ next \in [Piece -> 1 .. MaxFiles]
    /\ piece \in [Piece -> {"going", "whole", "refused"}]
    /\ slot \in [Piece -> 0 .. MaxFiles]
    /\ closed \in [Piece -> BOOLEAN]
    /\ taker \in [Piece -> [at : {"take", "asleep", "taking", "done"},
                            file : 0 .. MaxFiles]]
    /\ taken \in [Piece -> SUBSET (1 .. MaxFiles)]
    /\ failed \in BOOLEAN

WalkInit ==
    /\ files \in [Piece -> 1 .. MaxFiles]
    /\ walk = [at |-> "ask", left |-> {}, on |-> {}]
    /\ next = [i \in Piece |-> 1]
    /\ piece = [i \in Piece |-> "going"]
    /\ slot = [i \in Piece |-> 0]
    /\ closed = [i \in Piece |-> FALSE]
    /\ taker = [i \in Piece |-> [at |-> "take", file |-> 0]]
    /\ taken = [i \in Piece |-> {}]
    /\ failed = FALSE
-----------------------------------------------------------------------------
(* The thread that asks *)

Going == {i \in Piece : piece[i] = "going"}

\* A fan out to every piece that has more to ask for.
Ask ==
    /\ walk.at = "ask"
    /\ Going # {}
    /\ walk' = [at |-> "answers", left |-> Going, on |-> {}]
    /\ UNCHANGED <<files, next, piece, slot, closed, taker, taken, failed>>

\* Nothing is left to ask for, or the walk is stopped or out of patience.
StopAsking ==
    /\ walk.at = "ask"
    /\ walk' = [at |-> "close", left |-> Piece, on |-> {}]
    /\ UNCHANGED <<files, next, piece, slot, closed, taker, taken, failed>>

\* carry, with the answer of one piece, in whatever order: no file.
Refused(i) ==
    /\ walk.at = "answers"
    /\ i \in walk.left
    /\ piece' = [piece EXCEPT ![i] = "refused"]
    /\ walk' = [walk EXCEPT !.left = @ \ {i}]
    /\ UNCHANGED <<files, next, slot, closed, taker, taken, failed>>

\* A file, to be put into the relay of its piece.
Answered(i) ==
    /\ walk.at = "answers"
    /\ i \in walk.left
    /\ walk' = [at |-> "put", left |-> walk.left \ {i}, on |-> {i}]
    /\ UNCHANGED <<files, next, piece, slot, closed, taker, taken, failed>>

\* The answers of a fan out are all carried.
Carried ==
    /\ walk.at = "answers"
    /\ walk.left = {}
    /\ walk' = [walk EXCEPT !.at = "ask"]
    /\ UNCHANGED <<files, next, piece, slot, closed, taker, taken, failed>>

\* Mutant of GiveUpPiece: it asks for the same file again.
AskForEver(i) == UNCHANGED <<piece, next>>

\* Where the file says nothing of where to go on, or ends where the one before
\* it did, the piece is given up.
GiveUpPiece(i) ==
    /\ piece' = [piece EXCEPT ![i] = "refused"]
    /\ UNCHANGED next

\* Mutant of LastFile: every file is taken to have another after it.
NoLastFile(i) == FALSE

\* The answer names no file to go on from.
LastFile(i) == next[i] = files[i]

\* After the put: the last file of the piece, one with another to follow, or
\* one that made no progress.
MoveOn(i) ==
    \/ /\ LastFile(i)
       /\ piece' = [piece EXCEPT ![i] = "whole"]
       /\ UNCHANGED next
    \/ /\ ~LastFile(i)
       /\ next' = [next EXCEPT ![i] = @ + 1]
       /\ UNCHANGED piece
    \/ GiveUpPiece(i)

\* notify_one, notify_all: the thread that takes is woken if it waits.
WakeTaker(i) ==
    taker' = [taker EXCEPT ![i].at = IF @ = "asleep" THEN "take" ELSE @]

\* put, with room in the relay.
Put(i) ==
    /\ walk.at = "put"
    /\ i \in walk.on
    /\ slot[i] = 0
    /\ slot' = [slot EXCEPT ![i] = next[i]]
    /\ WakeTaker(i)
    /\ MoveOn(i)
    /\ walk' = [walk EXCEPT !.at = "answers", !.on = {}]
    /\ UNCHANGED <<files, closed, taken, failed>>

\* put, with none.
PutWaits(i) ==
    /\ walk.at = "put"
    /\ i \in walk.on
    /\ slot[i] # 0
    /\ walk' = [walk EXCEPT !.at = "asleep"]
    /\ UNCHANGED <<files, next, piece, slot, closed, taker, taken, failed>>

Close(i) ==
    /\ walk.at = "close"
    /\ i \in walk.left
    /\ closed' = [closed EXCEPT ![i] = TRUE]
    /\ WakeTaker(i)
    /\ walk' = [walk EXCEPT !.left = @ \ {i},
                            !.at = IF walk.left = {i} THEN "join" ELSE @]
    /\ UNCHANGED <<files, next, piece, slot, taken, failed>>

Join ==
    /\ walk.at = "join"
    /\ \A i \in Piece : taker[i].at = "done"
    /\ walk' = [walk EXCEPT !.at = "done"]
    /\ UNCHANGED <<files, next, piece, slot, closed, taker, taken, failed>>

\* Mutant of Whole: a file the store refused is not looked at.
WholeIfRead == \A i \in Piece : piece[i] = "whole"

\* What the walk answers.
Whole == ~failed /\ \A i \in Piece : piece[i] = "whole"
-----------------------------------------------------------------------------
(* The threads that take *)

\* take, with a file in the relay: the thread that asks is woken if it waits.
Take(i) ==
    /\ taker[i].at = "take"
    /\ slot[i] # 0
    /\ taker' = [taker EXCEPT ![i] = [at |-> "taking", file |-> slot[i]]]
    /\ slot' = [slot EXCEPT ![i] = 0]
    /\ walk' = [walk EXCEPT !.at = IF @ = "asleep" /\ i \in walk.on THEN "put" ELSE @]
    /\ UNCHANGED <<files, next, piece, closed, taken, failed>>

\* take, with none: it waits, or ends where no more are coming.
TakeNone(i) ==
    /\ taker[i].at = "take"
    /\ slot[i] = 0
    /\ taker' = [taker EXCEPT ![i].at = IF closed[i] THEN "done" ELSE "asleep"]
    /\ UNCHANGED <<files, walk, next, piece, slot, closed, taken, failed>>

\* A thread that could not take a file goes on emptying the relay.
AfterFailure == "take"

\* take_in: the store takes the file, or refuses it; once it has refused one,
\* of any piece, the files that follow are dropped.
TakeIn(i) ==
    /\ taker[i].at = "taking"
    /\ \/ /\ ~failed
          /\ taken' = [taken EXCEPT ![i] = @ \cup {taker[i].file}]
          /\ taker' = [taker EXCEPT ![i] = [at |-> "take", file |-> 0]]
          /\ UNCHANGED failed
       \/ /\ failed' = TRUE
          /\ taker' = [taker EXCEPT ![i] = [at |-> AfterFailure, file |-> 0]]
          /\ UNCHANGED taken
    /\ UNCHANGED <<files, walk, next, piece, slot, closed>>
-----------------------------------------------------------------------------
Asking ==
    \/ Ask \/ StopAsking \/ Carried \/ Join
    \/ \E i \in Piece : Refused(i) \/ Answered(i) \/ Put(i) \/ PutWaits(i) \/ Close(i)

Taking(i) == Take(i) \/ TakeNone(i) \/ TakeIn(i)

Ends == walk.at = "done" /\ UNCHANGED walkVars

WalkNext == Asking \/ (\E i \in Piece : Taking(i)) \/ Ends

WalkSpec == WalkInit /\ [][WalkNext]_walkVars

\* Every request times out and every file is taken or refused, so neither kind
\* of thread is held up but by the other.
FairWalk == WalkSpec /\ WF_walkVars(Asking) /\ \A i \in Piece : WF_walkVars(Taking(i))
-----------------------------------------------------------------------------
\* A walk that answers whole brought every file of every piece into the store,
\* which is what a rebuild and a pass vouch on (transfer.cpp, walk).
WholeIsTaken ==
    walk.at = "done" /\ Whole => \A i \in Piece : taken[i] = 1 .. files[i]

\* "A taker that stopped early would leave the asker waiting on a slot nothing
\* empties" (relay.h): no walk waits for ever, whatever it is answered and
\* whatever the store refuses.
WalkEnds == <>(walk.at = "done")
=============================================================================
