--------------------------- MODULE VouchingProofs ---------------------------
(***************************************************************************)
(* What a node vouches for, whatever the placement: for any nodes, zones,  *)
(* partitions, scores and number of passes.  And what it vouches on: a     *)
(* walk of a share that answers whole took in all of it, for any number of *)
(* pieces and files.                                                       *)
(***************************************************************************)
EXTENDS Vouching, Transfer, PartitionProofs, FiniteSetTheorems

\* Where a pass has read the generation it goes by.
Running == {"zones", "holdings", "holders", "fetch", "vouch"}

\* A partition gained after the generation a pass goes by has a later since;
\* what has none was held throughout.
KeptInv ==
    /\ \A p \in Part : since[p] <= generation
    /\ pass.at \in Running =>
         /\ pass.generation <= generation
         /\ \A p \in holding : since[p] <= pass.generation => p \in kept

IInv == TypeOK /\ KeptInv

(* A membership read while the node runs replaces all that follows from it. *)
LEMMA ReplaceKeepsTypes ==
    ASSUME TypeOK, NEW m \in Views, ReplaceMembers(m)
    PROVE  /\ members' \in Views \cup {NoMembers}
           /\ generation' \in Nat
           /\ holding' \subseteq Part
           /\ since' \in [Part -> Nat]
           /\ filled' \subseteq holding'
           /\ kept' \subseteq Part
  <1>1. HoldingsOf(m, Self) \subseteq Part
    BY DEF HoldingsOf
  <1> QED BY <1>1 DEF TypeOK, ReplaceMembers

(* The pass keeps its type while it is filled in field by field. *)
LEMMA PassKeepsTypes ==
    ASSUME TypeOK, Pass
    PROVE  TypeOK'
  <1> USE VouchingAssumption
  <1>1. NoPass \in [at : {"idle"}, generation : Nat, held : SUBSET Part,
                    asked : SUBSET (Node \X Part), unfilled : SUBSET Part,
                    declared : BOOLEAN, clean : BOOLEAN, moved : BOOLEAN]
    BY DEF NoPass
  <1>2. CASE ReadGeneration
    BY <1>2 DEF TypeOK, ReadGeneration, cluster, loop
  <1>3. CASE ReadZones
    BY <1>3 DEF TypeOK, ReadZones, cluster, loop, history
  <1>4. CASE ReadHoldings
    BY ZenonT(60), <1>4 DEF TypeOK, ReadHoldings, cluster, loop, history
  <1>5. CASE ReadHolders
    <2>1. ASSUME ~Alone(members)
          PROVE  HoldersOf(pass.held, members, Self, SelfZone)
                   \in SUBSET (Node \X Part)
      <3>1. members \in Memberships
        <4>1. members # NoMembers
          BY <2>1, FS_EmptySet DEF NoMembers, Alone
        <4> QED BY <4>1 DEF TypeOK, Views
      <3>2. pass.held \in SUBSET Part
        BY DEF TypeOK
      <3> QED BY <3>1, <3>2, HoldersType
    <2>2. PICK asked \in {{}, IF Alone(members) THEN {}
                              ELSE HoldersOf(pass.held, members, Self, SelfZone)} :
            pass' = [pass EXCEPT !.at = "fetch", !.asked = asked]
      BY <1>5 DEF ReadHolders
    <2>3. asked \in SUBSET (Node \X Part)
      BY <2>1, <2>2
    <2> QED BY <1>5, <2>2, <2>3 DEF TypeOK, ReadHolders, cluster, loop, history
  <1>6. ASSUME NEW n \in Node, Fetch(n)
        PROVE  TypeOK'
    <2> DEFINE share == {p \in Part : <<n, p>> \in pass.asked}
    <2>1. PICK whole \in BOOLEAN, took \in BOOLEAN :
            pass' = [pass EXCEPT !.asked = {a \in @ : a[1] # n},
                                 !.unfilled = IF whole THEN @ ELSE @ \cup share,
                                 !.clean = @ /\ whole,
                                 !.moved = @ \/ took]
      BY <1>6 DEF Fetch
    <2>2. (pass.clean /\ whole) \in BOOLEAN /\ (pass.moved \/ took) \in BOOLEAN
      OBVIOUS
    <2>3. {a \in pass.asked : a[1] # n} \in SUBSET (Node \X Part)
      BY DEF TypeOK
    <2>4. (IF whole THEN pass.unfilled ELSE pass.unfilled \cup share) \in SUBSET Part
      BY DEF TypeOK
    <2>5. pass' = [pass EXCEPT !.asked = pass'.asked, !.unfilled = pass'.unfilled,
                               !.clean = pass'.clean, !.moved = pass'.moved]
          /\ pass'.asked \in SUBSET (Node \X Part) /\ pass'.unfilled \in SUBSET Part
          /\ pass'.clean \in BOOLEAN /\ pass'.moved \in BOOLEAN
      BY SMTT(30), <2>1, <2>2, <2>3, <2>4 DEF TypeOK
    <2>6. UNCHANGED <<cluster, loop, history>>
      BY <1>6 DEF Fetch
    <2> QED BY ZenonT(60), <2>5, <2>6 DEF TypeOK, cluster, loop, history
  <1>7. CASE ClearDown
    <2>1. PICK settled \in BOOLEAN, gave \in BOOLEAN :
            pass' = [pass EXCEPT !.at = "vouch", !.clean = @ /\ settled,
                                 !.moved = @ \/ gave]
      BY <1>7 DEF ClearDown
    <2>2. (pass.clean /\ settled) \in BOOLEAN /\ (pass.moved \/ gave) \in BOOLEAN
      OBVIOUS
    <2> QED BY <1>7, <2>1, <2>2 DEF TypeOK, ClearDown, cluster, loop, history
  <1>8. CASE VouchForPass
    BY <1>1, <1>8 DEF TypeOK, VouchForPass, Vouched
  <1>9. CASE PassThrows
    BY <1>1, <1>9 DEF TypeOK, PassThrows, cluster, loop
  <1> QED BY <1>2, <1>3, <1>4, <1>5, <1>6, <1>7, <1>8, <1>9 DEF Pass

(* What the constructor sets up has its types. *)
LEMMA VouchingInit == Init => TypeOK
  <1>1. NoPass \in [at : {"idle"}, generation : Nat, held : SUBSET Part,
                    asked : SUBSET (Node \X Part), unfilled : SUBSET Part,
                    declared : BOOLEAN, clean : BOOLEAN, moved : BOOLEAN]
    BY DEF NoPass
  <1> QED BY <1>1, VouchingAssumption DEF Init, TypeOK

(* The state of a node's start and of its passes keeps its types; what is *)
(* vouched for is always part of what is held.                            *)
THEOREM VouchingTypeCorrect == Spec => []TypeOK
  <1> USE VouchingAssumption
  <1>0. NoPass \in [at : {"idle"}, generation : Nat, held : SUBSET Part,
                    asked : SUBSET (Node \X Part), unfilled : SUBSET Part,
                    declared : BOOLEAN, clean : BOOLEAN, moved : BOOLEAN]
    BY DEF NoPass
  <1>1. Init => TypeOK
    BY VouchingInit
  <1>2. TypeOK /\ [Next]_vars => TypeOK'
    <2> SUFFICES ASSUME TypeOK, [Next]_vars PROVE TypeOK'
      OBVIOUS
    <2>1. CASE Register
      BY <2>1 DEF TypeOK, Register, loop, history
    <2>2. ASSUME NEW m \in Views, ReadMembers(m) PROVE TypeOK'
      BY <2>2, ReplaceKeepsTypes DEF TypeOK, ReadMembers, loop
    <2>3. ASSUME NEW m \in Views, Discover(m) PROVE TypeOK'
      BY <2>3, ReplaceKeepsTypes DEF TypeOK, Discover, loop
    <2>4. ASSUME NEW m \in Views, Start(m) PROVE TypeOK'
      <3>1. CASE ReplaceMembers(m)
        BY <2>4, <3>1, ReplaceKeepsTypes DEF TypeOK, Start, loop
      <3>2. CASE KeepMembers
        BY <2>4, <3>2 DEF TypeOK, Start, KeepMembers, loop
      <3> QED BY <2>4, <3>1, <3>2 DEF Start
    <2>5. CASE ReturnToStore
      BY <2>5 DEF TypeOK, ReturnToStore, Rebuilt, Vouched
    <2>6. CASE Rebuild
      BY <2>6 DEF TypeOK, Rebuild, Rebuilt, Vouched
    <2>7. CASE LoopBegin
      BY <1>0, <2>7 DEF TypeOK, LoopBegin, cluster
    <2>8. CASE NoteChange
      BY <2>8 DEF TypeOK, NoteChange, cluster, history
    <2>9. CASE StartPass
      BY <1>0, <2>9 DEF TypeOK, StartPass, cluster, history
    <2>10. CASE Pass
      BY <2>10, PassKeepsTypes
    <2>11. CASE UNCHANGED vars
      BY <2>11 DEF TypeOK, vars
    <2> QED BY <2>1, <2>2, <2>3, <2>4, <2>5, <2>6, <2>7, <2>8, <2>9, <2>10, <2>11
            DEF Next, Loop
  <1> QED BY <1>1, <1>2, PTL DEF Spec
-----------------------------------------------------------------------------
(* Every step keeps since and kept in step with the generation a pass read. *)
LEMMA KeptInvariant == Spec => []IInv
  <1>1. Init => IInv
    <2> SUFFICES ASSUME Init PROVE IInv
      OBVIOUS
    <2>1. TypeOK
      BY VouchingInit
    <2> QED BY <2>1 DEF Init, IInv, KeptInv, NoPass, Running
  <1>2. IInv /\ TypeOK' /\ [Next]_vars => KeptInv'
    <2> SUFFICES ASSUME TypeOK, KeptInv, TypeOK', [Next]_vars PROVE KeptInv'
      BY DEF IInv
    <2> USE DEF TypeOK, KeptInv, Running
    <2>1. ASSUME NEW m \in Views, ReplaceMembers(m)
          PROVE  /\ \A p \in Part : since'[p] <= generation'
                 /\ pass.at \in Running =>
                      /\ pass.generation <= generation'
                      /\ \A p \in holding' : since'[p] <= pass.generation => p \in kept'
      BY <2>1 DEF ReplaceMembers, Gained
    <2>2. CASE Register
      BY <2>2 DEF Register, history
    <2>3. ASSUME NEW m \in Views, ReadMembers(m) PROVE KeptInv'
      BY <2>1, <2>3 DEF ReadMembers
    <2>4. ASSUME NEW m \in Views, Discover(m) PROVE KeptInv'
      BY <2>1, <2>4 DEF Discover
    <2>5. ASSUME NEW m \in Views, Start(m) PROVE KeptInv'
      BY <2>1, <2>5 DEF Start, KeepMembers
    <2>6. CASE ReturnToStore \/ Rebuild
      BY <2>6 DEF ReturnToStore, Rebuild, Rebuilt
    <2>7. CASE LoopBegin \/ NoteChange \/ StartPass
      BY <2>7 DEF LoopBegin, NoteChange, StartPass, NoPass, cluster, history
    <2>8. CASE ReadGeneration
      BY <2>8 DEF ReadGeneration, cluster
    <2>9. CASE ReadZones \/ ReadHoldings \/ ReadHolders \/ ClearDown
      <3>1. pass.at \in Running /\ pass'.generation = pass.generation
        <4>1. CASE ReadZones
          BY <4>1 DEF ReadZones
        <4>2. CASE ReadHoldings
          BY <4>2 DEF ReadHoldings
        <4>3. CASE ReadHolders
          BY <4>3 DEF ReadHolders
        <4>4. CASE ClearDown
          BY <4>4 DEF ClearDown
        <4> QED BY <2>9, <4>1, <4>2, <4>3, <4>4
      <3>2. UNCHANGED <<generation, since, holding, kept>>
        BY <2>9 DEF ReadZones, ReadHoldings, ReadHolders, ClearDown, cluster, history
      <3> QED BY <3>1, <3>2
    <2>10. ASSUME NEW n \in Node, Fetch(n) PROVE KeptInv'
      BY <2>10 DEF Fetch, cluster, history
    <2>11. CASE VouchForPass \/ PassThrows
      BY <2>11 DEF VouchForPass, PassThrows, NoPass, cluster
    <2>12. CASE UNCHANGED vars
      BY <2>12 DEF vars
    <2> QED BY <2>2, <2>3, <2>4, <2>5, <2>6, <2>7, <2>8, <2>9, <2>10, <2>11, <2>12
            DEF Next, Loop, Pass
  <1> QED BY <1>1, <1>2, VouchingTypeCorrect, PTL DEF Spec, IInv

(* However the membership moves while a pass runs, the pass vouches only for *)
(* what the node has held without a break since the pass began.              *)
THEOREM VouchesForKept == Spec => VouchedHeldThroughout
  <1>1. IInv /\ [Next]_vars => [pass.at = "vouch" => filled' \ filled \subseteq kept]_vars
    <2> SUFFICES ASSUME IInv, Next, pass.at = "vouch"
                 PROVE  filled' \ filled \subseteq kept
      BY DEF vars
    <2>1. CASE VouchForPass
      BY <2>1 DEF VouchForPass, Vouched, IInv, KeptInv, Running
    <2>2. ASSUME NEW m \in Views, ReadMembers(m) \/ Discover(m) \/ Start(m)
          PROVE  filled' \subseteq filled
      BY <2>2 DEF ReadMembers, Discover, Start, ReplaceMembers
    <2>3. CASE Register \/ ReturnToStore \/ Rebuild
      BY <2>3 DEF Register, ReturnToStore, Rebuild, Rebuilt
    <2>4. CASE LoopBegin \/ NoteChange \/ StartPass
      BY <2>4 DEF LoopBegin, NoteChange, StartPass
    <2>5. CASE Pass /\ ~VouchForPass
      BY <2>5 DEF Pass, ReadGeneration, ReadZones, ReadHoldings, ReadHolders,
                  Fetch, ClearDown, PassThrows, cluster
    <2> QED BY <2>1, <2>2, <2>3, <2>4, <2>5 DEF Next, Loop
  <1> QED BY <1>1, KeptInvariant, PTL DEF Spec, VouchedHeldThroughout
-----------------------------------------------------------------------------
(* The walk of a share *)

\* What a fan out is still to come to has more to ask for, and a piece whose
\* file is in hand is none of it.
AskedInv ==
    walk.at \in {"answers", "put", "asleep"} =>
        /\ walk.left \cup walk.on \subseteq Going
        /\ walk.left \cap walk.on = {}

\* Relays are closed once nothing is asked for, and a thread that takes ends at
\* one that is closed and empty.
RelayInv ==
    /\ walk.at = "done" => \A i \in Piece : taker[i].at = "done"
    /\ \A i \in Piece :
         /\ closed[i] => walk.at \in {"close", "join", "done"}
         /\ taker[i].at = "done" => closed[i] /\ slot[i] = 0

\* A file between the two threads.
OnItsWay(i, f) ==
    f = slot[i] \/ (taker[i].at = "taking" /\ f = taker[i].file)

\* A file that was put is taken in or on its way, unless the store refused one.
FilesInv ==
    \A i \in Piece :
        /\ next[i] <= files[i]
        /\ slot[i] <= files[i]
        /\ taker[i].file <= files[i]
        /\ taker[i].at = "taking" => taker[i].file # 0
        /\ taken[i] \subseteq 1 .. files[i]
        /\ ~failed /\ piece[i] # "refused" =>
             \A f \in 1 .. files[i] :
                 f < next[i] \/ piece[i] = "whole" => f \in taken[i] \/ OnItsWay(i, f)

WalkInv == WalkTypeOK /\ AskedInv /\ RelayInv /\ FilesInv

\* A piece that asks puts the file it asked for, and moves on from there.
LEMMA PutKeeps ==
    ASSUME WalkInv, NEW i \in Piece, Put(i)
    PROVE  WalkInv'
  <1> USE TransferAssumption
  <1> USE DEF WalkInv
  <1>1. /\ files' = files /\ closed' = closed /\ taken' = taken /\ failed' = failed
        /\ slot[i] = 0 /\ i \in walk.on /\ walk.at = "put"
        /\ slot' = [slot EXCEPT ![i] = next[i]]
        /\ walk' = [walk EXCEPT !.at = "answers", !.on = {}]
        /\ taker' = [taker EXCEPT ![i].at = IF @ = "asleep" THEN "take" ELSE @]
    BY DEF Put, WakeTaker
  <1>2. /\ piece' \in [Piece -> {"going", "whole", "refused"}]
        /\ next' \in [Piece -> 1 .. MaxFiles]
        /\ next'[i] <= files[i]
        /\ \A j \in Piece : j # i => piece'[j] = piece[j] /\ next'[j] = next[j]
        /\ \/ piece'[i] = "whole" /\ next'[i] = next[i] /\ next[i] = files[i]
           \/ piece'[i] = piece[i] /\ next'[i] = next[i] + 1
           \/ piece'[i] = "refused"
    <2>1. MoveOn(i)
      BY DEF Put
    <2>2. /\ next[i] \in 1 .. MaxFiles /\ files[i] \in 1 .. MaxFiles
          /\ next[i] <= files[i]
          /\ piece \in [Piece -> {"going", "whole", "refused"}]
          /\ next \in [Piece -> 1 .. MaxFiles]
      BY DEF WalkTypeOK, FilesInv
    <2>3. CASE LastFile(i) /\ piece' = [piece EXCEPT ![i] = "whole"] /\ UNCHANGED next
      BY <2>2, <2>3 DEF LastFile
    <2>4. CASE ~LastFile(i) /\ next' = [next EXCEPT ![i] = @ + 1] /\ UNCHANGED piece
      <3>1. next[i] + 1 \in 1 .. MaxFiles /\ next[i] + 1 <= files[i]
        BY <2>2, <2>4 DEF LastFile
      <3> QED BY <2>2, <2>4, <3>1
    <2>5. CASE GiveUpPiece(i)
      BY <2>2, <2>5 DEF GiveUpPiece
    <2> QED BY <2>1, <2>3, <2>4, <2>5 DEF MoveOn
  <1>3. WalkTypeOK'
    <2>1. slot' \in [Piece -> 0 .. MaxFiles]
      BY <1>1 DEF WalkTypeOK
    <2>2. taker' \in [Piece -> [at : {"take", "asleep", "taking", "done"},
                                file : 0 .. MaxFiles]]
      BY <1>1 DEF WalkTypeOK
    <2>3. walk' \in [at : {"ask", "answers", "put", "asleep", "close", "join", "done"},
                     left : SUBSET Piece, on : SUBSET Piece]
      BY <1>1 DEF WalkTypeOK
    <2> QED BY <1>1, <1>2, <2>1, <2>2, <2>3 DEF WalkTypeOK
  <1>4. walk'.at = "answers" /\ walk'.left = walk.left /\ walk'.on = {}
    BY <1>1 DEF WalkTypeOK
  <1>5. AskedInv'
    BY <1>1, <1>2, <1>4 DEF AskedInv, Going
  <1>6. ASSUME NEW j \in Piece
        PROVE  /\ slot'[j] = IF j = i THEN next[i] ELSE slot[j]
               /\ taker'[j].file = taker[j].file
               /\ taker'[j].at = "taking" <=> taker[j].at = "taking"
               /\ taker'[j].at = "done" <=> taker[j].at = "done"
    BY <1>1 DEF WalkTypeOK
  <1>7. RelayInv'
    BY <1>1, <1>4, <1>6 DEF RelayInv
  <1>8. FilesInv'
    <2> SUFFICES ASSUME NEW j \in Piece PROVE FilesInv!(j)'
      BY DEF FilesInv
    <2>1. CASE j # i
      BY <1>1, <1>2, <1>6, <2>1 DEF FilesInv, OnItsWay
    <2>2. CASE j = i
      <3>0. /\ files[i] \in 1 .. MaxFiles /\ next[i] \in 1 .. MaxFiles
            /\ next'[i] \in 1 .. MaxFiles
        BY <1>2 DEF WalkTypeOK
      <3>1. piece[i] = "going"
        BY <1>1 DEF AskedInv, Going
      <3> QED BY <1>1, <1>2, <1>6, <2>2, <3>0, <3>1 DEF FilesInv, OnItsWay
    <2> QED BY <2>1, <2>2
  <1> QED BY <1>3, <1>5, <1>7, <1>8

\* So does every other step of the thread that asks.
LEMMA AskingKeeps ==
    ASSUME WalkInv, Asking
    PROVE  WalkInv'
  <1> USE TransferAssumption
  <1> USE DEF WalkInv
  <1>1. CASE Ask
    BY <1>1 DEF Ask, Going, WalkTypeOK, AskedInv, RelayInv, FilesInv, OnItsWay
  <1>2. CASE StopAsking
    BY <1>2 DEF StopAsking, WalkTypeOK, AskedInv, RelayInv, FilesInv, OnItsWay
  <1>3. CASE Carried
    BY SMTT(30), <1>3 DEF Carried, Going, WalkTypeOK, AskedInv, RelayInv, FilesInv, OnItsWay
  <1>4. CASE Join
    BY <1>4 DEF Join, WalkTypeOK, AskedInv, RelayInv, FilesInv, OnItsWay
  <1>5. ASSUME NEW i \in Piece, Refused(i) PROVE WalkInv'
    <2>1. WalkTypeOK'
      BY <1>5 DEF Refused, WalkTypeOK
    <2>2. AskedInv'
      BY <1>5 DEF Refused, WalkTypeOK, AskedInv, Going
    <2>3. RelayInv' /\ FilesInv'
      BY <1>5 DEF Refused, WalkTypeOK, RelayInv, FilesInv, OnItsWay
    <2> QED BY <2>1, <2>2, <2>3
  <1>6. ASSUME NEW i \in Piece, Answered(i) PROVE WalkInv'
    BY <1>6 DEF Answered, Going, WalkTypeOK, AskedInv, RelayInv, FilesInv, OnItsWay
  <1>7. ASSUME NEW i \in Piece, PutWaits(i) PROVE WalkInv'
    BY SMTT(30), <1>7 DEF PutWaits, Going, WalkTypeOK, AskedInv, RelayInv, FilesInv, OnItsWay
  <1>8. ASSUME NEW i \in Piece, Close(i) PROVE WalkInv'
    <2>1. WalkTypeOK'
      BY ZenonT(60), <1>8 DEF Close, WakeTaker, WalkTypeOK
    <2>2. walk'.at \in {"close", "join"}
      BY <1>8 DEF Close, WalkTypeOK
    <2>3. ASSUME NEW j \in Piece
          PROVE  /\ taker'[j].file = taker[j].file
                 /\ taker'[j].at = "taking" <=> taker[j].at = "taking"
                 /\ taker'[j].at = "done" <=> taker[j].at = "done"
                 /\ closed[j] => closed'[j]
      BY <1>8 DEF Close, WakeTaker, WalkTypeOK
    <2>4. AskedInv' /\ RelayInv'
      BY <1>8, <2>2, <2>3 DEF Close, AskedInv, RelayInv
    <2>5. FilesInv'
      BY <1>8, <2>3 DEF Close, FilesInv, OnItsWay
    <2> QED BY <2>1, <2>4, <2>5
  <1> QED BY <1>1, <1>2, <1>3, <1>4, <1>5, <1>6, <1>7, <1>8, PutKeeps DEF Asking

\* And every step of a thread that takes.
LEMMA TakingKeeps ==
    ASSUME WalkInv, NEW i \in Piece, Taking(i)
    PROVE  WalkInv'
  <1> USE TransferAssumption
  <1> USE DEF WalkInv
  <1>1. CASE Take(i)
    <2> DEFINE at == IF walk.at = "asleep" /\ i \in walk.on THEN "put" ELSE walk.at
    <2>0. walk' = [walk EXCEPT !.at = at] /\ at \in {"put", walk.at}
      BY <1>1 DEF Take
    <2>a. at \in {"ask", "answers", "put", "asleep", "close", "join", "done"}
      BY DEF WalkTypeOK
    <2>b. at = walk.at \/ (walk.at = "asleep" /\ at = "put")
      OBVIOUS
    <2> HIDE DEF at
    <2>1. WalkTypeOK'
      <3>1. slot[i] \in 0 .. MaxFiles
        BY DEF WalkTypeOK
      <3>2. slot' \in [Piece -> 0 .. MaxFiles]
        BY <1>1 DEF Take, WalkTypeOK
      <3>3. taker' \in [Piece -> [at : {"take", "asleep", "taking", "done"},
                                  file : 0 .. MaxFiles]]
        BY <1>1, <3>1 DEF Take, WalkTypeOK
      <3>4. walk' \in [at : {"ask", "answers", "put", "asleep", "close", "join", "done"},
                     left : SUBSET Piece, on : SUBSET Piece]
        BY <2>0, <2>a DEF WalkTypeOK
      <3> QED BY <1>1, <3>2, <3>3, <3>4 DEF Take, WalkTypeOK
    <2>2. /\ walk'.left = walk.left /\ walk'.on = walk.on
          /\ walk'.at = walk.at \/ (walk.at = "asleep" /\ walk'.at = "put")
      BY <2>0, <2>b DEF WalkTypeOK
    <2>3. ASSUME NEW j \in Piece
          PROVE  /\ j # i => taker'[j] = taker[j] /\ slot'[j] = slot[j]
                 /\ slot'[i] = 0 /\ taker'[i].at = "taking" /\ taker'[i].file = slot[i]
      BY <1>1 DEF Take, WalkTypeOK
    <2>4. AskedInv' /\ RelayInv'
      BY <1>1, <2>2, <2>3 DEF Take, AskedInv, RelayInv, Going
    <2>5. FilesInv'
      <3> SUFFICES ASSUME NEW j \in Piece PROVE FilesInv!(j)'
        BY DEF FilesInv
      <3>1. CASE j # i
        BY <1>1, <2>3, <3>1 DEF Take, FilesInv, OnItsWay
      <3>2. CASE j = i
        <4>1. slot[i] \in 1 .. MaxFiles /\ files[i] \in 1 .. MaxFiles /\ taker[i].at = "take"
          BY <1>1 DEF Take, WalkTypeOK
        <4>2. /\ files' = files /\ next' = next /\ piece' = piece /\ taken' = taken
              /\ failed' = failed
          BY <1>1 DEF Take
        <4> QED BY <2>3, <3>2, <4>1, <4>2 DEF FilesInv, OnItsWay
      <3> QED BY <3>1, <3>2
    <2> QED BY <2>1, <2>4, <2>5
  <1>2. CASE TakeNone(i)
    <2>1. WalkTypeOK'
      BY <1>2 DEF TakeNone, WalkTypeOK
    <2>2. ASSUME NEW j \in Piece
          PROVE  /\ taker'[j].file = taker[j].file
                 /\ taker'[j].at = "taking" <=> taker[j].at = "taking"
                 /\ taker[j].at = "done" => taker'[j].at = "done"
                 /\ taker'[j].at = "done" => taker[j].at = "done" \/ (closed[j] /\ slot[j] = 0)
      <3>1. taker[j] \in [at : {"take", "asleep", "taking", "done"}, file : 0 .. MaxFiles]
        BY DEF WalkTypeOK
      <3>2. CASE j = i
        <4>1. taker'[i] = [taker[i] EXCEPT !.at = IF closed[i] THEN "done" ELSE "asleep"]
          BY <1>2 DEF TakeNone, WalkTypeOK
        <4> QED BY <1>2, <3>1, <3>2, <4>1 DEF TakeNone
      <3>3. CASE j # i
        <4>1. taker'[j] = taker[j]
          BY <1>2, <3>3 DEF TakeNone, WalkTypeOK
        <4> QED BY <4>1
      <3> QED BY <3>2, <3>3
    <2>3. AskedInv' /\ RelayInv'
      BY <1>2, <2>2 DEF TakeNone, AskedInv, RelayInv, Going
    <2>4. FilesInv'
      BY <1>2, <2>2 DEF TakeNone, FilesInv, OnItsWay
    <2> QED BY <2>1, <2>3, <2>4
  <1>3. CASE TakeIn(i)
    <2>1. WalkTypeOK'
      <3>1. taker[i].file \in 1 .. MaxFiles
        BY <1>3 DEF TakeIn, WalkTypeOK, FilesInv
      <3>2. taken' \in [Piece -> SUBSET (1 .. MaxFiles)]
        BY <1>3, <3>1 DEF TakeIn, WalkTypeOK
      <3>3. taker' \in [Piece -> [at : {"take", "asleep", "taking", "done"},
                                  file : 0 .. MaxFiles]]
        <4>1. taker' = [taker EXCEPT ![i] = [at |-> "take", file |-> 0]]
          BY <1>3 DEF TakeIn, AfterFailure
        <4>2. [at |-> "take", file |-> 0] \in
                [at : {"take", "asleep", "taking", "done"}, file : 0 .. MaxFiles]
          OBVIOUS
        <4> QED BY <4>1, <4>2 DEF WalkTypeOK
      <3> QED BY <1>3, <3>2, <3>3 DEF TakeIn, WalkTypeOK
    <2>2. ASSUME NEW j \in Piece
          PROVE  /\ j # i => taker'[j] = taker[j] /\ taken'[j] = taken[j]
                 /\ taker[i].at = "taking"
                 /\ taker'[i] = [at |-> "take", file |-> 0]
                 /\ failed' \/ (~failed /\ taken'[i] = taken[i] \cup {taker[i].file})
                 /\ failed' => taken' = taken
      BY <1>3 DEF TakeIn, AfterFailure, WalkTypeOK
    <2>3. AskedInv' /\ RelayInv'
      BY <1>3, <2>2 DEF TakeIn, AskedInv, RelayInv, Going
    <2>4. FilesInv'
      BY <1>3, <2>2 DEF TakeIn, FilesInv, OnItsWay, WalkTypeOK
    <2> QED BY <2>1, <2>3, <2>4
  <1> QED BY <1>1, <1>2, <1>3 DEF Taking

\* They hold throughout a walk.
LEMMA WalkInvariant == WalkSpec => []WalkInv
  <1> USE TransferAssumption
  <1>1. WalkInit => WalkInv
    <2> SUFFICES ASSUME WalkInit PROVE WalkInv
      OBVIOUS
    <2>1. WalkTypeOK
      <3>1. [at |-> "take", file |-> 0] \in
              [at : {"take", "asleep", "taking", "done"}, file : 0 .. MaxFiles]
        OBVIOUS
      <3>2. taker \in [Piece -> [at : {"take", "asleep", "taking", "done"},
                                 file : 0 .. MaxFiles]]
        BY <3>1 DEF WalkInit
      <3>3. 1 \in 1 .. MaxFiles /\ 0 \in 0 .. MaxFiles
        OBVIOUS
      <3>4. next \in [Piece -> 1 .. MaxFiles] /\ slot \in [Piece -> 0 .. MaxFiles]
        BY <3>3 DEF WalkInit
      <3>5. taken \in [Piece -> SUBSET (1 .. MaxFiles)]
        BY DEF WalkInit
      <3> QED BY <3>2, <3>4, <3>5 DEF WalkInit, WalkTypeOK
    <2>2. AskedInv /\ RelayInv
      BY DEF WalkInit, AskedInv, RelayInv
    <2>3. FilesInv
      BY DEF WalkInit, FilesInv
    <2> QED BY <2>1, <2>2, <2>3 DEF WalkInv
  <1>2. WalkInv /\ [WalkNext]_walkVars => WalkInv'
    <2> SUFFICES ASSUME WalkInv, [WalkNext]_walkVars PROVE WalkInv'
      OBVIOUS
    <2>1. CASE Ends \/ UNCHANGED walkVars
      BY <2>1 DEF Ends, walkVars, WalkInv, WalkTypeOK, AskedInv, Going, RelayInv,
                  FilesInv, OnItsWay
    <2> QED BY <2>1, AskingKeeps, TakingKeeps DEF WalkNext
  <1> QED BY <1>1, <1>2, PTL DEF WalkSpec

\* The threads of a walk and the relays between them keep their types
\* (transfer.cpp, walk): no piece asks for a file after its last.
THEOREM WalkTypeCorrect == WalkSpec => []WalkTypeOK
  BY WalkInvariant, PTL DEF WalkInv

\* A walk that answers whole took in every file of every piece, for any number
\* of pieces and files and however its threads interleave (transfer.cpp, walk,
\* carry, take_in; relay.cpp).
THEOREM WholeWalksAreTaken == WalkSpec => []WholeIsTaken
  <1>1. WalkInv => WholeIsTaken
    <2> SUFFICES ASSUME WalkInv, walk.at = "done", Whole, NEW i \in Piece
                 PROVE  taken[i] = 1 .. files[i]
      BY DEF WholeIsTaken
    <2>1. taker[i].at = "done" /\ slot[i] = 0
      BY DEF WalkInv, RelayInv
    <2>2. ASSUME NEW f \in 1 .. files[i] PROVE f \in taken[i]
      <3>1. ~OnItsWay(i, f)
        BY <2>1, TransferAssumption DEF OnItsWay, WalkInv, WalkTypeOK
      <3> QED BY <3>1 DEF WalkInv, FilesInv, Whole
    <2> QED BY <2>2 DEF WalkInv, FilesInv
  <1> QED BY <1>1, WalkInvariant, PTL
=============================================================================
