--------------------------- MODULE AnswersProofs ---------------------------
(***************************************************************************)
(* What a client is answered, by the process it is connected to and out of *)
(* the copies.  For any connections and any number of signals the store    *)
(* outlives whoever uses it, and a shutdown cuts every connection that     *)
(* only waits and none that is owed an answer.  For any nodes, copies and  *)
(* keys a miss is answered only for what is not there, and a scan or a     *)
(* walk that came to its end was given all there was of it, in order and   *)
(* once.                                                                   *)
(***************************************************************************)
EXTENDS Server, Reads, FiniteSetTheorems, SequenceTheorems, TLAPS

\* Once serving is over nothing is left of it: nothing pending, no connection
\* and no call that could begin to use the store again.
AfterServing ==
    phase \in {"ended", "destroyed", "exited"} =>
        /\ accepting = "no" /\ ~posted /\ timer = "off" /\ told = {}
        /\ \A s \in Session : session[s] \notin Live
        /\ \A c \in Call : call[c] \in {"none", "done"}

\* The reconciling thread is there from the step that starts it, and has ended
\* when the store goes.
ReconcilerInv ==
    /\ phase \notin {"filling", "joined"} => reconciler # "none"
    /\ phase \in {"destroyed", "exited"} => reconciler = "ended"

\* A connection that owes an answer is past its read.
OwedInv == \A s \in Session : s \in owed => session[s] \in {"handling", "writing", "gone"}

\* The acceptor is closed by a shutdown that has begun.
ClosingInv == posted \/ ~open => stopping

\* In a shutdown each connection that waits, or is about to, has been told, is
\* yet to be walked past by a close() that noted it, or was told before it
\* waited.
ToBeTold(s) ==
    \/ s \in told \cup early
    \/ \E c \in Call : call[c] = "walk" /\ s \in noted[c]

TellInv ==
    stopping => \A s \in Session : session[s] \in {"held", "waiting"} => ToBeTold(s)

Inv == TypeOK /\ AfterServing /\ ReconcilerInv /\ OwedInv /\ ClosingInv /\ TellInv
-----------------------------------------------------------------------------
\* Every step keeps the types.
LEMMA TypeStep ==
    ASSUME TypeOK, [Next]_vars
    PROVE  TypeOK'
<1> USE DEF connections, acceptor, Elsewhere, Live, Over
<1>1. CASE Join
    BY <1>1 DEF Join, TypeOK, Phases
<1>2. CASE StartReconciler
    BY <1>2 DEF StartReconciler, TypeOK, Phases
<1>3. CASE Listen
    BY <1>3 DEF Listen, TypeOK, Phases
<1>4. CASE EndServe
    BY <1>4 DEF EndServe, NothingLeft, TypeOK, Phases
<1>5. CASE StopInDestructor
    BY <1>5 DEF StopInDestructor, Watched, TypeOK, Phases
<1>6. CASE Destroy
    BY <1>6 DEF Destroy, Watched, TypeOK, Phases
<1>7. CASE Exit
    BY ZenonT(60), <1>7 DEF Exit, TypeOK, Phases
<1>8. CASE ReconcilerEnds
    BY <1>8 DEF ReconcilerEnds, TypeOK, Phases
<1>9. CASE CloseAcceptor
    BY <1>9 DEF CloseAcceptor, StrandFree, TypeOK, Phases
<1>10. CASE Connect
    BY <1>10 DEF Connect, TypeOK, Phases
<1>11. CASE AcceptFails
    BY <1>11 DEF AcceptFails, StrandFree, AfterFailedAccept, TypeOK, Phases
<1>12. ASSUME NEW c \in Call, Signal(c) PROVE TypeOK'
    BY <1>12 DEF Signal, TypeOK, Phases
<1>13. ASSUME NEW c \in Call, Drain(c) PROVE TypeOK'
    BY ZenonT(60), <1>13 DEF Drain, StrandFree, DrainsAgain, TypeOK, Phases
<1>14. ASSUME NEW c \in Call, DrainEnds(c) PROVE TypeOK'
    BY <1>14 DEF DrainEnds, StrandFree, TypeOK, Phases
<1>15. ASSUME NEW c \in Call, Leave(c) PROVE TypeOK'
  <2>1. call' = [call EXCEPT ![c] = "reconciling"]
    BY <1>15 DEF Leave
  <2>2. call' \in [Call -> {"none", "queued", "waiting", "leave", "reconciling",
                           "joining", "mark", "walk", "done"}]
    BY <2>1 DEF TypeOK
  <2>3. member' = FALSE
    BY <1>15 DEF Leave
  <2>4. UNCHANGED <<phase, reconciler, open, accepting, posted, timer, draining,
                    drains, stopping, noted, session, told, early, owed>>
    BY <1>15 DEF Leave
  <2>5. member' \in BOOLEAN
    BY <2>3
  <2>6. QED
    BY <2>2, <2>4, <2>5 DEF TypeOK
<1>16. ASSUME NEW c \in Call, StopReconciling(c) PROVE TypeOK'
    BY <1>16 DEF StopReconciling, TypeOK, Phases
<1>17. ASSUME NEW c \in Call, JoinReconciler(c) PROVE TypeOK'
    BY <1>17 DEF JoinReconciler, TypeOK, Phases
<1>18. ASSUME NEW c \in Call, Mark(c) PROVE TypeOK'
    BY <1>18 DEF Mark, Known, TypeOK, Phases
<1>19. ASSUME NEW c \in Call, Walk(c) PROVE TypeOK'
    BY <1>19 DEF Walk, TypeOK, Phases
<1>20. ASSUME NEW s \in Session, Hold(s) PROVE TypeOK'
    BY <1>20 DEF Hold, StrandFree, TypeOK, Phases
<1>21. ASSUME NEW s \in Session, Run(s) PROVE TypeOK'
    BY <1>21 DEF Run, TypeOK, Phases
<1>22. ASSUME NEW s \in Session, Stop(s) PROVE TypeOK'
    BY <1>22 DEF Stop, Cuts, TypeOK, Phases
<1>23. ASSUME NEW s \in Session, Ask(s) PROVE TypeOK'
    BY <1>23 DEF Ask, Goes, TypeOK, Phases
<1>24. ASSUME NEW s \in Session, OnRead(s) PROVE TypeOK'
    BY <1>24 DEF OnRead, Goes, TypeOK, Phases
<1>25. ASSUME NEW s \in Session, Handled(s) PROVE TypeOK'
    BY <1>25 DEF Handled, Goes, TypeOK, Phases
<1>26. ASSUME NEW s \in Session, OnWrite(s) PROVE TypeOK'
    BY <1>26 DEF OnWrite, Goes, Keeps, TypeOK, Phases
<1>27. ASSUME NEW s \in Session, OnCut(s) PROVE TypeOK'
    BY <1>27 DEF OnCut, Goes, TypeOK, Phases
<1>28. ASSUME NEW s \in Session, Expire(s) PROVE TypeOK'
    BY <1>28 DEF Expire, Goes, TypeOK, Phases
<1>29. CASE UNCHANGED vars
    BY <1>29 DEF vars, TypeOK, Phases
<1>30. QED
    BY <1>1, <1>2, <1>3, <1>4, <1>5, <1>6, <1>7, <1>8, <1>9, <1>10, <1>11,
       <1>12, <1>13, <1>14, <1>15, <1>16, <1>17, <1>18, <1>19, <1>20, <1>21,
       <1>22, <1>23, <1>24, <1>25, <1>26, <1>27, <1>28, <1>29
       DEF Next, Serve, Closing, OnSession, Ended

\* Nothing begins again once serving is over.
LEMMA AfterServingStep ==
    ASSUME TypeOK, AfterServing, [Next]_vars
    PROVE  AfterServing'
<1> USE DEF connections, acceptor, Elsewhere, Live, Over
<1>1. CASE Join
    BY <1>1 DEF Join, TypeOK, AfterServing
<1>2. CASE StartReconciler
    BY <1>2 DEF StartReconciler, TypeOK, AfterServing
<1>3. CASE Listen
    BY <1>3 DEF Listen, TypeOK, AfterServing
<1>4. CASE EndServe
    BY <1>4 DEF EndServe, NothingLeft, TypeOK, AfterServing
<1>5. CASE StopInDestructor
    BY <1>5 DEF StopInDestructor, Watched, TypeOK, AfterServing
<1>6. CASE Destroy
    BY <1>6 DEF Destroy, Watched, TypeOK, AfterServing
<1>7. CASE Exit
    BY <1>7 DEF Exit, TypeOK, AfterServing
<1>8. CASE ReconcilerEnds
    BY <1>8 DEF ReconcilerEnds, TypeOK, AfterServing
<1>9. CASE CloseAcceptor
    BY <1>9 DEF CloseAcceptor, StrandFree, TypeOK, AfterServing
<1>10. CASE Connect
    BY <1>10 DEF Connect, TypeOK, AfterServing
<1>11. CASE AcceptFails
    BY <1>11 DEF AcceptFails, StrandFree, AfterFailedAccept, TypeOK, AfterServing
<1>12. ASSUME NEW c \in Call, Signal(c) PROVE AfterServing'
    BY <1>12 DEF Signal, TypeOK, AfterServing
<1>13. ASSUME NEW c \in Call, Drain(c) PROVE AfterServing'
    BY <1>13 DEF Drain, StrandFree, DrainsAgain, TypeOK, AfterServing
<1>14. ASSUME NEW c \in Call, DrainEnds(c) PROVE AfterServing'
    BY <1>14 DEF DrainEnds, StrandFree, TypeOK, AfterServing
<1>15. ASSUME NEW c \in Call, Leave(c) PROVE AfterServing'
    BY <1>15 DEF Leave, TypeOK, AfterServing
<1>16. ASSUME NEW c \in Call, StopReconciling(c) PROVE AfterServing'
    BY <1>16 DEF StopReconciling, TypeOK, AfterServing
<1>17. ASSUME NEW c \in Call, JoinReconciler(c) PROVE AfterServing'
    BY <1>17 DEF JoinReconciler, TypeOK, AfterServing
<1>18. ASSUME NEW c \in Call, Mark(c) PROVE AfterServing'
    BY <1>18 DEF Mark, Known, TypeOK, AfterServing
<1>19. ASSUME NEW c \in Call, Walk(c) PROVE AfterServing'
    BY <1>19 DEF Walk, TypeOK, AfterServing
<1>20. ASSUME NEW s \in Session, Hold(s) PROVE AfterServing'
    BY <1>20 DEF Hold, StrandFree, TypeOK, AfterServing
<1>21. ASSUME NEW s \in Session, Run(s) PROVE AfterServing'
    BY <1>21 DEF Run, TypeOK, AfterServing
<1>22. ASSUME NEW s \in Session, Stop(s) PROVE AfterServing'
    BY <1>22 DEF Stop, Cuts, TypeOK, AfterServing
<1>23. ASSUME NEW s \in Session, Ask(s) PROVE AfterServing'
    BY <1>23 DEF Ask, Goes, TypeOK, AfterServing
<1>24. ASSUME NEW s \in Session, OnRead(s) PROVE AfterServing'
    BY <1>24 DEF OnRead, Goes, TypeOK, AfterServing
<1>25. ASSUME NEW s \in Session, Handled(s) PROVE AfterServing'
    BY <1>25 DEF Handled, Goes, TypeOK, AfterServing
<1>26. ASSUME NEW s \in Session, OnWrite(s) PROVE AfterServing'
    BY <1>26 DEF OnWrite, Goes, Keeps, TypeOK, AfterServing
<1>27. ASSUME NEW s \in Session, OnCut(s) PROVE AfterServing'
    BY <1>27 DEF OnCut, Goes, TypeOK, AfterServing
<1>28. ASSUME NEW s \in Session, Expire(s) PROVE AfterServing'
    BY <1>28 DEF Expire, Goes, TypeOK, AfterServing
<1>29. CASE UNCHANGED vars
    BY <1>29 DEF vars, TypeOK, AfterServing
<1>30. QED
    BY <1>1, <1>2, <1>3, <1>4, <1>5, <1>6, <1>7, <1>8, <1>9, <1>10, <1>11,
       <1>12, <1>13, <1>14, <1>15, <1>16, <1>17, <1>18, <1>19, <1>20, <1>21,
       <1>22, <1>23, <1>24, <1>25, <1>26, <1>27, <1>28, <1>29
       DEF Next, Serve, Closing, OnSession, Ended

\* The reconciling thread ends before the store goes.
LEMMA ReconcilerStep ==
    ASSUME TypeOK, AfterServing, ReconcilerInv, [Next]_vars
    PROVE  ReconcilerInv'
<1> USE DEF connections, acceptor, Elsewhere, Live, Over
<1>1. CASE Join
    BY <1>1 DEF Join, TypeOK, AfterServing, ReconcilerInv
<1>2. CASE StartReconciler
    BY <1>2 DEF StartReconciler, TypeOK, AfterServing, ReconcilerInv
<1>3. CASE Listen
    BY <1>3 DEF Listen, TypeOK, AfterServing, ReconcilerInv
<1>4. CASE EndServe
    BY <1>4 DEF EndServe, NothingLeft, TypeOK, AfterServing, ReconcilerInv
<1>5. CASE StopInDestructor
    BY <1>5 DEF StopInDestructor, Watched, TypeOK, AfterServing, ReconcilerInv
<1>6. CASE Destroy
    BY <1>6 DEF Destroy, Watched, TypeOK, AfterServing, ReconcilerInv
<1>7. CASE Exit
    BY <1>7 DEF Exit, TypeOK, AfterServing, ReconcilerInv
<1>8. CASE ReconcilerEnds
    BY <1>8 DEF ReconcilerEnds, TypeOK, AfterServing, ReconcilerInv
<1>9. CASE CloseAcceptor
    BY <1>9 DEF CloseAcceptor, StrandFree, TypeOK, AfterServing, ReconcilerInv
<1>10. CASE Connect
    BY <1>10 DEF Connect, TypeOK, AfterServing, ReconcilerInv
<1>11. CASE AcceptFails
    BY <1>11 DEF AcceptFails, StrandFree, AfterFailedAccept, TypeOK,
       AfterServing, ReconcilerInv
<1>12. ASSUME NEW c \in Call, Signal(c) PROVE ReconcilerInv'
    BY <1>12 DEF Signal, TypeOK, AfterServing, ReconcilerInv
<1>13. ASSUME NEW c \in Call, Drain(c) PROVE ReconcilerInv'
    BY <1>13 DEF Drain, StrandFree, DrainsAgain, TypeOK, AfterServing, ReconcilerInv
<1>14. ASSUME NEW c \in Call, DrainEnds(c) PROVE ReconcilerInv'
    BY <1>14 DEF DrainEnds, StrandFree, TypeOK, AfterServing, ReconcilerInv
<1>15. ASSUME NEW c \in Call, Leave(c) PROVE ReconcilerInv'
    BY <1>15 DEF Leave, TypeOK, AfterServing, ReconcilerInv
<1>16. ASSUME NEW c \in Call, StopReconciling(c) PROVE ReconcilerInv'
    BY <1>16 DEF StopReconciling, TypeOK, AfterServing, ReconcilerInv
<1>17. ASSUME NEW c \in Call, JoinReconciler(c) PROVE ReconcilerInv'
    BY <1>17 DEF JoinReconciler, TypeOK, AfterServing, ReconcilerInv
<1>18. ASSUME NEW c \in Call, Mark(c) PROVE ReconcilerInv'
    BY <1>18 DEF Mark, Known, TypeOK, AfterServing, ReconcilerInv
<1>19. ASSUME NEW c \in Call, Walk(c) PROVE ReconcilerInv'
    BY <1>19 DEF Walk, TypeOK, AfterServing, ReconcilerInv
<1>20. ASSUME NEW s \in Session, Hold(s) PROVE ReconcilerInv'
    BY <1>20 DEF Hold, StrandFree, TypeOK, AfterServing, ReconcilerInv
<1>21. ASSUME NEW s \in Session, Run(s) PROVE ReconcilerInv'
    BY <1>21 DEF Run, TypeOK, AfterServing, ReconcilerInv
<1>22. ASSUME NEW s \in Session, Stop(s) PROVE ReconcilerInv'
    BY <1>22 DEF Stop, Cuts, TypeOK, AfterServing, ReconcilerInv
<1>23. ASSUME NEW s \in Session, Ask(s) PROVE ReconcilerInv'
    BY <1>23 DEF Ask, Goes, TypeOK, AfterServing, ReconcilerInv
<1>24. ASSUME NEW s \in Session, OnRead(s) PROVE ReconcilerInv'
    BY <1>24 DEF OnRead, Goes, TypeOK, AfterServing, ReconcilerInv
<1>25. ASSUME NEW s \in Session, Handled(s) PROVE ReconcilerInv'
    BY <1>25 DEF Handled, Goes, TypeOK, AfterServing, ReconcilerInv
<1>26. ASSUME NEW s \in Session, OnWrite(s) PROVE ReconcilerInv'
    BY <1>26 DEF OnWrite, Goes, Keeps, TypeOK, AfterServing, ReconcilerInv
<1>27. ASSUME NEW s \in Session, OnCut(s) PROVE ReconcilerInv'
    BY <1>27 DEF OnCut, Goes, TypeOK, AfterServing, ReconcilerInv
<1>28. ASSUME NEW s \in Session, Expire(s) PROVE ReconcilerInv'
    BY <1>28 DEF Expire, Goes, TypeOK, AfterServing, ReconcilerInv
<1>29. CASE UNCHANGED vars
    BY <1>29 DEF vars, TypeOK, AfterServing, ReconcilerInv
<1>30. QED
    BY <1>1, <1>2, <1>3, <1>4, <1>5, <1>6, <1>7, <1>8, <1>9, <1>10, <1>11,
       <1>12, <1>13, <1>14, <1>15, <1>16, <1>17, <1>18, <1>19, <1>20, <1>21,
       <1>22, <1>23, <1>24, <1>25, <1>26, <1>27, <1>28, <1>29
       DEF Next, Serve, Closing, OnSession, Ended

\* An answer is owed from on_read to the end of on_write.
LEMMA OwedStep ==
    ASSUME TypeOK, OwedInv, [Next]_vars
    PROVE  OwedInv'
<1> USE DEF connections, acceptor, Elsewhere, Live, Over
<1>1. CASE Join
    BY <1>1 DEF Join, TypeOK, OwedInv
<1>2. CASE StartReconciler
    BY <1>2 DEF StartReconciler, TypeOK, OwedInv
<1>3. CASE Listen
    BY <1>3 DEF Listen, TypeOK, OwedInv
<1>4. CASE EndServe
    BY <1>4 DEF EndServe, NothingLeft, TypeOK, OwedInv
<1>5. CASE StopInDestructor
    BY <1>5 DEF StopInDestructor, Watched, TypeOK, OwedInv
<1>6. CASE Destroy
    BY <1>6 DEF Destroy, Watched, TypeOK, OwedInv
<1>7. CASE Exit
    BY <1>7 DEF Exit, TypeOK, OwedInv
<1>8. CASE ReconcilerEnds
    BY <1>8 DEF ReconcilerEnds, TypeOK, OwedInv
<1>9. CASE CloseAcceptor
    BY <1>9 DEF CloseAcceptor, StrandFree, TypeOK, OwedInv
<1>10. CASE Connect
    BY <1>10 DEF Connect, TypeOK, OwedInv
<1>11. CASE AcceptFails
    BY <1>11 DEF AcceptFails, StrandFree, AfterFailedAccept, TypeOK, OwedInv
<1>12. ASSUME NEW c \in Call, Signal(c) PROVE OwedInv'
    BY <1>12 DEF Signal, TypeOK, OwedInv
<1>13. ASSUME NEW c \in Call, Drain(c) PROVE OwedInv'
    BY <1>13 DEF Drain, StrandFree, DrainsAgain, TypeOK, OwedInv
<1>14. ASSUME NEW c \in Call, DrainEnds(c) PROVE OwedInv'
    BY <1>14 DEF DrainEnds, StrandFree, TypeOK, OwedInv
<1>15. ASSUME NEW c \in Call, Leave(c) PROVE OwedInv'
    BY <1>15 DEF Leave, TypeOK, OwedInv
<1>16. ASSUME NEW c \in Call, StopReconciling(c) PROVE OwedInv'
    BY <1>16 DEF StopReconciling, TypeOK, OwedInv
<1>17. ASSUME NEW c \in Call, JoinReconciler(c) PROVE OwedInv'
    BY <1>17 DEF JoinReconciler, TypeOK, OwedInv
<1>18. ASSUME NEW c \in Call, Mark(c) PROVE OwedInv'
    BY <1>18 DEF Mark, Known, TypeOK, OwedInv
<1>19. ASSUME NEW c \in Call, Walk(c) PROVE OwedInv'
    BY <1>19 DEF Walk, TypeOK, OwedInv
<1>20. ASSUME NEW s \in Session, Hold(s) PROVE OwedInv'
    BY <1>20 DEF Hold, StrandFree, TypeOK, OwedInv
<1>21. ASSUME NEW s \in Session, Run(s) PROVE OwedInv'
    BY <1>21 DEF Run, TypeOK, OwedInv
<1>22. ASSUME NEW s \in Session, Stop(s) PROVE OwedInv'
    BY <1>22 DEF Stop, Cuts, TypeOK, OwedInv
<1>23. ASSUME NEW s \in Session, Ask(s) PROVE OwedInv'
    BY <1>23 DEF Ask, Goes, TypeOK, OwedInv
<1>24. ASSUME NEW s \in Session, OnRead(s) PROVE OwedInv'
    BY <1>24 DEF OnRead, Goes, TypeOK, OwedInv
<1>25. ASSUME NEW s \in Session, Handled(s) PROVE OwedInv'
    BY <1>25 DEF Handled, Goes, TypeOK, OwedInv
<1>26. ASSUME NEW s \in Session, OnWrite(s) PROVE OwedInv'
    BY <1>26 DEF OnWrite, Goes, Keeps, TypeOK, OwedInv
<1>27. ASSUME NEW s \in Session, OnCut(s) PROVE OwedInv'
    BY <1>27 DEF OnCut, Goes, TypeOK, OwedInv
<1>28. ASSUME NEW s \in Session, Expire(s) PROVE OwedInv'
    BY <1>28 DEF Expire, Goes, TypeOK, OwedInv
<1>29. CASE UNCHANGED vars
    BY <1>29 DEF vars, TypeOK, OwedInv
<1>30. QED
    BY <1>1, <1>2, <1>3, <1>4, <1>5, <1>6, <1>7, <1>8, <1>9, <1>10, <1>11,
       <1>12, <1>13, <1>14, <1>15, <1>16, <1>17, <1>18, <1>19, <1>20, <1>21,
       <1>22, <1>23, <1>24, <1>25, <1>26, <1>27, <1>28, <1>29
       DEF Next, Serve, Closing, OnSession, Ended

\* Only a close() that set stopping closes the acceptor.
LEMMA ClosingStep ==
    ASSUME TypeOK, ClosingInv, [Next]_vars
    PROVE  ClosingInv'
<1> USE DEF connections, acceptor, Elsewhere, Live, Over
<1>1. CASE Join
    BY <1>1 DEF Join, TypeOK, ClosingInv
<1>2. CASE StartReconciler
    BY <1>2 DEF StartReconciler, TypeOK, ClosingInv
<1>3. CASE Listen
    BY <1>3 DEF Listen, TypeOK, ClosingInv
<1>4. CASE EndServe
    BY <1>4 DEF EndServe, NothingLeft, TypeOK, ClosingInv
<1>5. CASE StopInDestructor
    BY <1>5 DEF StopInDestructor, Watched, TypeOK, ClosingInv
<1>6. CASE Destroy
    BY <1>6 DEF Destroy, Watched, TypeOK, ClosingInv
<1>7. CASE Exit
    BY <1>7 DEF Exit, TypeOK, ClosingInv
<1>8. CASE ReconcilerEnds
    BY <1>8 DEF ReconcilerEnds, TypeOK, ClosingInv
<1>9. CASE CloseAcceptor
    BY <1>9 DEF CloseAcceptor, StrandFree, TypeOK, ClosingInv
<1>10. CASE Connect
    BY <1>10 DEF Connect, TypeOK, ClosingInv
<1>11. CASE AcceptFails
    BY <1>11 DEF AcceptFails, StrandFree, AfterFailedAccept, TypeOK, ClosingInv
<1>12. ASSUME NEW c \in Call, Signal(c) PROVE ClosingInv'
    BY <1>12 DEF Signal, TypeOK, ClosingInv
<1>13. ASSUME NEW c \in Call, Drain(c) PROVE ClosingInv'
    BY <1>13 DEF Drain, StrandFree, DrainsAgain, TypeOK, ClosingInv
<1>14. ASSUME NEW c \in Call, DrainEnds(c) PROVE ClosingInv'
    BY <1>14 DEF DrainEnds, StrandFree, TypeOK, ClosingInv
<1>15. ASSUME NEW c \in Call, Leave(c) PROVE ClosingInv'
    BY <1>15 DEF Leave, TypeOK, ClosingInv
<1>16. ASSUME NEW c \in Call, StopReconciling(c) PROVE ClosingInv'
    BY <1>16 DEF StopReconciling, TypeOK, ClosingInv
<1>17. ASSUME NEW c \in Call, JoinReconciler(c) PROVE ClosingInv'
    BY <1>17 DEF JoinReconciler, TypeOK, ClosingInv
<1>18. ASSUME NEW c \in Call, Mark(c) PROVE ClosingInv'
    BY <1>18 DEF Mark, Known, TypeOK, ClosingInv
<1>19. ASSUME NEW c \in Call, Walk(c) PROVE ClosingInv'
    BY <1>19 DEF Walk, TypeOK, ClosingInv
<1>20. ASSUME NEW s \in Session, Hold(s) PROVE ClosingInv'
    BY <1>20 DEF Hold, StrandFree, TypeOK, ClosingInv
<1>21. ASSUME NEW s \in Session, Run(s) PROVE ClosingInv'
    BY <1>21 DEF Run, TypeOK, ClosingInv
<1>22. ASSUME NEW s \in Session, Stop(s) PROVE ClosingInv'
    BY <1>22 DEF Stop, Cuts, TypeOK, ClosingInv
<1>23. ASSUME NEW s \in Session, Ask(s) PROVE ClosingInv'
    BY <1>23 DEF Ask, Goes, TypeOK, ClosingInv
<1>24. ASSUME NEW s \in Session, OnRead(s) PROVE ClosingInv'
    BY <1>24 DEF OnRead, Goes, TypeOK, ClosingInv
<1>25. ASSUME NEW s \in Session, Handled(s) PROVE ClosingInv'
    BY <1>25 DEF Handled, Goes, TypeOK, ClosingInv
<1>26. ASSUME NEW s \in Session, OnWrite(s) PROVE ClosingInv'
    BY <1>26 DEF OnWrite, Goes, Keeps, TypeOK, ClosingInv
<1>27. ASSUME NEW s \in Session, OnCut(s) PROVE ClosingInv'
    BY <1>27 DEF OnCut, Goes, TypeOK, ClosingInv
<1>28. ASSUME NEW s \in Session, Expire(s) PROVE ClosingInv'
    BY <1>28 DEF Expire, Goes, TypeOK, ClosingInv
<1>29. CASE UNCHANGED vars
    BY <1>29 DEF vars, TypeOK, ClosingInv
<1>30. QED
    BY <1>1, <1>2, <1>3, <1>4, <1>5, <1>6, <1>7, <1>8, <1>9, <1>10, <1>11,
       <1>12, <1>13, <1>14, <1>15, <1>16, <1>17, <1>18, <1>19, <1>20, <1>21,
       <1>22, <1>23, <1>24, <1>25, <1>26, <1>27, <1>28, <1>29
       DEF Next, Serve, Closing, OnSession, Ended

\* No connection is passed over by the closes that walk them.
LEMMA TellStep ==
    ASSUME TypeOK, TellInv, [Next]_vars
    PROVE  TellInv'
<1> USE DEF connections, acceptor, Elsewhere, Live, Over
<1>1. CASE Join
    BY <1>1 DEF Join, TypeOK, TellInv, ToBeTold
<1>2. CASE StartReconciler
    BY <1>2 DEF StartReconciler, TypeOK, TellInv, ToBeTold
<1>3. CASE Listen
    BY <1>3 DEF Listen, TypeOK, TellInv, ToBeTold
<1>4. CASE EndServe
    BY <1>4 DEF EndServe, NothingLeft, TypeOK, TellInv, ToBeTold
<1>5. CASE StopInDestructor
    BY <1>5 DEF StopInDestructor, Watched, TypeOK, TellInv, ToBeTold
<1>6. CASE Destroy
    BY <1>6 DEF Destroy, Watched, TypeOK, TellInv, ToBeTold
<1>7. CASE Exit
    BY <1>7 DEF Exit, TypeOK, TellInv, ToBeTold
<1>8. CASE ReconcilerEnds
    BY <1>8 DEF ReconcilerEnds, TypeOK, TellInv, ToBeTold
<1>9. CASE CloseAcceptor
    BY <1>9 DEF CloseAcceptor, StrandFree, TypeOK, TellInv, ToBeTold
<1>10. CASE Connect
    BY <1>10 DEF Connect, TypeOK, TellInv, ToBeTold
<1>11. CASE AcceptFails
    BY <1>11 DEF AcceptFails, StrandFree, AfterFailedAccept, TypeOK, TellInv,
       ToBeTold
<1>12. ASSUME NEW c \in Call, Signal(c) PROVE TellInv'
    BY <1>12 DEF Signal, TypeOK, TellInv, ToBeTold
<1>13. ASSUME NEW c \in Call, Drain(c) PROVE TellInv'
    BY <1>13 DEF Drain, StrandFree, DrainsAgain, TypeOK, TellInv, ToBeTold
<1>14. ASSUME NEW c \in Call, DrainEnds(c) PROVE TellInv'
    BY <1>14 DEF DrainEnds, StrandFree, TypeOK, TellInv, ToBeTold
<1>15. ASSUME NEW c \in Call, Leave(c) PROVE TellInv'
    BY <1>15 DEF Leave, TypeOK, TellInv, ToBeTold
<1>16. ASSUME NEW c \in Call, StopReconciling(c) PROVE TellInv'
    BY <1>16 DEF StopReconciling, TypeOK, TellInv, ToBeTold
<1>17. ASSUME NEW c \in Call, JoinReconciler(c) PROVE TellInv'
    BY <1>17 DEF JoinReconciler, TypeOK, TellInv, ToBeTold
<1>18. ASSUME NEW c \in Call, Mark(c) PROVE TellInv'
    BY <1>18 DEF Mark, Known, TypeOK, TellInv, ToBeTold
<1>19. ASSUME NEW c \in Call, Walk(c) PROVE TellInv'
    BY <1>19 DEF Walk, TypeOK, TellInv, ToBeTold
<1>20. ASSUME NEW s \in Session, Hold(s) PROVE TellInv'
    BY <1>20 DEF Hold, StrandFree, TypeOK, TellInv, ToBeTold
<1>21. ASSUME NEW s \in Session, Run(s) PROVE TellInv'
    BY <1>21 DEF Run, TypeOK, TellInv, ToBeTold
<1>22. ASSUME NEW s \in Session, Stop(s) PROVE TellInv'
    BY <1>22 DEF Stop, Cuts, TypeOK, TellInv, ToBeTold
<1>23. ASSUME NEW s \in Session, Ask(s) PROVE TellInv'
    BY <1>23 DEF Ask, Goes, TypeOK, TellInv, ToBeTold
<1>24. ASSUME NEW s \in Session, OnRead(s) PROVE TellInv'
    BY <1>24 DEF OnRead, Goes, TypeOK, TellInv, ToBeTold
<1>25. ASSUME NEW s \in Session, Handled(s) PROVE TellInv'
    BY <1>25 DEF Handled, Goes, TypeOK, TellInv, ToBeTold
<1>26. ASSUME NEW s \in Session, OnWrite(s) PROVE TellInv'
    BY <1>26 DEF OnWrite, Goes, Keeps, TypeOK, TellInv, ToBeTold
<1>27. ASSUME NEW s \in Session, OnCut(s) PROVE TellInv'
    BY <1>27 DEF OnCut, Goes, TypeOK, TellInv, ToBeTold
<1>28. ASSUME NEW s \in Session, Expire(s) PROVE TellInv'
    BY <1>28 DEF Expire, Goes, TypeOK, TellInv, ToBeTold
<1>29. CASE UNCHANGED vars
    BY <1>29 DEF vars, TypeOK, TellInv, ToBeTold
<1>30. QED
    BY <1>1, <1>2, <1>3, <1>4, <1>5, <1>6, <1>7, <1>8, <1>9, <1>10, <1>11,
       <1>12, <1>13, <1>14, <1>15, <1>16, <1>17, <1>18, <1>19, <1>20, <1>21,
       <1>22, <1>23, <1>24, <1>25, <1>26, <1>27, <1>28, <1>29
       DEF Next, Serve, Closing, OnSession, Ended

-----------------------------------------------------------------------------
\* Inv holds of every process, whatever its clients and its signals do.
LEMMA Invariant == Spec => []Inv
<1>1. Init => Inv
  <2> SUFFICES ASSUME Init PROVE Inv
    OBVIOUS
  <2>1. TypeOK
    BY DEF Init, TypeOK, Phases
  <2>2. AfterServing /\ ReconcilerInv /\ OwedInv
    BY DEF Init, AfterServing, ReconcilerInv, OwedInv
  <2>3. ClosingInv /\ TellInv
    BY DEF Init, ClosingInv, TellInv
  <2>4. QED
    BY <2>1, <2>2, <2>3 DEF Inv
<1>2. Inv /\ [Next]_vars => Inv'
  <2> SUFFICES ASSUME Inv, [Next]_vars PROVE Inv'
    OBVIOUS
  <2>1. TypeOK' /\ AfterServing' /\ ReconcilerInv'
    BY TypeStep, AfterServingStep, ReconcilerStep DEF Inv
  <2>2. OwedInv' /\ ClosingInv' /\ TellInv'
    BY OwedStep, ClosingStep, TellStep DEF Inv
  <2>3. QED
    BY <2>1, <2>2 DEF Inv
<1>3. QED
    BY <1>1, <1>2, PTL DEF Spec

\* The state of a process has its types: no connection is noted or told that
\* was never made.
THEOREM ServerTypeCorrect == Spec => []TypeOK
<1>1. Inv => TypeOK
    BY DEF Inv
<1>2. QED
    BY <1>1, Invariant, PTL

\* When ~server has destroyed the store and the router no connection, no close()
\* and no pass of the reconciling thread is left to use them.
THEOREM StoreIsLast == Spec => []StoreOutlivesUsers
<1>1. Inv => StoreOutlivesUsers
    BY DEF Inv, AfterServing, ReconcilerInv, StoreOutlivesUsers
<1>2. QED
    BY <1>1, Invariant, PTL

\* A shutdown leaves no connection waiting that it did not tell, and cuts none
\* that owes its client an answer.
THEOREM ShutdownCutsWaiters == Spec => []OnlyWaitersAreCut
<1>1. Inv => OnlyWaitersAreCut
  <2> SUFFICES ASSUME Inv, NEW s \in Session
               PROVE  /\ /\ \A c \in Call : call[c] \in {"none", "done"}
                         /\ ~open
                         /\ session[s] = "waiting"
                         => s \in told \cup early
                      /\ s \in owed => session[s] \notin {"cut", "dropped"}
    BY DEF OnlyWaitersAreCut
  <2>1. s \in owed => session[s] \notin {"cut", "dropped"}
    BY DEF Inv, OwedInv
  <2>2. ASSUME \A c \in Call : call[c] \in {"none", "done"}, ~open,
               session[s] = "waiting"
        PROVE  s \in told \cup early
    <3>1. ToBeTold(s)
      BY <2>2 DEF Inv, ClosingInv, TellInv
    <3>2. QED
      BY <2>2, <3>1 DEF ToBeTold
  <2>3. QED
    BY <2>1, <2>2
<1>2. QED
    BY <1>1, Invariant, PTL
-----------------------------------------------------------------------------
(* Reads, while the copies die and are filled *)

\* What the rest needs to know of the state's types.
HoldTypes ==
    /\ store \in [Node -> SUBSET Key]
    /\ ask \in Tasks
    /\ acked \subseteq Key
    /\ tainted \in BOOLEAN

\* What was acknowledged and is anywhere is at every copy that vouches for it,
\* those apart that were never given it.
CopiesInv ==
    /\ \A n \in Copies : n \notin tables => store[n] = {}
    /\ \A k \in acked : \E m \in Copies : k \in store[m]
    /\ \A m \in Copies : m \in up \cup tables /\ m \notin short \cup thin
                           => acked \subseteq store[m]

\* A read has its miss from a copy that is up.
GetInv ==
    /\ looked \subseteq Copies \cap up
    /\ left \subseteq Copies
    /\ looked # {} \/ at = "absent" => ask.task = "get"
    /\ ask.task = "get" => sure \subseteq acked

ReadsInv == HoldTypes /\ CopiesInv /\ GetInv /\ NotFoundIsTrue
-----------------------------------------------------------------------------
\* What becomes of the copies keeps it.
LEMMA ClusterKeeps ==
    ASSUME ReadsInv, Cluster
    PROVE  ReadsInv'
  <1> USE ReadsAssumption DEF ReadsInv
  <1>0. at \in {"idle", "asking", "walking"}
    BY DEF Cluster
  <1>1. ASSUME NEW k \in Key, NEW S \in SUBSET Copies, Write(k, S) PROVE ReadsInv'
    <2>1. /\ S \subseteq Copies \cap up \cap tables
          /\ store' = [n \in Node |-> IF n \in S THEN store[n] \cup {k} ELSE store[n]]
          /\ acked' = IF S = Copies THEN acked \cup {k} ELSE acked
          /\ UNCHANGED <<up, tables, short, thin, ask, at, left, looked, sure, tainted>>
      BY <1>1 DEF Write, client
    <2>2. HoldTypes'
      BY <2>1 DEF HoldTypes
    <2>3. \A n \in Copies : store'[n] = IF n \in S THEN store[n] \cup {k} ELSE store[n]
      BY <2>1
    <2>4. CopiesInv'
      BY <2>1, <2>3 DEF CopiesInv
    <2>5. GetInv' /\ NotFoundIsTrue'
      BY <2>1 DEF GetInv, NotFoundIsTrue
    <2> QED BY <2>2, <2>4, <2>5
  <1>2. ASSUME NEW n \in Copies, NEW lost \in BOOLEAN, Die(n, lost) PROVE ReadsInv'
    <2>1. /\ up' = up \ {n}
          /\ store' = IF lost THEN [store EXCEPT ![n] = {}] ELSE store
          /\ tables' = IF lost THEN tables \ {n} ELSE tables
          /\ acked' = {k \in acked : \E m \in Copies : k \in store'[m]}
          /\ ask.task = "get" => sure' = sure \cap acked'
          /\ looked' = looked \ {n}
          /\ UNCHANGED <<short, thin, ask, at, left, tainted>>
      BY <1>2 DEF Die
    <2>2. HoldTypes'
      BY <2>1 DEF HoldTypes
    <2>3. \A m \in Copies : store'[m] = IF m = n /\ lost THEN {} ELSE store[m]
      BY <2>1 DEF HoldTypes
    <2>4. CopiesInv'
      BY <2>1, <2>3 DEF CopiesInv
    <2>5. GetInv'
      BY <2>1 DEF GetInv
    <2>6. NotFoundIsTrue'
      BY <1>0, <2>1 DEF NotFoundIsTrue
    <2> QED BY <2>2, <2>4, <2>5, <2>6
  <1>3. ASSUME NEW n \in Copies, Return(n) \/ StartEmpty(n) PROVE ReadsInv'
    <2>1. /\ up' = up \cup {n}
          /\ \/ /\ n \in tables
                /\ thin' = thin \cup (short \cap {n}) /\ short' = short \ {n}
             \/ thin' = thin \ {n} /\ short' = short \cup {n}
          /\ UNCHANGED <<store, tables, acked, ask, at, left, looked, sure, tainted>>
      BY <1>3 DEF Return, StartEmpty, Starts, client
    <2>2. CopiesInv'
      BY <2>1 DEF CopiesInv
    <2> QED BY <2>1, <2>2 DEF HoldTypes, GetInv, NotFoundIsTrue
  <1>4. ASSUME NEW n \in Copies, Rebuild(n) PROVE ReadsInv'
    <2>1. /\ n \notin tables
          /\ up' = up \cup {n}
          /\ UNCHANGED <<acked, ask, at, left, looked, sure, tainted>>
      BY <1>4 DEF Rebuild, Starts, client
    <2>a. PICK m \in Copies \cap up :
            /\ Named(n, m)
            /\ \E taken \in SUBSET store[m] :
                /\ store' = [store EXCEPT ![n] = taken]
                /\ short' = IF taken = store[m] THEN short \ {n} ELSE short \cup {n}
                /\ thin' = IF taken = store[m] /\ m \in short \cup thin
                           THEN thin \cup {n} ELSE thin \ {n}
      BY <1>4 DEF Rebuild
    <2>2. PICK taken \in SUBSET store[m] :
            /\ tables' = IF m \in tables THEN tables \cup {n} ELSE tables
            /\ store' = [store EXCEPT ![n] = taken]
            /\ short' = IF taken = store[m] THEN short \ {n} ELSE short \cup {n}
            /\ thin' = IF taken = store[m] /\ m \in short \cup thin
                       THEN thin \cup {n} ELSE thin \ {n}
      BY <2>a DEF Named
    <2>3. \A i \in Copies : store'[i] = IF i = n THEN taken ELSE store[i]
      BY <2>2 DEF HoldTypes
    <2>4. HoldTypes'
      BY <2>1, <2>2 DEF HoldTypes
    <2>5. store[n] = {} /\ (m \notin tables => taken = {})
      BY <2>1, <2>2 DEF CopiesInv
    <2>6. \A k \in acked' : \E i \in Copies : k \in store'[i]
      BY <2>1, <2>3, <2>5 DEF CopiesInv
    <2>7. ASSUME NEW i \in Copies PROVE i \notin tables' => store'[i] = {}
      BY <2>2, <2>3, <2>5 DEF CopiesInv
    <2>8. ASSUME NEW i \in Copies, i \in up' \cup tables', i \notin short' \cup thin'
          PROVE  acked' \subseteq store'[i]
      <3>1. CASE i # n
        BY <2>1, <2>2, <2>3, <2>8, <3>1 DEF CopiesInv
      <3>2. CASE i = n
        BY <2>1, <2>2, <2>3, <2>8, <3>2 DEF CopiesInv
      <3> QED BY <3>1, <3>2
    <2> QED BY <2>1, <2>4, <2>6, <2>7, <2>8 DEF CopiesInv, GetInv, NotFoundIsTrue
  <1>5. ASSUME NEW n \in Copies, Fill(n) PROVE ReadsInv'
    <2>1. /\ Copies \subseteq up
          /\ tables' = tables \cup {n} \/ tables' = tables
          /\ short' = short \ {n}
          /\ UNCHANGED <<up, acked, ask, at, left, looked, sure, tainted>>
      BY <1>5 DEF Fill, Named, client
    <2>2. CASE n \in tables'
      <3>1. /\ store' = [store EXCEPT ![n] = UNION {store[m] : m \in Copies}]
            /\ thin' = thin \ {n}
        BY <1>5, <2>2 DEF Fill
      <3>2. UNION {store[m] : m \in Copies} \in SUBSET Key
        BY DEF HoldTypes
      <3>3. \A i \in Copies :
              store'[i] = IF i = n THEN UNION {store[m] : m \in Copies} ELSE store[i]
        BY <3>1 DEF HoldTypes
      <3>4. HoldTypes'
        BY <2>1, <3>1, <3>2 DEF HoldTypes
      <3>5. acked \subseteq UNION {store[m] : m \in Copies}
        BY DEF CopiesInv
      <3>6. \A i \in Copies : store[i] \subseteq store'[i]
        BY <3>3
      <3>7. CopiesInv'
        <4>1. \A i \in Copies : i \notin tables' => store'[i] = {}
          BY <2>1, <2>2, <3>3 DEF CopiesInv
        <4>2. \A k \in acked' : \E i \in Copies : k \in store'[i]
          BY <2>1, <3>6 DEF CopiesInv
        <4>3. ASSUME NEW i \in Copies, i \notin short' \cup thin'
              PROVE  acked' \subseteq store'[i]
          <5>1. CASE i = n
            BY <2>1, <3>3, <3>5, <5>1
          <5>2. CASE i # n
            BY <2>1, <3>1, <3>3, <4>3, <5>2 DEF CopiesInv
          <5> QED BY <5>1, <5>2
        <4> QED BY <4>1, <4>2, <4>3 DEF CopiesInv
      <3> QED BY <2>1, <3>4, <3>7 DEF GetInv, NotFoundIsTrue
    <2>3. CASE n \notin tables'
      <3>1. thin' = thin \cup {n} /\ store' = store /\ tables' = tables
        BY <1>5, <2>1, <2>3 DEF Fill
      <3>2. CopiesInv'
        BY <2>1, <3>1 DEF CopiesInv
      <3> QED BY <2>1, <3>1, <3>2 DEF HoldTypes, GetInv, NotFoundIsTrue
    <2> QED BY <2>2, <2>3
  <1> QED BY <1>1, <1>2, <1>3, <1>4, <1>5 DEF Cluster

\* And so does what the client asks and is answered.
LEMMA ClientKeeps ==
    ASSUME ReadsInv, Client
    PROVE  ReadsInv'
  <1> USE ReadsAssumption DEF ReadsInv
  <1>0. UNCHANGED <<up, store, tables, short, acked, thin, ask>>
    BY DEF Client, Begin, Fails, Get, Scan, Forward, Miss, PassOver, AskFile, nodes
  <1>1. CopiesInv'
    BY <1>0 DEF CopiesInv
  <1>2. SUFFICES tainted' \in BOOLEAN /\ GetInv' /\ NotFoundIsTrue'
    BY <1>0, <1>1 DEF HoldTypes
  <1>3. CASE Begin
    <2>1. /\ at' = "asking" /\ UNCHANGED <<left, looked, tainted>>
          /\ ask.task = "get" => sure' = acked \cap {ask.key}
          /\ at = "idle"
      BY <1>3 DEF Begin
    <2> QED BY <1>0, <2>1 DEF GetInv, HoldTypes, NotFoundIsTrue
  <1>4. CASE Fails \/ \E m \in Node : PassOver(m)
    <2>1. /\ at \in {"walking"} /\ at' \in {"asking", "walking"}
          /\ left' \subseteq left /\ looked' = {} /\ UNCHANGED <<sure, tainted>>
      BY <1>4 DEF Fails, PassOver
    <2> QED BY <1>0, <2>1 DEF GetInv, HoldTypes, NotFoundIsTrue
  <1>5. CASE \E p \in pieces : AskFile(p)
    <2>1. /\ at = "asking" /\ at' \in {"whole", "asking"}
          /\ UNCHANGED <<left, looked, sure, tainted>>
      BY <1>5 DEF AskFile
    <2> QED BY <1>0, <2>1 DEF GetInv, HoldTypes, NotFoundIsTrue
  <1>6. ASSUME NEW m \in Node, Miss(m) PROVE GetInv' /\ NotFoundIsTrue' /\ tainted' \in BOOLEAN
    <2>1. /\ m \in looked /\ looked' = {} /\ UNCHANGED sure /\ at = "walking"
          /\ ask.task = "get" /\ m \in Copies \cap up
      BY <1>6 DEF Miss, GetInv
    <2>2. CASE NotFound(m)
      <3>1. /\ at' = "absent" /\ left' = {}
            /\ tainted' = (tainted \/ m \in thin \/ ask.key \in store[m])
        BY <1>6, <2>2 DEF Miss
      <3>2. ASSUME ~tainted' PROVE ask.key \notin sure
        BY <2>1, <2>2, <3>1, <3>2 DEF NotFound, CopiesInv, GetInv
      <3> QED BY <1>0, <2>1, <3>1, <3>2 DEF GetInv, NotFoundIsTrue
    <2>3. CASE ~NotFound(m)
      <3>1. UNCHANGED <<at, left, tainted>>
        BY <1>6, <2>3 DEF Miss
      <3> QED BY <1>0, <2>1, <3>1 DEF GetInv, HoldTypes, NotFoundIsTrue
    <2> QED BY <2>2, <2>3
  <1>7. ASSUME NEW m \in Node, Get(m) \/ Scan(m) \/ Forward(m)
        PROVE  /\ UNCHANGED sure
               /\ tainted' \in BOOLEAN
               /\ at' # "absent"
               /\ left' \subseteq Copies
               /\ looked' # {} => ask.task = "get" /\ looked' \subseteq Copies \cap up
    <2>0. tainted \in BOOLEAN /\ (tainted \/ m \in thin) \in BOOLEAN
      BY DEF HoldTypes
    <2>1. ASSUME NEW how \in {"found", "refused", "asking", "whole", "no table"},
                 Answered(m, how)
          PROVE  /\ tainted' \in BOOLEAN /\ at' # "absent" /\ left' = {} /\ looked' = {}
      BY <2>0, <2>1 DEF Answered
    <2>2. ASSUME Look(m), m \in Copies \cap up
          PROVE  /\ tainted' \in BOOLEAN /\ at' # "absent" /\ left' \subseteq Copies
                 /\ looked' \subseteq Copies \cap up
      BY <2>0, <2>1, <2>2 DEF Look, GetInv
    <2>3. ASSUME Route(m), looked = {} \/ at = "asking"
          PROVE  /\ tainted' \in BOOLEAN /\ at' # "absent" /\ left' \subseteq Copies
                 /\ looked' = looked
      BY <2>0, <2>3 DEF Route, Others
    <2>4. ASSUME Page(m)
          PROVE  /\ tainted' \in BOOLEAN /\ at' # "absent" /\ left' = {} /\ looked' = {}
      <3>1. \/ Answered(m, "refused") \/ Answered(m, "asking") \/ Answered(m, "whole")
        BY <2>4, Zenon DEF Page
      <3> QED BY <2>1, <3>1
    <2>5. CASE Get(m)
      <3>1. \/ Answered(m, "no table")
            \/ Look(m) /\ m \in Copies \cap up
            \/ Route(m)
        BY <2>5 DEF Get
      <3>2. at = "asking" /\ ask.task = "get" /\ UNCHANGED sure
        BY <2>5 DEF Get
      <3> QED BY <2>1, <2>2, <2>3, <3>1, <3>2 DEF GetInv
    <2>6. CASE Scan(m)
      <3>1. Answered(m, "no table") \/ Page(m) \/ Route(m)
        BY <2>6 DEF Scan
      <3>2. at = "asking" /\ ask.task = "scan" /\ UNCHANGED sure
        BY <2>6 DEF Scan
      <3> QED BY <2>1, <2>3, <2>4, <3>1, <3>2 DEF GetInv
    <2>7. CASE Forward(m)
      <3>1. \/ Answered(m, "no table")
            \/ Look(m) /\ m \in Copies \cap up /\ ask.task = "get"
            \/ Page(m)
        BY <2>7 DEF Forward, GetInv
      <3>2. UNCHANGED sure
        BY <2>7 DEF Forward
      <3> QED BY <2>1, <2>2, <2>4, <3>1, <3>2
    <2> QED BY <1>7, <2>5, <2>6, <2>7
  <1>8. ASSUME NEW m \in Node, Get(m) \/ Scan(m) \/ Forward(m)
        PROVE  GetInv' /\ NotFoundIsTrue' /\ tainted' \in BOOLEAN
    BY <1>0, <1>7, <1>8 DEF GetInv, NotFoundIsTrue
  <1> QED BY <1>3, <1>4, <1>5, <1>6, <1>8 DEF Client

\* Nobody asks yet.
LEMMA ReadsBegins == ReadsInit => ReadsInv
  <1> SUFFICES ASSUME ReadsInit PROVE ReadsInv
    OBVIOUS
  <1>1. HoldTypes
    BY ReadsAssumption DEF ReadsInit, HoldTypes
  <1>2. CopiesInv
    BY ReadsAssumption DEF ReadsInit, CopiesInv
  <1>3. GetInv /\ NotFoundIsTrue
    BY DEF ReadsInit, GetInv, NotFoundIsTrue
  <1> QED BY <1>1, <1>2, <1>3 DEF ReadsInv

LEMMA ReadsKeep == ReadsInv /\ [ReadsNext]_readsVars => ReadsInv'
  <1> SUFFICES ASSUME ReadsInv, [ReadsNext]_readsVars PROVE ReadsInv'
    OBVIOUS
  <1>1. CASE UNCHANGED readsVars
    BY <1>1 DEF readsVars, nodes, client, ReadsInv, HoldTypes, CopiesInv, GetInv,
                NotFoundIsTrue
  <1> QED BY <1>1, ClusterKeeps, ClientKeeps DEF ReadsNext

\* A miss is answered only for what is not there, for any nodes, copies and keys,
\* whichever copies die, lose their disks, are rebuilt and filled, but by a copy
\* that vouches for what it was never given, or was given the record after it had
\* looked (router.cpp, read_here, read_record).
THEOREM MissesAreTrue == ReadsSpec => []NotFoundIsTrue
  <1>1. ReadsInv => NotFoundIsTrue
    BY DEF ReadsInv
  <1> QED BY <1>1, ReadsBegins, ReadsKeep, PTL DEF ReadsSpec
-----------------------------------------------------------------------------
(* Keys in order *)

\* One key comes before another in the order of a listing.
Precedes(j, k, reverse) == IF reverse THEN j > k ELSE j < k

Sorted(s, reverse) == \A i, j \in DOMAIN s : i < j => Precedes(s[i], s[j], reverse)

\* Keys are finitely many.
LEMMA KeysFinite ==
    ASSUME NEW S \in SUBSET Key
    PROVE  IsFiniteSet(S) /\ Cardinality(S) \in Nat
  <1>1. IsFiniteSet(Key)
    BY FS_Interval, ReadsAssumption DEF Key
  <1> QED BY <1>1, FS_Subset, FS_CardinalityType

\* Any set of keys can be put in order: a key's place is the number of keys up to
\* it.
LEMMA ListingExists ==
    ASSUME NEW S \in SUBSET Key, NEW reverse \in BOOLEAN
    PROVE  \E s \in [1 .. Cardinality(S) -> S] : Sorted(s, reverse)
  <1> DEFINE N == Cardinality(S)
             upto(x) == {y \in S : y = x \/ Precedes(y, x, reverse)}
             place == [x \in S |-> Cardinality(upto(x))]
  <1>1. IsFiniteSet(S) /\ N \in Nat /\ S \subseteq Nat
    BY KeysFinite, ReadsAssumption DEF Key
  <1>2. ASSUME NEW x \in S PROVE IsFiniteSet(upto(x)) /\ place[x] \in 1 .. N
    <2>1. upto(x) \in SUBSET S /\ x \in upto(x)
      OBVIOUS
    <2>2. IsFiniteSet(upto(x)) /\ Cardinality(upto(x)) <= N
      BY <1>1, <2>1, FS_Subset
    <2>3. Cardinality(upto(x)) \in Nat /\ Cardinality(upto(x)) # 0
      BY <2>1, <2>2, FS_CardinalityType, FS_EmptySet
    <2>4. place[x] = Cardinality(upto(x))
      OBVIOUS
    <2> QED BY <1>1, <2>2, <2>3, <2>4
  <1>3. ASSUME NEW x \in S, NEW y \in S, Precedes(x, y, reverse)
        PROVE  place[x] < place[y]
    <2>1. upto(x) \in SUBSET upto(y) /\ y \notin upto(x) /\ y \in upto(y)
      <3>1. ASSUME NEW z \in upto(x) PROVE z \in upto(y) /\ z # y
        <4>1. z \in S /\ (z = x \/ Precedes(z, x, reverse))
          OBVIOUS
        <4>2. Precedes(z, y, reverse)
          BY <1>1, <1>3, <4>1 DEF Precedes
        <4>3. z # y
          BY <1>1, <4>1, <4>2 DEF Precedes
        <4> QED BY <4>1, <4>2, <4>3
      <3>2. y \in upto(y)
        OBVIOUS
      <3> HIDE DEF upto
      <3> QED BY <3>1, <3>2
    <2>2. Cardinality(upto(x)) <= Cardinality(upto(y))
          /\ Cardinality(upto(x)) # Cardinality(upto(y))
      BY <1>2, <2>1, FS_Subset
    <2>3. place[x] = Cardinality(upto(x)) /\ place[y] = Cardinality(upto(y))
      OBVIOUS
    <2> QED BY <1>2, <2>2, <2>3
  <1>4. \A x, y \in S : x = y \/ Precedes(x, y, reverse) \/ Precedes(y, x, reverse)
    BY <1>1 DEF Precedes
  <1>5. place \in Injection(S, 1 .. N)
    <2>1. place \in [S -> 1 .. N]
      BY <1>2
    <2> HIDE DEF place
    <2>2. ASSUME NEW x \in S, NEW y \in S, place[x] = place[y] PROVE x = y
      <3>1. ~(place[x] < place[y]) /\ ~(place[y] < place[x])
        BY <1>1, <2>1, <2>2
      <3> QED BY <1>3, <1>4, <3>1
    <2> QED BY <2>1, <2>2 DEF Injection, IsInjective
  <1>6. place \in Surjection(S, 1 .. N)
    BY <1>1, <1>5, FS_Injection, FS_Interval
  <1>7. \A i \in 1 .. N : \E x \in S : place[x] = i
    BY <1>6 DEF Surjection
  <1> DEFINE s == [i \in 1 .. N |-> CHOOSE x \in S : place[x] = i]
  <1>8. ASSUME NEW i \in 1 .. N PROVE s[i] \in S /\ place[s[i]] = i
    <2> HIDE DEF place
    <2> QED BY <1>7
  <1>9. s \in [1 .. N -> S]
    BY <1>8
  <1>10. ASSUME NEW i \in 1 .. N, NEW j \in 1 .. N, i < j
         PROVE  Precedes(s[i], s[j], reverse)
    <2> HIDE DEF place, s
    <2>1. ~Precedes(s[j], s[i], reverse) /\ s[i] # s[j]
      <3>1. place[s[i]] = i /\ place[s[j]] = j /\ s[i] \in S /\ s[j] \in S
        BY <1>8
      <3>2. Precedes(s[j], s[i], reverse) => place[s[j]] < place[s[i]]
        BY <1>3, <3>1
      <3>3. ~(j < i) /\ i # j
        BY <1>1, <1>10
      <3> QED BY <3>1, <3>2, <3>3
    <2> QED BY <1>4, <1>8, <2>1
  <1>11. Sorted(s, reverse)
    <2> HIDE DEF s
    <2> QED BY <1>9, <1>10 DEF Sorted
  <1> QED BY <1>9, <1>11

\* A listing is of the set, all of it, in order.
LEMMA ListingLists ==
    ASSUME NEW S \in SUBSET Key, NEW reverse \in BOOLEAN
    PROVE  /\ Listing(S, reverse) \in Seq(Key)
           /\ ToSet(Listing(S, reverse)) = S
           /\ Sorted(Listing(S, reverse), reverse)
  <1> DEFINE s == Listing(S, reverse)
             N == Cardinality(S)
  <1>1. s \in [1 .. N -> S] /\ Sorted(s, reverse)
    BY ListingExists DEF Listing, Sorted, Precedes
  <1>2. IsFiniteSet(S) /\ N \in Nat /\ S \subseteq Nat
    BY KeysFinite, ReadsAssumption DEF Key
  <1> HIDE DEF s
  <1>3. s \in Injection(1 .. N, S)
    <2>1. ASSUME NEW i \in 1 .. N, NEW j \in 1 .. N, s[i] = s[j] PROVE i = j
      <3>1. ~(i < j) /\ ~(j < i)
        <4>0. s[i] \in Nat
          BY <1>1, <1>2
        <4>1. ~Precedes(s[i], s[j], reverse) /\ ~Precedes(s[j], s[i], reverse)
          BY <2>1, <4>0 DEF Precedes
        <4>2. i \in DOMAIN s /\ j \in DOMAIN s
          BY <1>1
        <4> QED BY <1>1, <4>1, <4>2 DEF Sorted
      <3> QED BY <1>2, <3>1
    <2> QED BY <1>1, <2>1 DEF Injection, IsInjective
  <1>4. s \in Surjection(1 .. N, S)
    BY <1>2, <1>3, FS_Injection, FS_Interval
  <1>5. ToSet(s) = S
    BY <1>1, <1>4 DEF Surjection, ToSet
  <1>6. s \in Seq(Key)
    <2>1. s \in [1 .. N -> Key]
      BY <1>1
    <2> QED BY <1>2, <2>1, SeqDef
  <1> QED BY <1>1, <1>5, <1>6 DEF s

\* The first of a listing, and what is left of it.
LEMMA FirstOfListing ==
    ASSUME NEW S \in SUBSET Key, NEW reverse \in BOOLEAN,
           NEW n \in 0 .. Len(Listing(S, reverse))
    PROVE  LET s == Listing(S, reverse)
               taken == SubSeq(s, 1, n)
           IN  /\ taken \in Seq(Key)
               /\ Sorted(taken, reverse)
               /\ ToSet(taken) \subseteq S
               /\ n = Len(s) => ToSet(taken) = S
               /\ n # 0 => /\ s[n] \in S
                           /\ \A k \in S : \/ k \in ToSet(taken)
                                           \/ Precedes(s[n], k, reverse)
                           /\ \A k \in ToSet(taken) : ~Precedes(s[n], k, reverse)
  <1> DEFINE s == Listing(S, reverse)
             taken == SubSeq(s, 1, n)
  <1>1. s \in Seq(Key) /\ ToSet(s) = S /\ Sorted(s, reverse) /\ S \subseteq Nat
    BY ListingLists, ReadsAssumption DEF Key
  <1> HIDE DEF s
  <1>2. Len(s) \in Nat /\ DOMAIN s = 1 .. Len(s) /\ n \in 0 .. Len(s)
    BY <1>1, LenProperties DEF s
  <1>3. /\ taken \in Seq(Key) /\ Len(taken) = n
        /\ \A i \in 1 .. n : taken[i] = s[i]
    <2>1. \A i \in 1 .. n : s[i] \in Key
      BY <1>1, <1>2
    <2> QED BY <1>2, <2>1, SubSeqProperties
  <1> HIDE DEF taken
  <1>4. DOMAIN taken = 1 .. n /\ 1 .. n \subseteq DOMAIN s
    BY <1>2, <1>3
  <1>5. ToSet(taken) = {s[i] : i \in 1 .. n} /\ S = {s[i] : i \in 1 .. Len(s)}
    BY <1>1, <1>2, <1>3, <1>4 DEF ToSet
  <1>6. Sorted(taken, reverse)
    BY <1>1, <1>3, <1>4 DEF Sorted
  <1>7. ToSet(taken) \subseteq S /\ (n = Len(s) => ToSet(taken) = S)
    <2>1. 1 .. n \subseteq 1 .. Len(s)
      BY <1>2
    <2>2. ToSet(taken) \subseteq S
      BY <1>5, <2>1
    <2>3. n = Len(s) => ToSet(taken) = S
      BY <1>5
    <2> QED BY <2>2, <2>3
  <1>8. ASSUME n # 0
        PROVE  /\ s[n] \in S
               /\ \A k \in S : k \in ToSet(taken) \/ Precedes(s[n], k, reverse)
               /\ \A k \in ToSet(taken) : ~Precedes(s[n], k, reverse)
    <2>1. n \in 1 .. Len(s) /\ s[n] \in S
      BY <1>2, <1>5, <1>8
    <2>2. ASSUME NEW i \in 1 .. Len(s), ~(i <= n) PROVE Precedes(s[n], s[i], reverse)
      BY <1>1, <1>2, <2>1, <2>2 DEF Sorted
    <2>3. ASSUME NEW k \in S PROVE k \in ToSet(taken) \/ Precedes(s[n], k, reverse)
      <3>1. PICK i \in 1 .. Len(s) : k = s[i]
        BY <1>5
      <3> QED BY <1>2, <1>5, <2>2, <3>1
    <2>4. ASSUME NEW i \in 1 .. n PROVE ~Precedes(s[n], s[i], reverse)
      <3>1. i = n \/ Precedes(s[i], s[n], reverse)
        BY <1>1, <1>2, <2>1 DEF Sorted
      <3>2. s[i] \in Nat /\ s[n] \in Nat
        BY <1>1, <1>2, <1>5
      <3> QED BY <3>1, <3>2 DEF Precedes
    <2> QED BY <1>5, <2>1, <2>3, <2>4
  <1> QED BY <1>3, <1>6, <1>7, <1>8 DEF s, taken

\* What a client has once it was given more, in order, of what it had not come to.
LEMMA GivenMore ==
    ASSUME NEW s \in Seq(Key), NEW t \in Seq(Key)
    PROVE  /\ s \o t \in Seq(Key)
           /\ ToSet(s \o t) = ToSet(s) \cup ToSet(t)
           /\ \A reverse \in BOOLEAN :
                /\ Sorted(s, reverse) /\ Sorted(t, reverse)
                /\ \A j \in ToSet(s), k \in ToSet(t) : Precedes(j, k, reverse)
                => Sorted(s \o t, reverse)
           /\ /\ IsInjective(s) /\ IsInjective(t)
              /\ ToSet(s) \cap ToSet(t) = {}
              => IsInjective(s \o t)
  <1> DEFINE m == Len(s)
             n == Len(t)
             u == s \o t
  <1>1. /\ m \in Nat /\ n \in Nat
        /\ DOMAIN s = 1 .. m /\ DOMAIN t = 1 .. n
    BY LenProperties
  <1>2. /\ u \in Seq(Key) /\ Len(u) = m + n /\ DOMAIN u = 1 .. m + n
        /\ \A i \in 1 .. m + n : u[i] = IF i <= m THEN s[i] ELSE t[i - m]
    BY ConcatProperties, LenProperties
  <1> HIDE DEF m, n, u
  <1>3. ASSUME NEW i \in 1 .. m + n
        PROVE  \/ i \in 1 .. m /\ u[i] = s[i] /\ u[i] \in ToSet(s)
               \/ i \notin 1 .. m /\ i - m \in 1 .. n /\ u[i] = t[i - m] /\ u[i] \in ToSet(t)
    <2>1. CASE i <= m
      BY <1>1, <1>2, <2>1 DEF ToSet
    <2>2. CASE ~(i <= m)
      <3>1. i - m \in 1 .. n
        BY <1>1, <2>2
      <3>2. t[i - m] \in ToSet(t)
        BY <1>1, <3>1 DEF ToSet
      <3>3. u[i] = t[i - m]
        BY <1>2, <2>2
      <3> QED BY <1>1, <2>2, <3>1, <3>2, <3>3
    <2> QED BY <2>1, <2>2
  <1>4. ToSet(u) = ToSet(s) \cup ToSet(t)
    <2>1. ToSet(u) \subseteq ToSet(s) \cup ToSet(t)
      BY <1>2, <1>3 DEF ToSet
    <2>2. ASSUME NEW i \in 1 .. m PROVE s[i] \in ToSet(u)
      <3>1. i \in 1 .. m + n /\ u[i] = s[i]
        BY <1>1, <1>2
      <3> QED BY <1>2, <3>1 DEF ToSet
    <2>3. ASSUME NEW i \in 1 .. n PROVE t[i] \in ToSet(u)
      <3>1. i + m \in 1 .. m + n /\ ~(i + m <= m) /\ (i + m) - m = i
        BY <1>1
      <3>2. u[i + m] = t[i]
        BY <1>2, <3>1
      <3> QED BY <1>2, <3>1, <3>2 DEF ToSet
    <2>4. ToSet(s) \subseteq ToSet(u) /\ ToSet(t) \subseteq ToSet(u)
      BY <1>1, <2>2, <2>3 DEF ToSet
    <2> QED BY <2>1, <2>4
  <1>5. ASSUME NEW reverse \in BOOLEAN, Sorted(s, reverse), Sorted(t, reverse),
               \A j \in ToSet(s), k \in ToSet(t) : Precedes(j, k, reverse)
        PROVE  Sorted(u, reverse)
    <2> SUFFICES ASSUME NEW i \in 1 .. m + n, NEW j \in 1 .. m + n, i < j
                 PROVE  Precedes(u[i], u[j], reverse)
      BY <1>2 DEF Sorted
    <2>1. CASE j \in 1 .. m
      <3>1. i \in 1 .. m
        BY <1>1, <2>1
      <3> QED BY <1>1, <1>3, <1>5, <2>1, <3>1 DEF Sorted
    <2>2. CASE i \notin 1 .. m
      <3>1. j \notin 1 .. m /\ i - m < j - m
        BY <1>1, <2>2
      <3> QED BY <1>1, <1>3, <1>5, <2>2, <3>1 DEF Sorted
    <2>3. CASE i \in 1 .. m /\ j \notin 1 .. m
      BY <1>3, <1>5, <2>3
    <2> QED BY <2>1, <2>2, <2>3
  <1>6. ASSUME IsInjective(s), IsInjective(t), ToSet(s) \cap ToSet(t) = {}
        PROVE  IsInjective(u)
    <2> SUFFICES ASSUME NEW i \in 1 .. m + n, NEW j \in 1 .. m + n, u[i] = u[j]
                 PROVE  i = j
      BY <1>2 DEF IsInjective
    <2>1. CASE i \in 1 .. m /\ j \in 1 .. m
      BY <1>1, <1>3, <1>6, <2>1 DEF IsInjective
    <2>2. CASE i \notin 1 .. m /\ j \notin 1 .. m
      <3>1. i - m = j - m
        BY <1>1, <1>3, <1>6, <2>2 DEF IsInjective
      <3> QED BY <1>1, <3>1
    <2>3. CASE ~(i \in 1 .. m <=> j \in 1 .. m)
      BY <1>3, <1>6, <2>3
    <2> QED BY <2>1, <2>2, <2>3
  <1> QED BY <1>2, <1>4, <1>5, <1>6 DEF u

\* A set of keys that is not empty has one that comes first.
LEMMA FirstKey ==
    ASSUME NEW S \in SUBSET Key, S # {}, NEW reverse \in BOOLEAN
    PROVE  \E x \in S : \A y \in S : x = y \/ Precedes(x, y, reverse)
  <1> DEFINE s == Listing(S, reverse)
  <1>1. s \in Seq(Key) /\ ToSet(s) = S /\ Sorted(s, reverse)
    BY ListingLists
  <1> HIDE DEF s
  <1>2. Len(s) \in Nat /\ DOMAIN s = 1 .. Len(s)
    BY <1>1, LenProperties
  <1>3. S = {s[i] : i \in 1 .. Len(s)}
    BY <1>1, <1>2 DEF ToSet
  <1>4. 1 \in 1 .. Len(s) /\ s[1] \in S
    BY <1>2, <1>3
  <1>5. \A i \in 1 .. Len(s) : i = 1 \/ Precedes(s[1], s[i], reverse)
    BY <1>1, <1>2, <1>4 DEF Sorted
  <1>6. ASSUME NEW y \in S PROVE s[1] = y \/ Precedes(s[1], y, reverse)
    <2>1. PICK i \in 1 .. Len(s) : y = s[i]
      BY <1>3
    <2> QED BY <1>5, <2>1
  <1> QED BY <1>4, <1>6

\* What is in order holds nothing twice.
LEMMA SortedIsInjective ==
    ASSUME NEW s \in Seq(Key), NEW reverse \in BOOLEAN, Sorted(s, reverse)
    PROVE  IsInjective(s)
  <1> SUFFICES ASSUME NEW i \in DOMAIN s, NEW j \in DOMAIN s, s[i] = s[j] PROVE i = j
    BY DEF IsInjective
  <1>1. Len(s) \in Nat /\ DOMAIN s = 1 .. Len(s) /\ s[i] \in Key
    BY LenProperties
  <1>2. s[i] \in Nat /\ i \in Nat /\ j \in Nat
    BY <1>1, ReadsAssumption DEF Key
  <1>3. ~Precedes(s[i], s[j], reverse) /\ ~Precedes(s[j], s[i], reverse)
    BY <1>2 DEF Precedes
  <1> QED BY <1>2, <1>3 DEF Sorted
-----------------------------------------------------------------------------
(* Scans and walks *)

\* Until the client has its answer.
Going == {"idle", "asking", "walking"}

\* What the pages of a scan have not come to.
Ahead(k) == cursor = None \/ Precedes(cursor.k, k, ask.reverse)

\* The pages so far are in order and of what is behind the cursor, and what is
\* there throughout was given or lies ahead.
ScanInv ==
    ask.task = "scan" =>
        /\ sure \subseteq {k \in acked : ask.lo <= k /\ k < ask.hi}
        /\ at = "idle" => cursor = None
        /\ at \in Going => \A k \in ToSet(result) : ~Ahead(k)
        /\ Sorted(result, ask.reverse)
        /\ at \in Going /\ ~tainted => \A k \in sure : k \in ToSet(result) \/ Ahead(k)
        /\ at = "whole" /\ ~tainted => sure \subseteq ToSet(result)

\* The pieces of a walk that are left are apart from each other and from what was
\* given, and what was held throughout was given or is in one.
PieceInv ==
    ask.task = "walk" =>
        /\ at \in {"idle", "asking", "whole"}
        /\ sure \subseteq store[ask.source]
        /\ at = "idle" => result = <<>> /\ sure = {} /\ pieces = {}
        /\ at = "whole" => pieces = {}
        /\ \A p \in pieces : p.from <= p.to
        /\ \A p, q \in pieces : p = q \/ p.to <= q.from \/ q.to <= p.from
        /\ \A k \in ToSet(result), p \in pieces : ~InPiece(k, p)
        /\ IsInjective(result)
        /\ \A k \in sure : k \in ToSet(result) \/ \E p \in pieces : InPiece(k, p)

\* What a task is made of.
LEMMA TaskTypes ==
    ASSUME ask \in Tasks
    PROVE  /\ ask.task = "get" => ask \in Gets
           /\ ask.task = "scan" => ask \in Scans
           /\ ask.task \notin {"get", "scan"} => ask \in Walks
           /\ ask.task = "walk" => ask \in Walks
           /\ ask.task \in {"get", "scan", "walk"}
  BY ReadsAssumption DEF Gets, Scans, Walks

\* A page: refused, or the first of what lies ahead of the cursor.
LEMMA PageGives ==
    ASSUME ReadsTypeOK, ask.task = "scan", NEW m \in Copies, Page(m)
    PROVE  \/ Answered(m, "refused") /\ UNCHANGED <<cursor, result>>
           \/ \E S \in SUBSET Key, taken \in Seq(Key) :
                /\ \A k \in S : Ahead(k)
                /\ \A k \in store[m] : ask.lo <= k /\ k < ask.hi /\ Ahead(k) => k \in S
                /\ result' = result \o taken
                /\ Sorted(taken, ask.reverse)
                /\ ToSet(taken) \subseteq S
                /\ \/ Answered(m, "whole") /\ cursor' = None /\ ToSet(taken) = S
                   \/ \E k \in S :
                        /\ Answered(m, "asking")
                        /\ cursor' = [k |-> k, s |-> instance[m]]
                        /\ \A j \in S : j \in ToSet(taken) \/ Precedes(k, j, ask.reverse)
                        /\ \A j \in ToSet(taken) : ~Precedes(k, j, ask.reverse)
  <1>1. CASE cursor # None /\ cursor.s # instance[m]
    BY <1>1 DEF Page
  <1>2. CASE ~(cursor # None /\ cursor.s # instance[m])
    <2> DEFINE lo == IF cursor # None /\ ~ask.reverse THEN After(cursor.k) ELSE ask.lo
               hi == IF cursor # None /\ ask.reverse THEN cursor.k ELSE ask.hi
               S == {k \in store[m] : lo <= k /\ k < hi}
               s == Listing(S, ask.reverse)
    <2>1. /\ ask.lo \in Nat /\ ask.hi \in Nat /\ ask.reverse \in BOOLEAN
          /\ ask.limit \in Nat \ {0}
          /\ m \in Node /\ store[m] \in SUBSET Key
          /\ Key \subseteq Nat
          /\ cursor # None => cursor.k \in Key
      <3>1. ask \in Scans
        BY TaskTypes DEF ReadsTypeOK
      <3>2. Keys \in Nat /\ Key \subseteq Nat /\ m \in Node
        BY ReadsAssumption DEF Key
      <3>3. /\ ask.lo \in Key /\ ask.hi \in 2 .. Keys + 1
            /\ ask.reverse \in BOOLEAN /\ ask.limit \in 1 .. Keys
        BY <3>1 DEF Scans
      <3>4. store[m] \in SUBSET Key /\ (cursor # None => cursor.k \in Key)
        BY <3>2 DEF ReadsTypeOK, Cursors
      <3>5. ask.lo \in Nat
        BY <3>2, <3>3
      <3>6. ask.hi \in Nat
        BY <3>2, <3>3
      <3>7. ask.limit \in Nat \ {0}
        BY <3>2, <3>3
      <3> QED BY <3>2, <3>3, <3>4, <3>5, <3>6, <3>7
    <2>r. ask.reverse \in BOOLEAN
      BY <2>1
    <2>2. S \in SUBSET Key
      BY <2>1
    <2>3. ASSUME NEW k \in S PROVE Ahead(k)
      <3>1. k \in Nat /\ lo <= k /\ k < hi
        BY <2>1
      <3>2. CASE cursor # None /\ ask.reverse
        BY <3>1, <3>2 DEF Ahead, Precedes
      <3>3. CASE cursor # None /\ ~ask.reverse
        <4>1. cursor.k \in Nat /\ cursor.k + 1 <= k
          BY <2>1, <3>1, <3>3 DEF After
        <4> QED BY <3>1, <3>3, <4>1 DEF Ahead, Precedes
      <3> QED BY <3>2, <3>3 DEF Ahead
    <2>4. ASSUME NEW k \in store[m], ask.lo <= k, k < ask.hi, Ahead(k) PROVE k \in S
      <3>1. k \in Nat
        BY <2>1
      <3>2. CASE cursor # None /\ ask.reverse
        BY <2>4, <3>2 DEF Ahead, Precedes
      <3>3. CASE cursor # None /\ ~ask.reverse
        <4>1. cursor.k \in Nat /\ cursor.k < k
          BY <2>1, <2>4, <3>3 DEF Ahead, Precedes
        <4>2. lo = cursor.k + 1 /\ hi = ask.hi
          BY <3>3 DEF After
        <4>3. lo <= k /\ k < hi
          BY <2>4, <3>1, <4>1, <4>2
        <4> QED BY <4>3
      <3>4. CASE cursor = None
        BY <2>4, <3>4
      <3> QED BY <3>2, <3>3, <3>4
    <2>5. InRange(m) = s
      BY DEF InRange
    <2>6. Len(s) \in Nat
      BY <2>1, <2>2, ListingLists, LenProperties
    <2> HIDE DEF s, S
    <2>m. \A n \in 0 .. Min({ask.limit, Len(s)}) : n \in 0 .. Len(s)
      BY <2>1, <2>6 DEF Min
    <2>7. PICK n \in 0 .. Len(s) :
            /\ n = 0 => s = <<>>
            /\ result' = result \o SubSeq(s, 1, n)
            /\ cursor' = IF n < Len(s) THEN [k |-> s[n], s |-> instance[m]] ELSE None
            /\ Answered(m, IF n < Len(s) THEN "asking" ELSE "whole")
      BY <1>2, <2>5, <2>m DEF Page
    <2> DEFINE taken == SubSeq(s, 1, n)
    <2>9. /\ taken \in Seq(Key)
          /\ Sorted(taken, ask.reverse)
          /\ ToSet(taken) \subseteq S
          /\ n = Len(s) => ToSet(taken) = S
          /\ n # 0 => /\ s[n] \in S
                      /\ \A k \in S : \/ k \in ToSet(taken)
                                      \/ Precedes(s[n], k, ask.reverse)
                      /\ \A k \in ToSet(taken) : ~Precedes(s[n], k, ask.reverse)
      BY ZenonT(60), <2>r, <2>2, FirstOfListing DEF s
    <2> HIDE DEF taken
    <2>10. CASE n < Len(s)
      <3>1. n # 0
        BY <2>6, <2>7, <2>10
      <3>2. Answered(m, "asking") /\ cursor' = [k |-> s[n], s |-> instance[m]]
        BY <2>7, <2>10
      <3> QED BY <2>2, <2>3, <2>4, <2>7, <2>9, <3>1, <3>2 DEF taken
    <2>11. CASE ~(n < Len(s))
      <3>1. n = Len(s)
        BY <2>6, <2>11
      <3>2. Answered(m, "whole") /\ cursor' = None
        BY <2>7, <2>11
      <3> QED BY <2>2, <2>3, <2>4, <2>7, <2>9, <3>1, <3>2 DEF taken
    <2> QED BY <2>10, <2>11
  <1> QED BY <1>1, <1>2

\* A file: the first of what is in a piece, which begins after it from now on or
\* was read to its end.
LEMMA FileGives ==
    ASSUME ReadsTypeOK, NEW p \in pieces, AskFile(p)
    PROVE  LET S == {k \in store[ask.source] : InPiece(k, p)}
           IN  /\ S \in SUBSET Key
               /\ \E taken \in Seq(Key) :
                    /\ result' = result \o taken
                    /\ Sorted(taken, FALSE)
                    /\ ToSet(taken) \subseteq S
                    /\ \/ pieces' = pieces \ {p} /\ ToSet(taken) = S
                       \/ \E k \in S :
                            /\ pieces' = (pieces \ {p}) \cup {[p EXCEPT !.from = k]}
                            /\ \A j \in S : j \in ToSet(taken) \/ k < j
                            /\ \A j \in ToSet(taken) : ~(k < j)
  <1> DEFINE S == {k \in store[ask.source] : InPiece(k, p)}
             s == Listing(S, FALSE)
  <1>1. ask.task = "walk" /\ ask.source \in Node
    BY TaskTypes, ReadsAssumption DEF AskFile, Walks, ReadsTypeOK
  <1>2. S \in SUBSET Key
    BY <1>1 DEF ReadsTypeOK
  <1>3. Len(s) \in Nat
    BY <1>2, ListingLists, LenProperties
  <1> HIDE DEF S
  <1>4. PICK n \in 0 .. Len(s), more \in BOOLEAN :
            /\ more => n > 0
            /\ ~more => n = Len(s)
            /\ result' = result \o SubSeq(s, 1, n)
            /\ pieces' = (pieces \ {p}) \cup
                         (IF more THEN {[p EXCEPT !.from = s[n]]} ELSE {})
    BY DEF AskFile, S
  <1> DEFINE taken == SubSeq(s, 1, n)
  <1>5. /\ taken \in Seq(Key)
        /\ Sorted(taken, FALSE)
        /\ ToSet(taken) \subseteq S
        /\ n = Len(s) => ToSet(taken) = S
        /\ n # 0 => /\ s[n] \in S
                    /\ \A k \in S : k \in ToSet(taken) \/ Precedes(s[n], k, FALSE)
                    /\ \A k \in ToSet(taken) : ~Precedes(s[n], k, FALSE)
    BY <1>2, FirstOfListing
  <1>6. result' = result \o taken
    BY <1>4
  <1> HIDE DEF taken, s
  <1>7. CASE more
    <2>1. n # 0 /\ pieces' = (pieces \ {p}) \cup {[p EXCEPT !.from = s[n]]}
      BY <1>3, <1>4, <1>7
    <2> QED BY <1>2, <1>5, <1>6, <2>1 DEF Precedes, S
  <1>8. CASE ~more
    <2>1. n = Len(s) /\ pieces' = pieces \ {p}
      BY <1>4, <1>8
    <2> QED BY <1>2, <1>5, <1>6, <2>1 DEF S
  <1> QED BY <1>7, <1>8

\* What becomes of the copies keeps the types.
LEMMA ClusterTypes ==
    ASSUME ReadsTypeOK, Cluster
    PROVE  ReadsTypeOK'
  <1> USE ReadsAssumption
  <1>1. ASSUME NEW k \in Key, NEW S \in SUBSET Copies, Write(k, S) PROVE ReadsTypeOK'
    BY <1>1 DEF Write, ReadsTypeOK, client
  <1>2. ASSUME NEW n \in Copies, NEW lost \in BOOLEAN, Die(n, lost) PROVE ReadsTypeOK'
    <2>1. store' \in [Node -> SUBSET Key] /\ up' \subseteq Node /\ tables' \subseteq Node
      BY <1>2 DEF Die, ReadsTypeOK
    <2>2. deaths' \in 0 .. MaxDeaths
      <3>1. deaths \in 0 .. MaxDeaths /\ deaths < MaxDeaths /\ deaths' = deaths + 1
        BY <1>2 DEF Die, ReadsTypeOK
      <3> QED BY <3>1
    <2>3. acked' \subseteq Key /\ sure' \subseteq Key /\ looked' \subseteq Copies
      BY <1>2 DEF Die, ReadsTypeOK
    <2>4. UNCHANGED <<short, instance, thin, ask, at, left, cursor, pieces, result, tainted>>
      BY <1>2 DEF Die
    <2> QED BY <2>1, <2>2, <2>3, <2>4 DEF ReadsTypeOK
  <1>3. ASSUME NEW n \in Copies, Starts(n)
        PROVE  up' \subseteq Node /\ instance' \in [Node -> Drawn]
    BY <1>3 DEF Starts, ReadsTypeOK
  <1>4. ASSUME NEW n \in Copies, Return(n) PROVE ReadsTypeOK'
    BY <1>3, <1>4 DEF Return, ReadsTypeOK, client
  <1>5. ASSUME NEW n \in Copies, StartEmpty(n) PROVE ReadsTypeOK'
    BY <1>3, <1>5 DEF StartEmpty, ReadsTypeOK, client
  <1>6. ASSUME NEW n \in Copies, NEW m \in Node, Named(n, m) PROVE tables' \subseteq Node
    BY <1>6 DEF Named, ReadsTypeOK
  <1>7. ASSUME NEW n \in Copies, Rebuild(n) PROVE ReadsTypeOK'
    <2>1. /\ up' \subseteq Node /\ instance' \in [Node -> Drawn]
          /\ UNCHANGED <<deaths, acked, client>>
      BY <1>3, <1>7 DEF Rebuild
    <2>2. PICK m \in Copies \cap up :
            /\ Named(n, m)
            /\ \E taken \in SUBSET store[m] :
                /\ store' = [store EXCEPT ![n] = taken]
                /\ short' = IF taken = store[m] THEN short \ {n} ELSE short \cup {n}
                /\ thin' = IF taken = store[m] /\ m \in short \cup thin
                           THEN thin \cup {n} ELSE thin \ {n}
      BY <1>7 DEF Rebuild
    <2>3. tables' \subseteq Node
      BY <1>6, <2>2
    <2>4. store' \in [Node -> SUBSET Key]
      BY <2>2 DEF ReadsTypeOK
    <2>5. short' \subseteq Copies /\ thin' \subseteq Copies \ short'
      BY <2>2 DEF ReadsTypeOK
    <2> QED BY <2>1, <2>3, <2>4, <2>5 DEF ReadsTypeOK, client
  <1>8. ASSUME NEW n \in Copies, Fill(n) PROVE ReadsTypeOK'
    <2>1. tables' \subseteq Node /\ UNCHANGED <<up, instance, deaths, acked, client>>
      BY <1>6, <1>8 DEF Fill
    <2>2. UNION {store[m] : m \in Copies} \in SUBSET Key
      BY DEF ReadsTypeOK
    <2>3. store' \in [Node -> SUBSET Key]
      BY <1>8, <2>2 DEF Fill, ReadsTypeOK
    <2>4. short' \subseteq Copies /\ thin' \subseteq Copies \ short'
      BY <1>8 DEF Fill, ReadsTypeOK
    <2> QED BY <2>1, <2>3, <2>4 DEF ReadsTypeOK, client
  <1> QED BY <1>1, <1>2, <1>4, <1>5, <1>7, <1>8 DEF Cluster

\* The keys a walk is cut up at, and the one each piece begins after.
LEMMA PieceBegins ==
    ASSUME NEW points \in SUBSET Key, NEW q \in points \cup {Keys + 1}
    PROVE  LET from == Max({0} \cup {p \in points : p < q})
           IN  /\ from \in 0 .. Keys /\ from < q
               /\ from = 0 \/ from \in points
               /\ \A p \in points : p < q => p <= from
  <1> DEFINE below == {p \in points : p < q}
             from == Max({0} \cup below)
  <1>0. Keys \in Nat /\ Key = 1 .. Keys
    BY ReadsAssumption DEF Key
  <1>q. q \in Key \/ q = Keys + 1
    OBVIOUS
  <1>1. Keys \in Nat /\ Key = 1 .. Keys /\ q \in 1 .. Keys + 1 /\ below \in SUBSET Key
    <2>1. q \in 1 .. Keys + 1
      BY <1>0, <1>q
    <2>2. below \in SUBSET Key
      OBVIOUS
    <2> QED BY <1>0, <2>1, <2>2
  <1>2. \E x \in {0} \cup below : \A y \in {0} \cup below : x >= y
    <2>1. CASE below = {}
      BY <2>1
    <2>2. CASE below # {}
      <3>1. PICK x \in below : \A y \in below : x = y \/ Precedes(x, y, TRUE)
        BY <1>1, <2>2, FirstKey
      <3>2. \A y \in {0} \cup below : x >= y
        BY <1>1, <3>1 DEF Precedes
      <3> QED BY <3>1, <3>2
    <2> QED BY <2>1, <2>2
  <1>3. from \in {0} \cup below /\ \A y \in {0} \cup below : from >= y
    BY <1>2 DEF Max
  <1> HIDE DEF from
  <1>4. from \in 0 .. Keys /\ from < q
    BY <1>1, <1>3
  <1>5. \A p \in points : p < q => p <= from
    BY <1>1, <1>3
  <1>6. from = 0 \/ from \in points
    BY <1>3
  <1> QED BY <1>4, <1>5, <1>6 DEF from

\* What the client asks and is answered keeps them.
LEMMA ClientTypes ==
    ASSUME ReadsTypeOK, Client, ask.task = "walk" => at # "walking"
    PROVE  ReadsTypeOK'
  <1> USE ReadsAssumption
  <1>0. UNCHANGED <<nodes, ask>>
    BY DEF Client, Begin, Fails, Get, Scan, Forward, Miss, PassOver, AskFile
  <1>1. SUFFICES /\ at' \in {"idle", "asking", "walking", "found", "absent", "whole",
                             "refused", "no table"}
                 /\ left' \subseteq Copies /\ looked' \subseteq Copies
                 /\ cursor' \in Cursors /\ pieces' \subseteq Piece
                 /\ result' \in Seq(Key)
                 /\ sure' \subseteq Key /\ tainted' \in BOOLEAN
    BY <1>0 DEF ReadsTypeOK, nodes
  <1>2. CASE Begin
    <2>1. /\ at' = "asking" /\ UNCHANGED <<left, looked, cursor, result, tainted>>
      BY <1>2 DEF Begin
    <2>2. sure' \subseteq Key
      <3>1. ask.task \notin {"get", "scan"} => ask.source \in Node
        BY TaskTypes DEF ReadsTypeOK, Walks
      <3>2. \/ sure' = acked \cap {ask.key}
            \/ sure' = {k \in acked : ask.lo <= k /\ k < ask.hi}
            \/ sure' = store[ask.source] /\ ask.source \in Node
        BY <1>2, <3>1 DEF Begin
      <3> QED BY <3>2 DEF ReadsTypeOK
    <2>3. pieces' \subseteq Piece
      <3>1. CASE ask.task = "walk"
        <4>1. ask.points \in SUBSET Key
          BY <3>1, TaskTypes DEF ReadsTypeOK, Walks
        <4>2. pieces' = {[from |-> Max({0} \cup {p \in ask.points : p < q}), to |-> q] :
                          q \in ask.points \cup {Keys + 1}}
          BY <1>2, <3>1 DEF Begin
        <4>3. ASSUME NEW q \in ask.points \cup {Keys + 1}
              PROVE  [from |-> Max({0} \cup {p \in ask.points : p < q}), to |-> q] \in Piece
          <5>1. Max({0} \cup {p \in ask.points : p < q}) \in 0 .. Keys
            BY <4>1, PieceBegins
          <5>2. q \in 1 .. Keys + 1
            BY <4>1 DEF Key
          <5> QED BY <5>1, <5>2 DEF Piece
        <4> QED BY <4>2, <4>3
      <3>2. CASE ask.task # "walk"
        BY <1>2, <3>2 DEF Begin
      <3> QED BY <3>1, <3>2
    <2> QED BY <2>1, <2>2, <2>3 DEF ReadsTypeOK
  <1>3. CASE Fails \/ \E m \in Node : PassOver(m)
    BY <1>3 DEF Fails, PassOver, ReadsTypeOK
  <1>4. ASSUME NEW m \in Node, Miss(m) PROVE ReadsTypeOK'
    <2>1. (tainted \/ m \in thin \/ ask.key \in store[m]) \in BOOLEAN
      OBVIOUS
    <2>2. tainted' \in BOOLEAN
      BY <1>4, <2>1 DEF Miss, ReadsTypeOK
    <2>3. /\ at' \in {at, "absent"} /\ left' \in {left, {}} /\ looked' = {}
          /\ UNCHANGED <<cursor, pieces, result, sure>>
      BY <1>4 DEF Miss
    <2> QED BY <1>0, <2>2, <2>3 DEF ReadsTypeOK, nodes
  <1>a. ASSUME NEW m \in Node,
               NEW how \in {"found", "refused", "asking", "whole", "no table"},
               Answered(m, how)
        PROVE  /\ at' = how /\ left' = {} /\ looked' = {} /\ tainted' \in BOOLEAN
    BY <1>a DEF Answered
  <1>b. ASSUME NEW m \in Copies, Look(m)
        PROVE  /\ at' \in {"found", "walking"} /\ left' \subseteq Copies
               /\ looked' \subseteq Copies /\ tainted' \in BOOLEAN
    BY <1>a, <1>b DEF Look, ReadsTypeOK
  <1>c. ASSUME NEW m \in Node, Route(m)
        PROVE  /\ at' = "walking" /\ left' \subseteq Copies
               /\ looked' \subseteq Copies /\ tainted' \in BOOLEAN
    BY <1>c DEF Route, Others, ReadsTypeOK
  <1>d. ASSUME NEW m \in Copies, ask.task = "scan", Page(m)
        PROVE  /\ at' \in {"refused", "whole", "asking"} /\ left' = {} /\ looked' = {}
               /\ cursor' \in Cursors /\ result' \in Seq(Key) /\ tainted' \in BOOLEAN
    <2>1. CASE Answered(m, "refused") /\ UNCHANGED <<cursor, result>>
      BY <1>a, <2>1 DEF ReadsTypeOK
    <2>2. ASSUME NEW S \in SUBSET Key, NEW taken \in Seq(Key), result' = result \o taken,
                 \/ Answered(m, "whole") /\ cursor' = None
                 \/ \E k \in S : /\ Answered(m, "asking")
                                 /\ cursor' = [k |-> k, s |-> instance[m]]
          PROVE  /\ at' \in {"refused", "whole", "asking"} /\ left' = {} /\ looked' = {}
                 /\ cursor' \in Cursors /\ result' \in Seq(Key) /\ tainted' \in BOOLEAN
      <3>1. result' \in Seq(Key)
        BY <2>2, ConcatProperties DEF ReadsTypeOK
      <3>2. cursor' \in Cursors
        <4>1. instance[m] \in Drawn
          BY DEF ReadsTypeOK
        <4>2. \A k \in S : [k |-> k, s |-> instance[m]] \in Cursors
          BY <4>1 DEF Cursors
        <4>3. None \in Cursors
          BY DEF Cursors
        <4> QED BY <2>2, <4>2, <4>3
      <3>3. Answered(m, "whole") \/ Answered(m, "asking")
        BY <2>2
      <3> QED BY <1>a, <3>1, <3>2, <3>3
    <2> QED BY <1>d, <2>1, <2>2, PageGives
  <1>5. ASSUME NEW m \in Node, Get(m) PROVE ReadsTypeOK'
    <2>1. \/ Answered(m, "no table")
          \/ Look(m) /\ m \in Copies
          \/ Route(m)
      BY <1>5 DEF Get
    <2>2. UNCHANGED <<cursor, pieces, result, sure>>
      BY <1>5 DEF Get
    <2> QED BY <1>0, <1>a, <1>b, <1>c, <2>1, <2>2 DEF ReadsTypeOK, nodes
  <1>6. ASSUME NEW m \in Node, Scan(m) PROVE ReadsTypeOK'
    <2>1. \/ Answered(m, "no table") /\ UNCHANGED <<cursor, result>>
          \/ Page(m) /\ m \in Copies
          \/ Route(m) /\ UNCHANGED <<cursor, result>>
      BY <1>6 DEF Scan
    <2>2. UNCHANGED <<pieces, sure>> /\ ask.task = "scan"
      BY <1>6 DEF Scan
    <2> QED BY <1>0, <1>a, <1>c, <1>d, <2>1, <2>2 DEF ReadsTypeOK, nodes
  <1>7. ASSUME NEW m \in Node, Forward(m) PROVE ReadsTypeOK'
    <2>0. ask.task \in {"get", "scan"} /\ m \in Copies
      <3>1. at = "walking" /\ m \in left
        BY <1>7 DEF Forward
      <3> QED BY <3>1, TaskTypes DEF ReadsTypeOK
    <2>1. \/ Answered(m, "no table") /\ UNCHANGED <<cursor, result>>
          \/ Look(m) /\ UNCHANGED <<cursor, result>>
          \/ Page(m) /\ ask.task = "scan"
      BY <1>7, <2>0 DEF Forward
    <2>2. UNCHANGED <<pieces, sure>>
      BY <1>7 DEF Forward
    <2> QED BY <1>0, <1>a, <1>b, <1>d, <2>0, <2>1, <2>2 DEF ReadsTypeOK, nodes
  <1>8. ASSUME NEW p \in pieces, AskFile(p) PROVE ReadsTypeOK'
    <2>1. PICK taken \in Seq(Key) :
            /\ result' = result \o taken
            /\ \/ pieces' = pieces \ {p}
               \/ \E k \in Key : pieces' = (pieces \ {p}) \cup {[p EXCEPT !.from = k]}
      BY <1>8, FileGives
    <2>2. result' \in Seq(Key)
      BY <2>1, ConcatProperties DEF ReadsTypeOK
    <2>3. pieces' \subseteq Piece
      <3>1. p \in Piece /\ Key \subseteq 0 .. Keys
        <4>1. p \in Piece
          BY DEF ReadsTypeOK
        <4>2. Key \subseteq 0 .. Keys
          BY DEF Key
        <4> QED BY <4>1, <4>2
      <3>2. \A k \in Key : [p EXCEPT !.from = k] \in Piece
        BY <3>1 DEF Piece
      <3> QED BY <2>1, <3>2 DEF ReadsTypeOK
    <2>4. at' \in {"whole", at} /\ UNCHANGED <<left, looked, cursor, sure, tainted>>
      BY <1>8 DEF AskFile
    <2> QED BY <1>0, <2>2, <2>3, <2>4 DEF ReadsTypeOK, nodes
  <1>9. CASE ReadsTypeOK'
    BY <1>9 DEF ReadsTypeOK
  <1> QED BY <1>2, <1>3, <1>4, <1>5, <1>6, <1>7, <1>8, <1>9 DEF Client

\* What becomes of the copies leaves the client's answers alone, and what it may
\* still count on where it was.
LEMMA ClusterLeaves ==
    ASSUME ReadsTypeOK, ReadsInv, ScanInv, PieceInv, Cluster
    PROVE  /\ at \in Going
           /\ UNCHANGED <<ask, at, cursor, pieces, result, tainted>>
           /\ sure' \subseteq sure
           /\ ask.task = "scan" => sure' \subseteq acked'
           /\ ask.task = "walk" => sure' \subseteq store'[ask.source]
  <1> USE ReadsAssumption
  <1>0. /\ at \in Going
        /\ ask.task = "scan" => sure \subseteq acked
        /\ ask.task = "walk" => sure \subseteq store[ask.source] /\ ask.source \in Copies
        /\ store \in [Node -> SUBSET Key] /\ Copies \subseteq Node
    <2>1. ask.task = "walk" => ask.source \in Copies
      BY TaskTypes DEF ReadsTypeOK, Walks
    <2> QED BY <2>1 DEF Cluster, Going, ScanInv, PieceInv, ReadsTypeOK
  <1>1. ASSUME NEW k \in Key, NEW S \in SUBSET Copies, Write(k, S)
        PROVE  /\ UNCHANGED <<ask, at, cursor, pieces, result, tainted, sure>>
               /\ acked \subseteq acked'
               /\ \A n \in Copies : store[n] \subseteq store'[n]
    BY <1>0, <1>1 DEF Write, client
  <1>2. ASSUME NEW n \in Copies, NEW lost \in BOOLEAN, Die(n, lost)
        PROVE  /\ UNCHANGED <<ask, at, cursor, pieces, result, tainted>>
               /\ sure' = IF ask.task = "walk" THEN sure \cap store'[ask.source]
                          ELSE sure \cap acked'
    BY <1>2 DEF Die
  <1>3. ASSUME NEW n \in Copies, Return(n) \/ StartEmpty(n)
        PROVE  UNCHANGED <<ask, at, cursor, pieces, result, tainted, sure, acked, store>>
    BY <1>3 DEF Return, StartEmpty, client
  <1>4. ASSUME NEW n \in Copies, Rebuild(n)
        PROVE  /\ UNCHANGED <<ask, at, cursor, pieces, result, tainted, sure, acked>>
               /\ \A m \in Copies : store[m] \subseteq store'[m]
    <2>1. n \notin tables /\ \E taken : store' = [store EXCEPT ![n] = taken]
      BY <1>4 DEF Rebuild
    <2>2. store[n] = {}
      BY <2>1 DEF ReadsInv, CopiesInv
    <2> QED BY <1>0, <1>4, <2>1, <2>2 DEF Rebuild, client
  <1>5. ASSUME NEW n \in Copies, Fill(n)
        PROVE  /\ UNCHANGED <<ask, at, cursor, pieces, result, tainted, sure, acked>>
               /\ \A m \in Copies : store[m] \subseteq store'[m]
    <2>1. \/ store' = store
          \/ store' = [store EXCEPT ![n] = UNION {store[m] : m \in Copies}]
      BY <1>5 DEF Fill
    <2> QED BY <1>0, <1>5, <2>1 DEF Fill, client
  <1>6. CASE \E k \in Key, S \in SUBSET Copies : Write(k, S)
    BY <1>0, <1>1, <1>6
  <1>7. CASE \E n \in Copies, lost \in BOOLEAN : Die(n, lost)
    BY <1>0, <1>2, <1>7
  <1>8. CASE \E n \in Copies : Return(n) \/ StartEmpty(n) \/ Rebuild(n) \/ Fill(n)
    BY <1>0, <1>3, <1>4, <1>5, <1>8
  <1> QED BY <1>6, <1>7, <1>8 DEF Cluster

\* A scan, through what becomes of the copies.
LEMMA ClusterScan ==
    ASSUME ReadsTypeOK, ReadsInv, ScanInv, PieceInv, Cluster
    PROVE  ScanInv' /\ PieceInv'
  <1>1. /\ at \in Going
        /\ UNCHANGED <<ask, at, cursor, pieces, result, tainted>>
        /\ sure' \subseteq sure
        /\ ask.task = "scan" => sure' \subseteq acked'
        /\ ask.task = "walk" => sure' \subseteq store'[ask.source]
    BY ClusterLeaves
  <1>2. \A k : Ahead(k)' <=> Ahead(k)
    BY <1>1 DEF Ahead
  <1>3. ScanInv'
    BY <1>1, <1>2 DEF ScanInv
  <1>4. PieceInv'
    BY <1>1 DEF PieceInv, InPiece
  <1> QED BY <1>3, <1>4

\* A page keeps a scan exact.
LEMMA PageKeeps ==
    ASSUME ReadsTypeOK, ReadsInv, ScanInv, ask.task = "scan", at \in Going,
           NEW m \in Copies, m \in up, m \notin short, Page(m),
           UNCHANGED <<ask, sure, acked>>
    PROVE  ScanInv'
  <1>0. /\ ask.reverse \in BOOLEAN /\ result \in Seq(Key) /\ Key \subseteq Nat
        /\ cursor # None => cursor.k \in Nat
        /\ tainted \in BOOLEAN
    <2>1. ask.reverse \in BOOLEAN
      BY TaskTypes DEF ReadsTypeOK, Scans
    <2>2. Key \subseteq Nat
      BY ReadsAssumption DEF Key
    <2> QED BY <2>1, <2>2 DEF ReadsTypeOK, Cursors
  <1>1. CASE Answered(m, "refused") /\ UNCHANGED <<cursor, result>>
    <2>1. at' = "refused"
      BY <1>1 DEF Answered
    <2> QED BY <1>1, <2>1 DEF ScanInv, Going
  <1>2. ASSUME NEW S \in SUBSET Key, NEW taken \in Seq(Key),
               \A k \in S : Ahead(k),
               \A k \in store[m] : ask.lo <= k /\ k < ask.hi /\ Ahead(k) => k \in S,
               result' = result \o taken,
               Sorted(taken, ask.reverse),
               ToSet(taken) \subseteq S,
               \/ Answered(m, "whole") /\ cursor' = None /\ ToSet(taken) = S
               \/ \E k \in S :
                    /\ Answered(m, "asking")
                    /\ cursor' = [k |-> k, s |-> instance[m]]
                    /\ \A j \in S : j \in ToSet(taken) \/ Precedes(k, j, ask.reverse)
                    /\ \A j \in ToSet(taken) : ~Precedes(k, j, ask.reverse)
        PROVE  ScanInv'
    <2>1. \A j \in ToSet(result) : ~Ahead(j) /\ j \in Nat
      <3>1. ToSet(result) \subseteq Key
        BY <1>0 DEF ToSet
      <3> QED BY <1>0, <3>1 DEF ScanInv
    <2>2. ASSUME NEW j \in ToSet(result), NEW k \in S PROVE Precedes(j, k, ask.reverse)
      <3>1. cursor # None /\ cursor.k \in Nat /\ k \in Nat /\ j \in Nat
        BY <1>0, <2>1 DEF Ahead
      <3>2. ~Precedes(cursor.k, j, ask.reverse) /\ Precedes(cursor.k, k, ask.reverse)
        BY <1>2, <2>1, <3>1 DEF Ahead
      <3> QED BY <3>1, <3>2 DEF Precedes
    <2>3. /\ Sorted(result', ask.reverse)
          /\ ToSet(result') = ToSet(result) \cup ToSet(taken)
      <3>1. Sorted(result, ask.reverse)
        BY DEF ScanInv
      <3>2. \A j \in ToSet(result), k \in ToSet(taken) : Precedes(j, k, ask.reverse)
        BY <1>2, <2>2
      <3> QED BY ZenonT(60), <1>0, <1>2, <3>1, <3>2, GivenMore
    <2>4. tainted' = (tainted \/ m \in thin)
      BY <1>2 DEF Answered
    <2>5. ASSUME ~tainted' PROVE \A k \in sure : k \in ToSet(result) \/ k \in S
      <3>1. ~tainted /\ acked \subseteq store[m]
        BY <2>4, <2>5 DEF ReadsInv, CopiesInv
      <3>2. \A k \in sure : k \in store[m] /\ ask.lo <= k /\ k < ask.hi
        BY <3>1 DEF ScanInv
      <3>3. \A k \in sure : k \in ToSet(result) \/ Ahead(k)
        BY <3>1 DEF ScanInv
      <3> QED BY <1>2, <3>2, <3>3
    <2>6. sure' \subseteq {k \in acked' : ask'.lo <= k /\ k < ask'.hi}
      BY DEF ScanInv
    <2>7. CASE Answered(m, "whole") /\ cursor' = None /\ ToSet(taken) = S
      <3>1. at' = "whole"
        BY <2>7 DEF Answered
      <3>2. ~tainted' => sure' \subseteq ToSet(result')
        BY <2>3, <2>5, <2>7
      <3> QED BY <2>3, <2>6, <3>1, <3>2 DEF ScanInv, Going
    <2>8. ASSUME NEW k \in S, Answered(m, "asking"),
                 cursor' = [k |-> k, s |-> instance[m]],
                 \A j \in S : j \in ToSet(taken) \/ Precedes(k, j, ask.reverse),
                 \A j \in ToSet(taken) : ~Precedes(k, j, ask.reverse)
          PROVE  ScanInv'
      <3>1. at' = "asking"
        BY <2>8 DEF Answered
      <3>2. k \in Nat /\ k # 0
        BY ReadsAssumption DEF Key
      <3>3. \A j : Ahead(j)' <=> Precedes(k, j, ask.reverse)
        <4>1. cursor' # None /\ cursor'.k = k
          BY <2>8, <3>2 DEF None
        <4> QED BY <4>1 DEF Ahead
      <3>4. \A j \in ToSet(result') : ~Precedes(k, j, ask.reverse)
        <4>1. \A j \in ToSet(result) : ~Precedes(k, j, ask.reverse)
          BY <1>0, <2>1, <2>2, <3>2 DEF Precedes
        <4> QED BY <2>3, <2>8, <4>1
      <3>5. ~tainted' => \A j \in sure : j \in ToSet(result') \/ Precedes(k, j, ask.reverse)
        BY <2>3, <2>5, <2>8
      <3> QED BY <2>3, <2>6, <3>1, <3>3, <3>4, <3>5 DEF ScanInv, Going
    <2> QED BY <1>2, <2>7, <2>8
  <1> QED BY <1>1, <1>2, PageGives

\* Whatever the client asks, and is answered, keeps a scan exact.
LEMMA ClientScan ==
    ASSUME ReadsTypeOK, ReadsInv, ScanInv, Client
    PROVE  ScanInv'
  <1>0. UNCHANGED <<ask, acked>>
    BY DEF Client, Begin, Fails, Get, Scan, Forward, Miss, PassOver, AskFile, nodes
  <1>1. SUFFICES ASSUME ask.task = "scan" PROVE ScanInv'
    BY <1>0 DEF ScanInv
  <1>2. CASE Begin
    <2>1. /\ at = "idle" /\ at' = "asking"
          /\ sure' = {k \in acked : ask.lo <= k /\ k < ask.hi}
          /\ UNCHANGED <<cursor, result, tainted>>
      BY <1>1, <1>2 DEF Begin
    <2>2. cursor = None /\ \A k : Ahead(k) /\ Ahead(k)'
      BY <1>1, <2>1 DEF ScanInv, Ahead
    <2> QED BY <1>0, <1>1, <2>1, <2>2 DEF ScanInv, Going
  \* Steps that give the client nothing.
  <1>3. ASSUME UNCHANGED <<cursor, result, sure>>, at \in Going,
               at' \in Going \cup {"absent", "found", "no table"}, at' # "idle",
               tainted => tainted'
        PROVE  ScanInv'
    <2>1. \A k : Ahead(k)' <=> Ahead(k)
      BY <1>0, <1>3 DEF Ahead
    <2> QED BY <1>0, <1>1, <1>3, <2>1 DEF ScanInv, Going
  <1>4. CASE Fails \/ \E m \in Node : PassOver(m) \/ Miss(m)
    <2>1. /\ UNCHANGED <<cursor, result, sure>> /\ at = "walking"
          /\ at' \in {"asking", "walking", "absent"} /\ (tainted => tainted')
      BY <1>4 DEF Fails, PassOver, Miss
    <2> QED BY <1>3, <2>1 DEF Going
  <1>5. ASSUME NEW m \in Node, Scan(m) PROVE ScanInv'
    <2>1. /\ \/ Answered(m, "no table") /\ UNCHANGED <<cursor, result>>
             \/ Page(m) /\ m \in Copies /\ m \in up /\ m \notin short
             \/ Route(m) /\ UNCHANGED <<cursor, result>>
          /\ UNCHANGED sure /\ at = "asking"
      BY <1>5 DEF Scan, Whole
    <2>2. CASE Page(m) /\ m \in Copies /\ m \in up /\ m \notin short
      BY <1>0, <1>1, <2>1, <2>2, PageKeeps DEF Going
    <2>3. CASE (Answered(m, "no table") \/ Route(m)) /\ UNCHANGED <<cursor, result>>
      <3>1. at' \in {"no table", "walking"} /\ (tainted => tainted')
        <4>1. Answered(m, "no table") => at' = "no table" /\ (tainted => tainted')
          BY DEF Answered
        <4>2. Route(m) => at' = "walking" /\ (tainted => tainted')
          BY DEF Route
        <4> QED BY <2>3, <4>1, <4>2
      <3> QED BY <1>3, <2>1, <2>3, <3>1 DEF Going
    <2> QED BY <2>1, <2>2, <2>3
  <1>6. ASSUME NEW m \in Node, Forward(m) PROVE ScanInv'
    <2>1. m \in Copies
      BY <1>6 DEF Forward, ReadsTypeOK
    <2>2. /\ \/ Answered(m, "no table") /\ UNCHANGED <<cursor, result>>
             \/ Page(m) /\ m \in up /\ m \notin short
          /\ UNCHANGED sure /\ at = "walking"
      BY <1>1, <1>6 DEF Forward, Whole
    <2>3. CASE Page(m) /\ m \in up /\ m \notin short
      BY <1>0, <1>1, <2>1, <2>2, <2>3, PageKeeps DEF Going
    <2>4. CASE Answered(m, "no table") /\ UNCHANGED <<cursor, result>>
      <3>1. at' = "no table" /\ (tainted => tainted')
        BY <2>4 DEF Answered
      <3> QED BY <1>3, <2>2, <2>4, <3>1 DEF Going
    <2> QED BY <2>2, <2>3, <2>4
  <1>7. ASSUME NEW m \in Node PROVE ~Get(m)
    BY <1>1 DEF Get
  <1>8. ASSUME NEW p \in pieces PROVE ~AskFile(p)
    BY <1>1 DEF AskFile
  <1> QED BY <1>2, <1>4, <1>5, <1>6, <1>7, <1>8 DEF Client

\* A walk begins with pieces that are apart and leave no key out.
LEMMA PiecesTile ==
    ASSUME NEW points \in SUBSET Key, NEW all,
           all = {[from |-> Max({0} \cup {p \in points : p < q}), to |-> q] :
                   q \in points \cup {Keys + 1}}
    PROVE  /\ \A p \in all : p.from <= p.to
           /\ \A p, q \in all : p = q \/ p.to <= q.from \/ q.to <= p.from
           /\ \A k \in Key : \E p \in all : InPiece(k, p)
  <1> DEFINE ends == points \cup {Keys + 1}
             begin(q) == Max({0} \cup {p \in points : p < q})
             piece(q) == [from |-> begin(q), to |-> q]
  <1>1. Keys \in Nat /\ Key = 1 .. Keys
    BY ReadsAssumption DEF Key
  <1>2. ASSUME NEW q \in ends
        PROVE  /\ q \in Nat /\ q <= Keys + 1 /\ begin(q) \in Nat /\ begin(q) < q
               /\ begin(q) = 0 \/ begin(q) \in points
               /\ \A p \in points : p < q => p <= begin(q)
    <2>1. q \in Key \/ q = Keys + 1
      OBVIOUS
    <2>2. q \in Nat /\ q <= Keys + 1
      BY <1>1, <2>1
    <2>3. /\ begin(q) \in 0 .. Keys /\ begin(q) < q
          /\ begin(q) = 0 \/ begin(q) \in points
          /\ \A p \in points : p < q => p <= begin(q)
      BY PieceBegins
    <2> QED BY <1>1, <2>2, <2>3
  <1> HIDE DEF begin
  <1>3. all = {piece(q) : q \in ends}
    BY DEF begin
  <1>4. \A q \in ends : piece(q).from = begin(q) /\ piece(q).to = q
    OBVIOUS
  <1> HIDE DEF piece
  <1>5. \A p \in all : p.from <= p.to
    <2> SUFFICES ASSUME NEW q \in ends PROVE piece(q).from <= piece(q).to
      BY <1>3
    <2>1. begin(q) <= q
      BY <1>2
    <2> QED BY <1>4, <2>1
  <1>6. ASSUME NEW q \in ends, NEW r \in ends, q < r PROVE q <= begin(r)
    <2>1. q \in points
      BY <1>1, <1>2, <1>6
    <2> QED BY <1>2, <1>6, <2>1
  <1>7. \A p, q \in all : p = q \/ p.to <= q.from \/ q.to <= p.from
    <2> SUFFICES ASSUME NEW q \in ends, NEW r \in ends
                 PROVE  \/ piece(q) = piece(r) \/ piece(q).to <= piece(r).from
                        \/ piece(r).to <= piece(q).from
      BY <1>3
    <2>1. q < r \/ q = r \/ r < q
      BY <1>2
    <2> QED BY <1>4, <1>6, <2>1
  <1>8. ASSUME NEW k \in Key PROVE \E p \in all : InPiece(k, p)
    <2>1. PICK q \in ends : k <= q /\ \A p \in points : k <= p => q <= p
      <3> DEFINE above == {p \in points : k <= p}
      <3>1. CASE above = {}
        <4>1. k <= Keys + 1
          BY <1>1
        <4> QED BY <3>1, <4>1
      <3>2. CASE above # {}
        <4>1. above \in SUBSET Key
          OBVIOUS
        <4>2. PICK q \in above : \A p \in above : q = p \/ Precedes(q, p, FALSE)
          BY <3>2, <4>1, FirstKey
        <4>3. \A p \in above : q <= p
          BY <1>1, <4>2 DEF Precedes
        <4> QED BY <4>2, <4>3
      <3> QED BY <3>1, <3>2
    <2>2. begin(q) < k
      <3>1. begin(q) = 0 \/ begin(q) \in points
        BY <1>2
      <3>2. begin(q) \in Nat /\ begin(q) < q /\ q \in Nat /\ k \in Nat /\ k # 0
        BY <1>1, <1>2
      <3>3. begin(q) \in points => ~(k <= begin(q))
        BY <2>1, <3>2
      <3> QED BY <3>1, <3>2, <3>3
    <2>3. InPiece(k, piece(q))
      BY <1>4, <2>1, <2>2 DEF InPiece
    <2> QED BY <1>3, <2>3
  <1> QED BY <1>5, <1>7, <1>8

\* A file keeps the walk whole.
LEMMA FileKeeps ==
    ASSUME ReadsTypeOK, PieceInv, NEW p \in pieces, AskFile(p)
    PROVE  PieceInv'
  <1> DEFINE S == {k \in store[ask.source] : InPiece(k, p)}
  <1>0. /\ ask.task = "walk" /\ at = "asking"
        /\ UNCHANGED <<ask, sure, store>>
        /\ at' = IF pieces' = {} THEN "whole" ELSE at
    BY DEF AskFile, nodes
  <1>1. PICK taken \in Seq(Key) :
          /\ result' = result \o taken
          /\ Sorted(taken, FALSE)
          /\ ToSet(taken) \subseteq S
          /\ \/ pieces' = pieces \ {p} /\ ToSet(taken) = S
             \/ \E k \in S :
                  /\ pieces' = (pieces \ {p}) \cup {[p EXCEPT !.from = k]}
                  /\ \A j \in S : j \in ToSet(taken) \/ k < j
                  /\ \A j \in ToSet(taken) : ~(k < j)
    BY FileGives
  <1>2. S \in SUBSET Key /\ \A k \in S : k \in Nat /\ p.from < k /\ k <= p.to
    <2>1. S \in SUBSET Key
      BY FileGives
    <2>2. Key \subseteq Nat
      BY ReadsAssumption DEF Key
    <2> QED BY <2>1, <2>2 DEF InPiece
  <1>3. \A q \in pieces : q \in Piece /\ q.from \in Nat /\ q.to \in Nat
    <2>1. 0 .. Keys \subseteq Nat /\ 1 .. Keys + 1 \subseteq Nat
      BY ReadsAssumption
    <2> QED BY <2>1 DEF ReadsTypeOK, Piece
  <1>4. \A k \in sure : k \in store[ask.source] /\ k \in Nat
    <2>1. sure \subseteq Key
      BY DEF ReadsTypeOK
    <2>2. Key \subseteq Nat
      BY ReadsAssumption DEF Key
    <2> QED BY <1>0, <2>1, <2>2 DEF PieceInv
  <1>5. /\ ToSet(result) \cap ToSet(taken) = {}
        /\ \A q \in pieces : q # p => \A k \in S : ~InPiece(k, q)
    <2>1. \A k \in ToSet(result) : ~InPiece(k, p)
      BY <1>0 DEF PieceInv
    <2>2. ASSUME NEW q \in pieces, q # p, NEW k \in S PROVE ~InPiece(k, q)
      <3>1. p.to <= q.from \/ q.to <= p.from
        BY <1>0, <2>2 DEF PieceInv
      <3> QED BY <1>2, <1>3, <3>1 DEF InPiece
    <2> QED BY <1>1, <2>1, <2>2
  <1>6. /\ ToSet(result') = ToSet(result) \cup ToSet(taken)
        /\ IsInjective(result')
    <2>1. result \in Seq(Key) /\ IsInjective(result)
      BY <1>0 DEF ReadsTypeOK, PieceInv
    <2>2. IsInjective(taken)
      BY <1>1, SortedIsInjective
    <2> QED BY <1>1, <1>5, <2>1, <2>2, GivenMore
  <1> HIDE DEF S
  <1>7. CASE pieces' = pieces \ {p} /\ ToSet(taken) = S
    <2>1. \A k \in ToSet(result'), q \in pieces' : ~InPiece(k, q)
      BY <1>0, <1>5, <1>6, <1>7 DEF PieceInv
    <2>2. \A k \in sure : k \in ToSet(result') \/ \E q \in pieces' : InPiece(k, q)
      <3>1. ASSUME NEW k \in sure, k \notin ToSet(result)
            PROVE  k \in S \/ \E q \in pieces \ {p} : InPiece(k, q)
        BY <1>0, <1>4, <3>1 DEF PieceInv, S
      <3> QED BY <1>6, <1>7, <3>1
    <2>3. /\ \A q \in pieces' : q.from <= q.to
          /\ \A q, r \in pieces' : q = r \/ q.to <= r.from \/ r.to <= q.from
      BY <1>0, <1>7 DEF PieceInv
    <2> QED BY <1>0, <1>6, <2>1, <2>2, <2>3 DEF PieceInv, InPiece
  <1>8. ASSUME NEW k \in S,
               pieces' = (pieces \ {p}) \cup {[p EXCEPT !.from = k]},
               \A j \in S : j \in ToSet(taken) \/ k < j,
               \A j \in ToSet(taken) : ~(k < j)
        PROVE  PieceInv'
    <2> DEFINE rest == [p EXCEPT !.from = k]
    <2>1. rest.from = k /\ rest.to = p.to /\ k \in Nat /\ p.from < k /\ k <= p.to
      BY <1>2, <1>3 DEF Piece
    <2> HIDE DEF rest
    <2>2. pieces' = (pieces \ {p}) \cup {rest}
      BY <1>8 DEF rest
    <2>3. \A q \in pieces' : q.from <= q.to
      BY <1>0, <2>1, <2>2 DEF PieceInv
    <2>4. \A q \in pieces \ {p} : q.to <= rest.from \/ rest.to <= q.from
      <3>1. \A q \in pieces \ {p} : q.to <= p.from \/ p.to <= q.from
        BY <1>0 DEF PieceInv
      <3> QED BY <1>3, <2>1, <3>1
    <2>5. \A q, r \in pieces' : q = r \/ q.to <= r.from \/ r.to <= q.from
      BY <1>0, <2>2, <2>4 DEF PieceInv
    <2>6. \A j \in ToSet(result'), q \in pieces' : ~InPiece(j, q)
      <3>1. \A j \in ToSet(result'), q \in pieces \ {p} : ~InPiece(j, q)
        BY <1>0, <1>1, <1>5, <1>6 DEF PieceInv
      <3>2. \A j \in ToSet(taken) : ~InPiece(j, rest)
        BY <1>8, <2>1 DEF InPiece
      <3>3. ASSUME NEW j \in ToSet(result) PROVE ~InPiece(j, rest)
        <4>1. j \in Nat
          <5>0. result \in Seq(Key)
            BY DEF ReadsTypeOK
          <5>1. ToSet(result) \subseteq Key
            BY <5>0 DEF ToSet
          <5>2. Key \subseteq Nat
            BY ReadsAssumption DEF Key
          <5> QED BY <5>1, <5>2
        <4>2. ~InPiece(j, p)
          BY <1>0 DEF PieceInv
        <4> QED BY <1>3, <2>1, <4>1, <4>2 DEF InPiece
      <3> QED BY <1>6, <2>2, <3>1, <3>2, <3>3
    <2>7. \A j \in sure : j \in ToSet(result') \/ \E q \in pieces' : InPiece(j, q)
      <3>1. ASSUME NEW j \in sure, j \notin ToSet(result)
            PROVE  j \in S \/ \E q \in pieces \ {p} : InPiece(j, q)
        BY <1>0, <1>4, <3>1 DEF PieceInv, S
      <3>2. ASSUME NEW j \in S, j \notin ToSet(taken) PROVE InPiece(j, rest)
        BY <1>2, <1>8, <2>1, <3>2 DEF InPiece
      <3> QED BY <1>6, <2>2, <3>1, <3>2
    <2>8. pieces' # {}
      BY <2>2
    <2> QED BY <1>0, <1>6, <2>3, <2>5, <2>6, <2>7, <2>8 DEF PieceInv, InPiece
  <1> QED BY <1>1, <1>7, <1>8

\* Whatever the client asks, and is answered, keeps a walk whole.
LEMMA ClientPieces ==
    ASSUME ReadsTypeOK, PieceInv, Client
    PROVE  PieceInv'
  <1>0. UNCHANGED <<ask, store>>
    BY DEF Client, Begin, Fails, Get, Scan, Forward, Miss, PassOver, AskFile, nodes
  <1>1. SUFFICES ASSUME ask.task = "walk" PROVE PieceInv'
    BY <1>0 DEF PieceInv
  <1>2. CASE Begin
    <2>1. /\ at = "idle" /\ at' = "asking" /\ UNCHANGED result
          /\ sure' = store[ask.source]
          /\ pieces' = {[from |-> Max({0} \cup {p \in ask.points : p < q}), to |-> q] :
                         q \in ask.points \cup {Keys + 1}}
      BY <1>1, <1>2 DEF Begin
    <2>2. ask.points \in SUBSET Key /\ store[ask.source] \subseteq Key
      <3>1. ask \in Walks
        BY <1>1, TaskTypes DEF ReadsTypeOK
      <3>2. ask.points \in SUBSET Key /\ ask.source \in Node
        BY <3>1, ReadsAssumption DEF Walks
      <3> QED BY <3>2 DEF ReadsTypeOK
    <2>3. /\ \A p \in pieces' : p.from <= p.to
          /\ \A p, q \in pieces' : p = q \/ p.to <= q.from \/ q.to <= p.from
          /\ \A k \in Key : \E p \in pieces' : InPiece(k, p)
      <3> DEFINE all == pieces'
      <3>1. all = {[from |-> Max({0} \cup {p \in ask.points : p < q}), to |-> q] :
                    q \in ask.points \cup {Keys + 1}}
        BY <2>1
      <3> HIDE DEF all
      <3>2. /\ \A p \in all : p.from <= p.to
            /\ \A p, q \in all : p = q \/ p.to <= q.from \/ q.to <= p.from
            /\ \A k \in Key : \E p \in all : InPiece(k, p)
        BY ZenonT(60), <2>2, <3>1, PiecesTile
      <3> QED BY <3>2 DEF all
    <2>4. result = <<>> /\ ToSet(result) = {} /\ IsInjective(result)
      <3>1. result = <<>>
        BY <1>1, <2>1 DEF PieceInv
      <3> QED BY <3>1 DEF ToSet, IsInjective
    <2> QED BY <1>0, <1>1, <2>1, <2>2, <2>3, <2>4 DEF PieceInv, InPiece
  <1>3. at # "walking"
    BY <1>1 DEF PieceInv
  <1>4. ASSUME NEW m \in Node
        PROVE  ~Get(m) /\ ~Scan(m) /\ ~Forward(m) /\ ~Miss(m) /\ ~PassOver(m)
    BY <1>1, <1>3 DEF Get, Scan, Forward, Miss, PassOver
  <1>5. ~Fails
    BY <1>3 DEF Fails
  <1> QED BY <1>2, <1>4, <1>5, FileKeeps DEF Client

\* The inductive invariant of the reads, the scans and the walks.
AnswersInv == ReadsTypeOK /\ ReadsInv /\ ScanInv /\ PieceInv

LEMMA AnswersBegin == ReadsInit => AnswersInv
  <1> SUFFICES ASSUME ReadsInit PROVE AnswersInv
    OBVIOUS
  <1>1. ReadsTypeOK
    <2>1. store \in [Node -> SUBSET Key] /\ acked \subseteq Key
      BY DEF ReadsInit
    <2>2. cursor \in Cursors /\ result \in Seq(Key)
      BY DEF ReadsInit, Cursors
    <2>3. deaths \in 0 .. MaxDeaths
      BY ReadsAssumption DEF ReadsInit
    <2> QED BY <2>1, <2>2, <2>3 DEF ReadsInit, ReadsTypeOK
  <1>2. ReadsInv
    BY ReadsBegins
  <1>3. result = <<>> /\ DOMAIN result = {}
    BY DEF ReadsInit
  <1>4. ToSet(result) = {} /\ IsInjective(result) /\ Sorted(result, ask.reverse)
    BY <1>3 DEF ToSet, IsInjective, Sorted
  <1>5. ScanInv
    BY <1>4 DEF ReadsInit, ScanInv, Going
  <1>6. PieceInv
    BY <1>4 DEF ReadsInit, PieceInv
  <1> QED BY <1>1, <1>2, <1>5, <1>6 DEF AnswersInv

LEMMA AnswersKeep == AnswersInv /\ [ReadsNext]_readsVars => AnswersInv'
  <1> SUFFICES ASSUME AnswersInv, [ReadsNext]_readsVars PROVE AnswersInv'
    OBVIOUS
  <1> USE DEF AnswersInv
  <1>1. ReadsInv'
    BY ReadsKeep
  <1>2. CASE Cluster
    BY <1>1, <1>2, ClusterTypes, ClusterScan
  <1>3. CASE Client
    <2>1. ask.task = "walk" => at # "walking"
      BY DEF PieceInv
    <2> QED BY <1>1, <1>3, <2>1, ClientTypes, ClientScan, ClientPieces
  <1>4. CASE UNCHANGED readsVars
    <2>1. UNCHANGED <<up, store, tables, short, instance, deaths, acked, thin, ask, at, left,
                      looked, cursor, pieces, result, sure, tainted>>
      BY <1>4 DEF readsVars, nodes, client
    <2>2. ReadsTypeOK'
      BY <2>1 DEF ReadsTypeOK
    <2>3. ScanInv'
      BY <2>1 DEF ScanInv, Ahead
    <2>4. PieceInv'
      BY <2>1 DEF PieceInv, InPiece
    <2> QED BY <1>1, <2>2, <2>3, <2>4
  <1> QED BY <1>2, <1>3, <1>4 DEF ReadsNext

LEMMA AnswersHold == ReadsSpec => []AnswersInv
  BY AnswersBegin, AnswersKeep, PTL DEF ReadsSpec

\* What is asked, what was given and what is left to read are of their types, for
\* any nodes, copies, keys and tasks: a cursor is of a key that was on a page and a
\* piece is cut off at a key of a file (router.cpp, answer_page, route_file).
THEOREM ReadsTypeCorrect == ReadsSpec => []ReadsTypeOK
  <1>1. AnswersInv => ReadsTypeOK
    BY DEF AnswersInv
  <1> QED BY <1>1, AnswersHold, PTL

\* The pages of a scan are in the order of the keys, hold none twice and, once the
\* scan has come to its end, hold every record of the range that was there
\* throughout, for any range, limit, direction and number of keys, however the
\* budget ends the pages, whichever copies give them and whatever is written, lost
\* and rebuilt between two of them (router.cpp, scan_records, answer_page;
\* rocksdb_repository.cpp, scan_records).
THEOREM ScansAreExact == ReadsSpec => []ScanIsExact
  <1>1. AnswersInv => ScanIsExact
    BY DEF AnswersInv, ScanInv, ScanIsExact, Sorted, Precedes
  <1> QED BY <1>1, AnswersHold, PTL

\* The files of a walk that read every piece to its end hold every record the node
\* held throughout, and none twice, for any points it is cut up at and in whatever
\* order the pieces are read (scan.cpp; rocksdb_repository.cpp, export_records).
THEOREM WalksCover == ReadsSpec => []PiecesCover
  <1>1. AnswersInv => PiecesCover
    BY DEF AnswersInv, PieceInv, PiecesCover
  <1> QED BY <1>1, AnswersHold, PTL
=============================================================================
