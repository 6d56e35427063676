------------------------- MODULE GuiServiceProofs -------------------------
(***************************************************************************)
(* Proofs about module GuiService, for any number of loops, iterations and *)
(* overdue removals.  None of its invariants needs the fairness of Spec.   *)
(*                                                                         *)
(* OneLoop needs to know that stop() takes the handle out of inner.task    *)
(* before it waits (Handles), and ListeningIsReachable that the only loop  *)
(* there is stays in its session for as long as the label says Listening   *)
(* (Label) and that the rule is its own for as long as its listener exists *)
(* (OwnRule): no other loop is left to take it.  StoppedIsClosed needs to  *)
(* know where the loops can be while the label says Stopped (Quiet), and   *)
(* that a pending accept ends with the session's future (Sessions).        *)
(***************************************************************************)
EXTENDS GuiService, SequenceTheorems, TLAPS

(* What inner.task, the cancel flags and the loops' places have to do with  *)
(* each other: a loop is told to end when its handle is taken, and ends for *)
(* no other reason.                                                         *)
Handles ==
    /\ waiting # 0 => task = 0 /\ cancelled[waiting]
    /\ task # 0 => pc[task] # "unborn" /\ ~cancelled[task]
    /\ \A i \in Loops : pc[i] = "unborn" => ~cancelled[i]
    /\ \A i \in Loops : pc[i] \in {"finishing", "final_close", "exit"} => cancelled[i]

(* The pump of a loop has nothing to report before its session and after it *)
(* was aborted.                                                             *)
Pumps ==
    \A i \in Loops : events[i] # << >> =>
        pc[i] \in {"session", "emit_end", "abort_pump", "finishing", "final_close"}

(* A session runs only while its loop polls it.                             *)
Sessions ==
    \A i \in Loops : sess[i] \in {"accept", "connecting", "connected"} => Polled(i)

(* An open listener has the rule, unless a removal has struck.              *)
OwnRule ==
    ~abandoned /\ ~struck => \A i \in Loops : TransportOpen(i) => rule = i

(* While the label says Listening, the loop is in its session, or has just  *)
(* left it and not yet reported the end.                                    *)
Label ==
    last_state = "Listening" /\ InnerFree /\ ~abandoned
        => task # 0 /\ pc[task] \in {"session", "emit_end"}

(* While the label says Stopped, every loop has ended or has not yet        *)
(* reported that it prepares.                                               *)
Quiet ==
    last_state = "Stopped" /\ ~abandoned =>
        \A i \in Loops : pc[i] \in {"unborn", "exit", "top", "emit_preparing"}

Inv ==
    /\ TypeOK /\ Handles /\ OneLoop /\ Pumps /\ Sessions /\ Label /\ Quiet
    /\ OwnRule

-----------------------------------------------------------------------------
(* Every step keeps the types.                                              *)
LEMMA TypeStep ==
    ASSUME TypeOK, [Next]_vars
    PROVE  TypeOK'
<1> USE DEF vars, innerVars, loopVars, lateVars, TypeOK, Loops, Points,
            SessStates, States, Reports
<1>1. CASE Stop
    BY <1>1, ServiceAssumption DEF Stop, InnerFree
<1>2. CASE StopReturns
    BY <1>2, ServiceAssumption DEF StopReturns
<1>3. CASE StopTimesOut
    BY <1>3, ServiceAssumption DEF StopTimesOut, CanOutlast
<1>4. CASE LateRemoval
    BY <1>4, ServiceAssumption DEF LateRemoval
<1>5. ASSUME NEW i \in Loops,
            Start(i) \/ LoopStep(i) \/ SessionStep(i) \/ EventPump(i)
     PROVE  TypeOK'
  <2>1. CASE Start(i)
    BY <2>1, <1>5, ServiceAssumption DEF Start, InnerFree
  <2>2. CASE Exit(i)
    BY <2>2, <1>5, ServiceAssumption DEF Exit
  <2>3. CASE Top(i)
    BY <2>3, <1>5, ServiceAssumption DEF Top, Goes
  <2>4. CASE EmitPreparing(i)
    BY <2>4, <1>5, ServiceAssumption DEF EmitPreparing, Goes, Emit, InnerFree
  <2>5. CASE BindOk(i)
    <3>1. struck' \in BOOLEAN
      BY <2>5, Zenon DEF BindOk
    <3> QED
      BY <2>5, <3>1, <1>5, ServiceAssumption DEF BindOk, Goes
  <2>6. CASE BindFails(i)
    BY <2>6, <1>5, ServiceAssumption DEF BindFails, Goes
  <2>7. CASE EmitBindError(i)
    BY <2>7, <1>5, ServiceAssumption DEF EmitBindError, Goes, Emit, InnerFree
  <2>8. CASE Backoff(i)
    BY <2>8, <1>5, ServiceAssumption DEF Backoff, Goes
  <2>9. CASE EmitListening(i)
    BY <2>9, <1>5, ServiceAssumption DEF EmitListening, Goes, Emit, InnerFree
  <2>10. CASE SessionOver(i)
    BY <2>10, <1>5, ServiceAssumption DEF SessionOver, Goes
  <2>11. CASE EmitEnd(i)
    BY <2>11, <1>5, ServiceAssumption DEF EmitEnd, Goes, Emit, InnerFree
  <2>12. CASE AbortPump(i)
    BY <2>12, <1>5, ServiceAssumption DEF AbortPump, Goes
  <2>13. CASE Close(i)
    BY <2>13, <1>5, ServiceAssumption DEF Close, CloseTransport
  <2>14. CASE CoolOff(i)
    BY <2>14, <1>5, ServiceAssumption DEF CoolOff, Goes
  <2>15. CASE CancelSession(i)
    BY <2>15, <1>5, ServiceAssumption DEF CancelSession, Goes
  <2>16. CASE DropSession(i)
    BY <2>16, <1>5, ServiceAssumption DEF DropSession, Goes
  <2>17. CASE FinalClose(i)
    BY <2>17, <1>5, ServiceAssumption DEF FinalClose, CloseTransport
  <2>18. CASE ClientConnects(i)
    BY <2>18, <1>5, ServiceAssumption DEF ClientConnects, SessionMoves, Polled
  <2>19. CASE SessionLive(i)
    BY <2>19, <1>5, ServiceAssumption DEF SessionLive, SessionMoves, Polled
  <2>20. CASE SessionFails(i)
    BY <2>20, <1>5, ServiceAssumption DEF SessionFails, SessionMoves, Polled
  <2>21. CASE SessionEnds(i)
    <3>1. CASE SessionMoves(i, "connected", "ok", << "Disconnected" >>)
      BY <3>1 DEF SessionMoves, Polled
    <3>2. CASE SessionMoves(i, "connected", "err", << "Error" >>)
      BY <3>2 DEF SessionMoves, Polled
    <3> QED
      BY <2>21, <3>1, <3>2 DEF SessionEnds
  <2>22. CASE EventPump(i)
    BY <2>22, <1>5, ServiceAssumption DEF EventPump, Emit, InnerFree
  <2> QED
    BY <1>5, <2>1, <2>2, <2>3, <2>4, <2>5, <2>6, <2>7, <2>8, <2>9, <2>10,
       <2>11, <2>12, <2>13, <2>14, <2>15, <2>16, <2>17, <2>18, <2>19, <2>20,
       <2>21, <2>22
       DEF LoopStep, SessionStep
<1>6. CASE UNCHANGED vars
    BY <1>6
<1> QED
    BY <1>1, <1>2, <1>3, <1>4, <1>5, <1>6 DEF Next

(* start and stop move the handle and the cancel flag together, the loops   *)
(* only move on; a loop leaves for good only when it was cancelled.         *)
LEMMA HandlesStep ==
    ASSUME TypeOK, Handles, OneLoop, [Next]_vars
    PROVE  (Handles /\ OneLoop)'
<1> USE DEF vars, innerVars, loopVars, lateVars, TypeOK, Handles, OneLoop,
            Alive, Loops
<1>1. CASE Stop
    <2>1. \A i \in Loops : cancelled'[i] = (cancelled[i] \/ i = task)
      BY <1>1 DEF Stop
    <2>2. waiting' = task /\ task' = 0 /\ waiting = 0 /\ pc' = pc /\ abandoned' = abandoned
      BY <1>1 DEF Stop, InnerFree
    <2>3. Handles'
      <3>1. (waiting # 0 => task = 0 /\ cancelled[waiting])'
        <4>1. task # 0 => task \in Loops
          BY ServiceAssumption
        <4>2. task # 0 => cancelled'[task]
          BY <2>1, <4>1, Zenon
        <4> QED
          BY <2>2, <4>2, Zenon
      <3>2. (task # 0 => pc[task] # "unborn" /\ ~cancelled[task])'
        BY <2>2
      <3>3. (\A i \in Loops : pc[i] = "unborn" => ~cancelled[i])'
        BY <2>1, <2>2
      <3>4. (\A i \in Loops :
               pc[i] \in {"finishing", "final_close", "exit"} => cancelled[i])'
        BY <2>1, <2>2
      <3> QED
        BY <3>1, <3>2, <3>3, <3>4
    <2>4. OneLoop'
      BY <2>1, <2>2
    <2> QED
      BY <2>3, <2>4
<1>2. CASE StopReturns
    BY <1>2, ServiceAssumption DEF StopReturns
<1>3. CASE StopTimesOut
    BY <1>3, ServiceAssumption DEF StopTimesOut, CanOutlast
<1>4. CASE LateRemoval
    BY <1>4, ServiceAssumption DEF LateRemoval
<1>5. ASSUME NEW i \in Loops,
            Start(i) \/ LoopStep(i) \/ SessionStep(i) \/ EventPump(i)
     PROVE  (Handles /\ OneLoop)'
  <2>1. CASE Start(i)
    BY <2>1, <1>5, ServiceAssumption DEF Start, InnerFree
  <2>2. CASE Exit(i)
    BY <2>2, <1>5, ServiceAssumption DEF Exit
  <2>3. CASE Top(i)
    BY <2>3, <1>5, ServiceAssumption DEF Top, Goes
  <2>4. CASE EmitPreparing(i)
    BY <2>4, <1>5, ServiceAssumption DEF EmitPreparing, Goes, Emit, InnerFree
  <2>5. CASE BindOk(i)
    BY <2>5, <1>5, ServiceAssumption DEF BindOk, Goes
  <2>6. CASE BindFails(i)
    BY <2>6, <1>5, ServiceAssumption DEF BindFails, Goes
  <2>7. CASE EmitBindError(i)
    BY <2>7, <1>5, ServiceAssumption DEF EmitBindError, Goes, Emit, InnerFree
  <2>8. CASE Backoff(i)
    BY <2>8, <1>5, ServiceAssumption DEF Backoff, Goes
  <2>9. CASE EmitListening(i)
    <3>1. /\ pc[i] = "emit_listening" /\ pc' = [pc EXCEPT ![i] = "session"]
          /\ UNCHANGED << task, waiting, cancelled, abandoned >>
      BY <2>9 DEF EmitListening, Goes
    <3>2. Handles'
      BY <3>1
    <3>3. OneLoop'
      BY <3>1
    <3> QED
      BY <3>2, <3>3
  <2>10. CASE SessionOver(i)
    BY <2>10, <1>5, ServiceAssumption DEF SessionOver, Goes
  <2>11. CASE EmitEnd(i)
    BY <2>11, <1>5, ServiceAssumption DEF EmitEnd, Goes, Emit, InnerFree
  <2>12. CASE AbortPump(i)
    BY <2>12, <1>5, ServiceAssumption DEF AbortPump, Goes
  <2>13. CASE Close(i)
    BY <2>13, <1>5, ServiceAssumption DEF Close, CloseTransport
  <2>14. CASE CoolOff(i)
    BY <2>14, <1>5, ServiceAssumption DEF CoolOff, Goes
  <2>15. CASE CancelSession(i)
    BY <2>15, <1>5, ServiceAssumption DEF CancelSession, Goes
  <2>16. CASE DropSession(i)
    BY <2>16, <1>5, ServiceAssumption DEF DropSession, Goes
  <2>17. CASE FinalClose(i)
    BY <2>17, <1>5, ServiceAssumption DEF FinalClose, CloseTransport
  <2>18. CASE ClientConnects(i)
    BY <2>18, <1>5, ServiceAssumption DEF ClientConnects, SessionMoves, Polled
  <2>19. CASE SessionLive(i)
    BY <2>19, <1>5, ServiceAssumption DEF SessionLive, SessionMoves, Polled
  <2>20. CASE SessionFails(i)
    BY <2>20, <1>5, ServiceAssumption DEF SessionFails, SessionMoves, Polled
  <2>21. CASE SessionEnds(i)
    BY <2>21, <1>5, ServiceAssumption DEF SessionEnds, SessionMoves, Polled
  <2>22. CASE EventPump(i)
    BY <2>22, <1>5, ServiceAssumption DEF EventPump, Emit, InnerFree
  <2> QED
    BY <1>5, <2>1, <2>2, <2>3, <2>4, <2>5, <2>6, <2>7, <2>8, <2>9, <2>10,
       <2>11, <2>12, <2>13, <2>14, <2>15, <2>16, <2>17, <2>18, <2>19, <2>20,
       <2>21, <2>22
       DEF LoopStep, SessionStep
<1>6. CASE UNCHANGED vars
    BY <1>6
<1> QED
    BY <1>1, <1>2, <1>3, <1>4, <1>5, <1>6 DEF Next

(* Reports are added by a polled session and gone when the pump is aborted. *)
LEMMA PumpsStep ==
    ASSUME TypeOK, Pumps, [Next]_vars
    PROVE  Pumps'
<1> USE DEF vars, innerVars, loopVars, lateVars, TypeOK, Pumps
<1>1. CASE Stop
    BY <1>1, ServiceAssumption DEF Stop, InnerFree
<1>2. CASE StopReturns
    BY <1>2, ServiceAssumption DEF StopReturns
<1>3. CASE StopTimesOut
    BY <1>3, ServiceAssumption DEF StopTimesOut, CanOutlast
<1>4. CASE LateRemoval
    BY <1>4, ServiceAssumption DEF LateRemoval
<1>5. ASSUME NEW i \in Loops,
            Start(i) \/ LoopStep(i) \/ SessionStep(i) \/ EventPump(i)
     PROVE  Pumps'
  <2>1. CASE Start(i)
    BY <2>1, <1>5, ServiceAssumption DEF Start, InnerFree
  <2>2. CASE Exit(i)
    BY <2>2, <1>5, ServiceAssumption DEF Exit
  <2>3. CASE Top(i)
    BY <2>3, <1>5, ServiceAssumption DEF Top, Goes
  <2>4. CASE EmitPreparing(i)
    BY <2>4, <1>5, ServiceAssumption DEF EmitPreparing, Goes, Emit, InnerFree
  <2>5. CASE BindOk(i)
    BY <2>5, <1>5, ServiceAssumption DEF BindOk, Goes
  <2>6. CASE BindFails(i)
    BY <2>6, <1>5, ServiceAssumption DEF BindFails, Goes
  <2>7. CASE EmitBindError(i)
    BY <2>7, <1>5, ServiceAssumption DEF EmitBindError, Goes, Emit, InnerFree
  <2>8. CASE Backoff(i)
    BY <2>8, <1>5, ServiceAssumption DEF Backoff, Goes
  <2>9. CASE EmitListening(i)
    BY <2>9, <1>5, ServiceAssumption DEF EmitListening, Goes, Emit, InnerFree
  <2>10. CASE SessionOver(i)
    BY <2>10, <1>5, ServiceAssumption DEF SessionOver, Goes
  <2>11. CASE EmitEnd(i)
    BY <2>11, <1>5, ServiceAssumption DEF EmitEnd, Goes, Emit, InnerFree
  <2>12. CASE AbortPump(i)
    BY <2>12, <1>5, ServiceAssumption DEF AbortPump, Goes
  <2>13. CASE Close(i)
    BY <2>13, <1>5, ServiceAssumption DEF Close, CloseTransport
  <2>14. CASE CoolOff(i)
    BY <2>14, <1>5, ServiceAssumption DEF CoolOff, Goes
  <2>15. CASE CancelSession(i)
    BY <2>15, <1>5, ServiceAssumption DEF CancelSession, Goes
  <2>16. CASE DropSession(i)
    BY <2>16, <1>5, ServiceAssumption DEF DropSession, Goes
  <2>17. CASE FinalClose(i)
    BY <2>17, <1>5, ServiceAssumption DEF FinalClose, CloseTransport
  <2>18. CASE ClientConnects(i)
    BY <2>18, <1>5, ServiceAssumption DEF ClientConnects, SessionMoves, Polled
  <2>19. CASE SessionLive(i)
    BY <2>19, <1>5, ServiceAssumption DEF SessionLive, SessionMoves, Polled
  <2>20. CASE SessionFails(i)
    BY <2>20, <1>5, ServiceAssumption DEF SessionFails, SessionMoves, Polled
  <2>21. CASE SessionEnds(i)
    BY <2>21, <1>5, ServiceAssumption DEF SessionEnds, SessionMoves, Polled
  <2>22. CASE EventPump(i)
    BY <2>22, <1>5, ServiceAssumption DEF EventPump, Emit, InnerFree
  <2> QED
    BY <1>5, <2>1, <2>2, <2>3, <2>4, <2>5, <2>6, <2>7, <2>8, <2>9, <2>10,
       <2>11, <2>12, <2>13, <2>14, <2>15, <2>16, <2>17, <2>18, <2>19, <2>20,
       <2>21, <2>22
       DEF LoopStep, SessionStep
<1>6. CASE UNCHANGED vars
    BY <1>6
<1> QED
    BY <1>1, <1>2, <1>3, <1>4, <1>5, <1>6 DEF Next

(* A session starts when its loop starts to poll it, and before the loop    *)
(* goes on it has ended or its future is dropped.                           *)
LEMMA SessionsStep ==
    ASSUME TypeOK, Sessions, [Next]_vars
    PROVE  Sessions'
<1> USE DEF vars, innerVars, loopVars, lateVars, TypeOK, Sessions, Polled, Loops
<1>1. CASE Stop
    BY <1>1, ServiceAssumption DEF Stop, InnerFree
<1>2. CASE StopReturns
    BY <1>2, ServiceAssumption DEF StopReturns
<1>3. CASE StopTimesOut
    BY <1>3, ServiceAssumption DEF StopTimesOut, CanOutlast
<1>4. CASE LateRemoval
    BY <1>4, ServiceAssumption DEF LateRemoval
<1>5. ASSUME NEW i \in Loops,
            Start(i) \/ LoopStep(i) \/ SessionStep(i) \/ EventPump(i)
     PROVE  Sessions'
  <2>1. CASE Start(i)
    BY <2>1, <1>5, ServiceAssumption DEF Start, InnerFree
  <2>2. CASE Exit(i)
    BY <2>2, <1>5, ServiceAssumption DEF Exit
  <2>3. CASE Top(i)
    BY <2>3, <1>5, ServiceAssumption DEF Top, Goes
  <2>4. CASE EmitPreparing(i)
    BY <2>4, <1>5, ServiceAssumption DEF EmitPreparing, Goes, Emit, InnerFree
  <2>5. CASE BindOk(i)
    BY <2>5, <1>5, ServiceAssumption DEF BindOk, Goes
  <2>6. CASE BindFails(i)
    BY <2>6, <1>5, ServiceAssumption DEF BindFails, Goes
  <2>7. CASE EmitBindError(i)
    BY <2>7, <1>5, ServiceAssumption DEF EmitBindError, Goes, Emit, InnerFree
  <2>8. CASE Backoff(i)
    BY <2>8, <1>5, ServiceAssumption DEF Backoff, Goes
  <2>9. CASE EmitListening(i)
    BY <2>9, <1>5, ServiceAssumption DEF EmitListening, Goes, Emit, InnerFree
  <2>10. CASE SessionOver(i)
    BY <2>10, <1>5, ServiceAssumption DEF SessionOver, Goes
  <2>11. CASE EmitEnd(i)
    BY <2>11, <1>5, ServiceAssumption DEF EmitEnd, Goes, Emit, InnerFree
  <2>12. CASE AbortPump(i)
    BY <2>12, <1>5, ServiceAssumption DEF AbortPump, Goes
  <2>13. CASE Close(i)
    BY <2>13, <1>5, ServiceAssumption DEF Close, CloseTransport
  <2>14. CASE CoolOff(i)
    BY <2>14, <1>5, ServiceAssumption DEF CoolOff, Goes
  <2>15. CASE CancelSession(i)
    BY <2>15, <1>5, ServiceAssumption DEF CancelSession, Goes
  <2>16. CASE DropSession(i)
    BY <2>16, <1>5, ServiceAssumption DEF DropSession, Goes
  <2>17. CASE FinalClose(i)
    BY <2>17, <1>5, ServiceAssumption DEF FinalClose, CloseTransport
  <2>18. CASE ClientConnects(i)
    BY <2>18, <1>5, ServiceAssumption DEF ClientConnects, SessionMoves, Polled
  <2>19. CASE SessionLive(i)
    BY <2>19, <1>5, ServiceAssumption DEF SessionLive, SessionMoves, Polled
  <2>20. CASE SessionFails(i)
    BY <2>20, <1>5, ServiceAssumption DEF SessionFails, SessionMoves, Polled
  <2>21. CASE SessionEnds(i)
    BY <2>21, <1>5, ServiceAssumption DEF SessionEnds, SessionMoves, Polled
  <2>22. CASE EventPump(i)
    BY <2>22, <1>5, ServiceAssumption DEF EventPump, Emit, InnerFree
  <2> QED
    BY <1>5, <2>1, <2>2, <2>3, <2>4, <2>5, <2>6, <2>7, <2>8, <2>9, <2>10,
       <2>11, <2>12, <2>13, <2>14, <2>15, <2>16, <2>17, <2>18, <2>19, <2>20,
       <2>21, <2>22
       DEF LoopStep, SessionStep
<1>6. CASE UNCHANGED vars
    BY <1>6
<1> QED
    BY <1>1, <1>2, <1>3, <1>4, <1>5, <1>6 DEF Next

(* A loop reports that it prepares before it binds, and stop says Stopped   *)
(* when no loop is left.                                                    *)
LEMMA QuietStep ==
    ASSUME TypeOK, Handles, OneLoop, Pumps, Quiet, [Next]_vars
    PROVE  Quiet'
<1> USE DEF vars, innerVars, loopVars, lateVars, TypeOK, Handles, OneLoop,
            Alive, Quiet, InnerFree, Loops
<1>1. CASE Stop
    BY <1>1, ServiceAssumption DEF Stop, InnerFree
<1>2. CASE StopReturns
    BY <1>2, ServiceAssumption DEF StopReturns
<1>3. CASE StopTimesOut
    BY <1>3, ServiceAssumption DEF StopTimesOut, CanOutlast
<1>4. CASE LateRemoval
    BY <1>4, ServiceAssumption DEF LateRemoval
<1>5. ASSUME NEW i \in Loops,
            Start(i) \/ LoopStep(i) \/ SessionStep(i) \/ EventPump(i)
     PROVE  Quiet'
  <2>1. CASE Start(i)
    BY <2>1, <1>5, ServiceAssumption DEF Start, InnerFree
  <2>2. CASE Exit(i)
    BY <2>2, <1>5, ServiceAssumption DEF Exit
  <2>3. CASE Top(i)
    BY <2>3, <1>5, ServiceAssumption DEF Top, Goes
  <2>4. CASE EmitPreparing(i)
    BY <2>4, <1>5, ServiceAssumption DEF EmitPreparing, Goes, Emit, InnerFree
  <2>5. CASE BindOk(i)
    BY <2>5, <1>5, ServiceAssumption DEF BindOk, Goes
  <2>6. CASE BindFails(i)
    BY <2>6, <1>5, ServiceAssumption DEF BindFails, Goes
  <2>7. CASE EmitBindError(i)
    BY <2>7, <1>5, ServiceAssumption DEF EmitBindError, Goes, Emit, InnerFree
  <2>8. CASE Backoff(i)
    BY <2>8, <1>5, ServiceAssumption DEF Backoff, Goes
  <2>9. CASE EmitListening(i)
    BY <2>9, <1>5, ServiceAssumption DEF EmitListening, Goes, Emit, InnerFree
  <2>10. CASE SessionOver(i)
    BY <2>10, <1>5, ServiceAssumption DEF SessionOver, Goes
  <2>11. CASE EmitEnd(i)
    BY <2>11, <1>5, ServiceAssumption DEF EmitEnd, Goes, Emit, InnerFree
  <2>12. CASE AbortPump(i)
    BY <2>12, <1>5, ServiceAssumption DEF AbortPump, Goes
  <2>13. CASE Close(i)
    BY <2>13, <1>5, ServiceAssumption DEF Close, CloseTransport
  <2>14. CASE CoolOff(i)
    BY <2>14, <1>5, ServiceAssumption DEF CoolOff, Goes
  <2>15. CASE CancelSession(i)
    BY <2>15, <1>5, ServiceAssumption DEF CancelSession, Goes
  <2>16. CASE DropSession(i)
    BY <2>16, <1>5, ServiceAssumption DEF DropSession, Goes
  <2>17. CASE FinalClose(i)
    BY <2>17, <1>5, ServiceAssumption DEF FinalClose, CloseTransport
  <2>18. CASE ClientConnects(i)
    BY <2>18, <1>5, ServiceAssumption DEF ClientConnects, SessionMoves, Polled
  <2>19. CASE SessionLive(i)
    BY <2>19, <1>5, ServiceAssumption DEF SessionLive, SessionMoves, Polled
  <2>20. CASE SessionFails(i)
    BY <2>20, <1>5, ServiceAssumption DEF SessionFails, SessionMoves, Polled
  <2>21. CASE SessionEnds(i)
    BY <2>21, <1>5, ServiceAssumption DEF SessionEnds, SessionMoves, Polled
  <2>22. CASE EventPump(i)
    <3>1. Head(events[i]) \in Reports
      BY <2>22, HeadTailProperties DEF EventPump
    <3> QED
      BY <2>22, <3>1 DEF EventPump, Emit, Reports
  <2> QED
    BY <1>5, <2>1, <2>2, <2>3, <2>4, <2>5, <2>6, <2>7, <2>8, <2>9, <2>10,
       <2>11, <2>12, <2>13, <2>14, <2>15, <2>16, <2>17, <2>18, <2>19, <2>20,
       <2>21, <2>22
       DEF LoopStep, SessionStep
<1>6. CASE UNCHANGED vars
    BY <1>6
<1> QED
    BY <1>1, <1>2, <1>3, <1>4, <1>5, <1>6 DEF Next

(* bind_with_adb takes the rule from whoever has it: by OneLoop no other    *)
(* loop is left that could have an open listener.                           *)
LEMMA OwnRuleStep ==
    ASSUME TypeOK, Handles, OneLoop, Sessions, OwnRule, [Next]_vars
    PROVE  OwnRule'
<1> USE DEF vars, innerVars, loopVars, lateVars, TypeOK, Handles, OneLoop,
            Alive, TransportOpen, Sessions, Polled, OwnRule, Loops
<1>1. CASE Stop
    BY <1>1, ServiceAssumption DEF Stop, InnerFree
<1>2. CASE StopReturns
    BY <1>2, ServiceAssumption DEF StopReturns
<1>3. CASE StopTimesOut
    BY <1>3, ServiceAssumption DEF StopTimesOut, CanOutlast
<1>4. CASE LateRemoval
    BY <1>4, ServiceAssumption DEF LateRemoval
<1>5. ASSUME NEW i \in Loops,
            Start(i) \/ LoopStep(i) \/ SessionStep(i) \/ EventPump(i)
     PROVE  OwnRule'
  <2>1. CASE Start(i)
    BY <2>1, <1>5, ServiceAssumption DEF Start, InnerFree
  <2>2. CASE Exit(i)
    BY <2>2, <1>5, ServiceAssumption DEF Exit
  <2>3. CASE Top(i)
    BY <2>3, <1>5, ServiceAssumption DEF Top, Goes
  <2>4. CASE EmitPreparing(i)
    BY <2>4, <1>5, ServiceAssumption DEF EmitPreparing, Goes, Emit, InnerFree
  <2>5. CASE BindOk(i)
    <3>1. ~abandoned => \A j \in Loops : TransportOpen(j) => j = i
      BY <2>5, <1>5 DEF BindOk, Goes
    <3>2. ~TransportOpen(i)
      BY <2>5 DEF BindOk, Goes
    <3>3. \A j \in Loops \ {i} : TransportOpen(j)' = TransportOpen(j)
      BY <2>5 DEF BindOk, Goes
    <3> QED
      BY <2>5, <3>1, <3>2, <3>3 DEF BindOk, Goes
  <2>6. CASE BindFails(i)
    <3>1. ~abandoned => \A j \in Loops : TransportOpen(j) => j = i
      BY <2>6, <1>5 DEF BindFails, Goes
    <3>2. ~TransportOpen(i)
      BY <2>6 DEF BindFails, Goes
    <3>3. \A j \in Loops \ {i} : TransportOpen(j)' = TransportOpen(j)
      BY <2>6 DEF BindFails, Goes
    <3> QED
      BY <2>6, <3>1, <3>2, <3>3 DEF BindFails, Goes
  <2>7. CASE EmitBindError(i)
    BY <2>7, <1>5, ServiceAssumption DEF EmitBindError, Goes, Emit, InnerFree
  <2>8. CASE Backoff(i)
    BY <2>8, <1>5, ServiceAssumption DEF Backoff, Goes
  <2>9. CASE EmitListening(i)
    BY <2>9, <1>5, ServiceAssumption DEF EmitListening, Goes, Emit, InnerFree
  <2>10. CASE SessionOver(i)
    BY <2>10, <1>5, ServiceAssumption DEF SessionOver, Goes
  <2>11. CASE EmitEnd(i)
    BY <2>11, <1>5, ServiceAssumption DEF EmitEnd, Goes, Emit, InnerFree
  <2>12. CASE AbortPump(i)
    BY <2>12, <1>5, ServiceAssumption DEF AbortPump, Goes
  <2>13. CASE Close(i)
    BY <2>13, <1>5, ServiceAssumption DEF Close, CloseTransport
  <2>14. CASE CoolOff(i)
    BY <2>14, <1>5, ServiceAssumption DEF CoolOff, Goes
  <2>15. CASE CancelSession(i)
    BY <2>15, <1>5, ServiceAssumption DEF CancelSession, Goes
  <2>16. CASE DropSession(i)
    BY <2>16, <1>5, ServiceAssumption DEF DropSession, Goes
  <2>17. CASE FinalClose(i)
    BY <2>17, <1>5, ServiceAssumption DEF FinalClose, CloseTransport
  <2>18. CASE ClientConnects(i)
    BY <2>18, <1>5, ServiceAssumption DEF ClientConnects, SessionMoves, Polled
  <2>19. CASE SessionLive(i)
    BY <2>19, <1>5, ServiceAssumption DEF SessionLive, SessionMoves, Polled
  <2>20. CASE SessionFails(i)
    BY <2>20, <1>5, ServiceAssumption DEF SessionFails, SessionMoves, Polled
  <2>21. CASE SessionEnds(i)
    BY <2>21, <1>5, ServiceAssumption DEF SessionEnds, SessionMoves, Polled
  <2>22. CASE EventPump(i)
    BY <2>22, <1>5, ServiceAssumption DEF EventPump, Emit, InnerFree
  <2> QED
    BY <1>5, <2>1, <2>2, <2>3, <2>4, <2>5, <2>6, <2>7, <2>8, <2>9, <2>10,
       <2>11, <2>12, <2>13, <2>14, <2>15, <2>16, <2>17, <2>18, <2>19, <2>20,
       <2>21, <2>22
       DEF LoopStep, SessionStep
<1>6. CASE UNCHANGED vars
    BY <1>6
<1> QED
    BY <1>1, <1>2, <1>3, <1>4, <1>5, <1>6 DEF Next

(* The label changes to Listening on the way into the session, and to       *)
(* something else before the loop leaves it; the pump never says Listening. *)
LEMMA LabelStep ==
    ASSUME TypeOK, Handles, OneLoop, Pumps, Label, [Next]_vars
    PROVE  Label'
<1> USE DEF vars, innerVars, loopVars, lateVars, TypeOK, Handles, OneLoop,
            Alive, Pumps, Label, InnerFree, Loops
<1>1. CASE Stop
    BY <1>1, ServiceAssumption DEF Stop, InnerFree
<1>2. CASE StopReturns
    BY <1>2, ServiceAssumption DEF StopReturns
<1>3. CASE StopTimesOut
    BY <1>3, ServiceAssumption DEF StopTimesOut, CanOutlast
<1>4. CASE LateRemoval
    BY <1>4, ServiceAssumption DEF LateRemoval
<1>5. ASSUME NEW i \in Loops,
            Start(i) \/ LoopStep(i) \/ SessionStep(i) \/ EventPump(i)
     PROVE  Label'
  <2>1. CASE Start(i)
    BY <2>1, <1>5, ServiceAssumption DEF Start, InnerFree
  <2>2. CASE Exit(i)
    BY <2>2, <1>5, ServiceAssumption DEF Exit
  <2>3. CASE Top(i)
    BY <2>3, <1>5, ServiceAssumption DEF Top, Goes
  <2>4. CASE EmitPreparing(i)
    BY <2>4, <1>5, ServiceAssumption DEF EmitPreparing, Goes, Emit, InnerFree
  <2>5. CASE BindOk(i)
    BY <2>5, <1>5, ServiceAssumption DEF BindOk, Goes
  <2>6. CASE BindFails(i)
    BY <2>6, <1>5, ServiceAssumption DEF BindFails, Goes
  <2>7. CASE EmitBindError(i)
    BY <2>7, <1>5, ServiceAssumption DEF EmitBindError, Goes, Emit, InnerFree
  <2>8. CASE Backoff(i)
    BY <2>8, <1>5, ServiceAssumption DEF Backoff, Goes
  <2>9. CASE EmitListening(i)
    BY <2>9, <1>5, ServiceAssumption DEF EmitListening, Goes, Emit, InnerFree
  <2>10. CASE SessionOver(i)
    BY <2>10, <1>5, ServiceAssumption DEF SessionOver, Goes
  <2>11. CASE EmitEnd(i)
    BY <2>11, <1>5, ServiceAssumption DEF EmitEnd, Goes, Emit, InnerFree
  <2>12. CASE AbortPump(i)
    BY <2>12, <1>5, ServiceAssumption DEF AbortPump, Goes
  <2>13. CASE Close(i)
    BY <2>13, <1>5, ServiceAssumption DEF Close, CloseTransport
  <2>14. CASE CoolOff(i)
    BY <2>14, <1>5, ServiceAssumption DEF CoolOff, Goes
  <2>15. CASE CancelSession(i)
    BY <2>15, <1>5, ServiceAssumption DEF CancelSession, Goes
  <2>16. CASE DropSession(i)
    BY <2>16, <1>5, ServiceAssumption DEF DropSession, Goes
  <2>17. CASE FinalClose(i)
    BY <2>17, <1>5, ServiceAssumption DEF FinalClose, CloseTransport
  <2>18. CASE ClientConnects(i)
    BY <2>18, <1>5, ServiceAssumption DEF ClientConnects, SessionMoves, Polled
  <2>19. CASE SessionLive(i)
    BY <2>19, <1>5, ServiceAssumption DEF SessionLive, SessionMoves, Polled
  <2>20. CASE SessionFails(i)
    BY <2>20, <1>5, ServiceAssumption DEF SessionFails, SessionMoves, Polled
  <2>21. CASE SessionEnds(i)
    BY <2>21, <1>5, ServiceAssumption DEF SessionEnds, SessionMoves, Polled
  <2>22. CASE EventPump(i)
    <3>1. Head(events[i]) \in Reports
      BY <2>22, HeadTailProperties DEF EventPump
    <3> QED
      BY <2>22, <3>1 DEF EventPump, Emit, Reports
  <2> QED
    BY <1>5, <2>1, <2>2, <2>3, <2>4, <2>5, <2>6, <2>7, <2>8, <2>9, <2>10,
       <2>11, <2>12, <2>13, <2>14, <2>15, <2>16, <2>17, <2>18, <2>19, <2>20,
       <2>21, <2>22
       DEF LoopStep, SessionStep
<1>6. CASE UNCHANGED vars
    BY <1>6
<1> QED
    BY <1>1, <1>2, <1>3, <1>4, <1>5, <1>6 DEF Next

-----------------------------------------------------------------------------
LEMMA Invariance == Spec => []Inv
<1>1. Init => Inv
  <2> SUFFICES ASSUME Init PROVE Inv
    OBVIOUS
  <2>1. TypeOK
    <3>1. pc \in [Loops -> Points] /\ cancelled \in [Loops -> BOOLEAN]
      BY DEF Init, Points
    <3>2. sess \in [Loops -> SessStates] /\ events \in [Loops -> Seq(Reports)]
      BY DEF Init, SessStates
    <3>3. task \in 0 .. MaxLoops /\ waiting \in 0 .. MaxLoops /\ rule \in 0 .. MaxLoops
      BY ServiceAssumption DEF Init
    <3>4. last_state \in States /\ abandoned \in BOOLEAN /\ struck \in BOOLEAN
      BY DEF Init, States
    <3>5. late \in Nat /\ overdue \in Nat /\ binds \in Nat
      BY DEF Init
    <3> QED
      BY <3>1, <3>2, <3>3, <3>4, <3>5 DEF TypeOK
  <2>2. Handles
    BY DEF Init, Handles
  <2>3. OneLoop
    BY DEF Init, OneLoop, Alive
  <2>4. Pumps
    BY DEF Init, Pumps
  <2>5. OwnRule /\ Sessions
    BY DEF Init, OwnRule, Sessions, TransportOpen
  <2>6. Label /\ Quiet
    BY DEF Init, Label, Quiet
  <2> QED
    BY <2>1, <2>2, <2>3, <2>4, <2>5, <2>6 DEF Inv
<1>2. Inv /\ [Next]_vars => Inv'
  <2> SUFFICES ASSUME Inv, [Next]_vars PROVE Inv'
    OBVIOUS
  <2> USE DEF Inv
  <2>1. TypeOK' /\ (Handles /\ OneLoop)' /\ Pumps'
    BY TypeStep, HandlesStep, PumpsStep
  <2>2. Sessions' /\ OwnRule' /\ Label' /\ Quiet'
    BY SessionsStep, OwnRuleStep, LabelStep, QuietStep
  <2> QED
    BY <2>1, <2>2
<1> QED
  BY <1>1, <1>2, PTL DEF Spec

(* In every state of the service its variables have their types: inner.task *)
(* and the rule on the tablet name loops that exist, and the event pump     *)
(* carries session reports only.                                            *)
THEOREM TypeCorrect == Spec => []TypeOK
BY Invariance, PTL DEF Inv

(* start, stop and run_accept_loop: at most one accept loop has not been    *)
(* told to end, and inner.task is its handle; until a stop() gave up there  *)
(* is no other loop but the one it waits for.                               *)
THEOREM OneLoopHolds == Spec => []OneLoop
BY Invariance, PTL DEF Inv

(* stop: while the GUI says Stopped and no stop() has given up, no listener *)
(* and no pending accept is left, for any number of starts and stops.       *)
THEOREM StoppedHolds == Spec => []StoppedIsClosed
<1>1. Inv => StoppedIsClosed
  BY DEF Inv, StoppedIsClosed, Quiet, Sessions, Polled, TransportOpen
<1> QED
  BY <1>1, Invariance, PTL

(* emit(Listening): as long as the GUI says Listening, nobody is stopping   *)
(* the service and neither a detached loop nor, since the bind, a late      *)
(* removal has interfered, the tablet's connections reach the listener of   *)
(* inner.task, whatever rules and removals earlier iterations left behind.  *)
THEOREM ListeningHolds == Spec => []ListeningIsReachable
<1>1. Inv => ListeningIsReachable
  BY ServiceAssumption
     DEF Inv, ListeningIsReachable, Label, OwnRule, TransportOpen, TypeOK, Loops
<1> QED
  BY <1>1, Invariance, PTL

=============================================================================
