------------------------ MODULE StreamSessionProofs ------------------------
(***************************************************************************)
(* Proofs about StreamSession, for every capacity, group-of-pictures       *)
(* length, encoder depth and bound.  Inv below is the inductive invariant: *)
(* TypeNext, ControlNext, PipelineNext, AccountNext, OrderNext, KeyNext,   *)
(* IdrNext, GoodbyeNext and WaitNext each show that a step preserves one   *)
(* part of it, given the parts before it.                                  *)
(***************************************************************************)
EXTENDS StreamSession, TLAPS

-----------------------------------------------------------------------------
(* What the operations of the packet queue preserve, for every capacity and *)
(* every kind of packet.                                                    *)

(* The clamp capacity.max(1) leaves room for at least one packet.          *)
LEMMA EffectiveCapacityPositive ==
    EffectiveCapacity \in Nat /\ EffectiveCapacity >= 1
BY CapacityAssumption DEF EffectiveCapacity

(* new returns an empty, open queue.                                       *)
LEMMA NewQueueType ==
    ASSUME NEW P
    PROVE  NewQueue \in QueueOf(P)
BY DEF NewQueue, QueueOf

(* push keeps the queue a queue, whether it evicts, appends or ignores.    *)
LEMMA PushType ==
    ASSUME NEW P, NEW q \in QueueOf(P), NEW item \in P
    PROVE  Push(q, item) \in QueueOf(P)
<1> DEFINE kept == IF Len(q.deque) = EffectiveCapacity THEN Tail(q.deque)
                                                       ELSE q.deque
<1>1. q.deque \in Seq(P) /\ q.closed \in BOOLEAN /\ q.dropped_overflow \in Nat
  BY DEF QueueOf
<1>2. CASE q.closed
  BY <1>2 DEF Push
<1>3. CASE ~q.closed
  <2>1. kept \in Seq(P)
    <3>1. Len(q.deque) = EffectiveCapacity => q.deque # << >>
      BY <1>1, EffectiveCapacityPositive
    <3> QED BY <1>1, <3>1
  <2>2. Append(kept, item) \in Seq(P)
    BY <2>1
  <2>3. Push(q, item) = [deque |-> Append(kept, item), closed |-> FALSE,
            dropped_overflow |-> q.dropped_overflow +
                IF Len(q.deque) = EffectiveCapacity THEN 1 ELSE 0]
    BY <1>3 DEF Push
  <2> QED BY <1>1, <2>2, <2>3 DEF QueueOf
<1> QED BY <1>2, <1>3

(* push never grows the queue past its capacity.                           *)
LEMMA PushBounded ==
    ASSUME NEW P, NEW q \in QueueOf(P), NEW item \in P,
           Len(q.deque) <= EffectiveCapacity
    PROVE  Len(Push(q, item).deque) <= EffectiveCapacity
BY EffectiveCapacityPositive DEF Push, QueueOf

(* What a push leaves in the queue was there before or is what was pushed. *)
LEMMA PushElements ==
    ASSUME NEW P, NEW q \in QueueOf(P), NEW item \in P,
           NEW k \in DOMAIN Push(q, item).deque
    PROVE  \/ Push(q, item).deque[k] = item
           \/ \E m \in DOMAIN q.deque : Push(q, item).deque[k] = q.deque[m]
<1>1. q.deque \in Seq(P)
  BY DEF QueueOf
<1>2. CASE q.closed
  BY <1>2 DEF Push
<1>3. CASE ~q.closed /\ Len(q.deque) = EffectiveCapacity
  <2>1. q.deque # << >>
    BY <1>1, <1>3, EffectiveCapacityPositive
  <2>2. Push(q, item).deque = Append(Tail(q.deque), item)
    BY <1>3 DEF Push
  <2>3. CASE k = Len(q.deque)
    BY <1>1, <2>1, <2>2, <2>3
  <2>4. CASE k # Len(q.deque)
    <3>1. k + 1 \in DOMAIN q.deque /\ Push(q, item).deque[k] = q.deque[k + 1]
      BY <1>1, <2>1, <2>2, <2>4
    <3> QED BY <3>1
  <2> QED BY <2>3, <2>4
<1>4. CASE ~q.closed /\ Len(q.deque) # EffectiveCapacity
  <2>1. Push(q, item).deque = Append(q.deque, item)
    BY <1>4 DEF Push
  <2>2. CASE k = Len(q.deque) + 1
    BY <1>1, <2>1, <2>2
  <2>3. CASE k # Len(q.deque) + 1
    <3>1. k \in DOMAIN q.deque /\ Push(q, item).deque[k] = q.deque[k]
      BY <1>1, <2>1, <2>3
    <3> QED BY <3>1
  <2> QED BY <2>2, <2>3
<1> QED BY <1>2, <1>3, <1>4

(* A pop from a non-empty queue keeps the queue a queue.                   *)
LEMMA PopType ==
    ASSUME NEW P, NEW q \in QueueOf(P), Poppable(q)
    PROVE  PopFront(q) \in QueueOf(P) /\ Front(q) \in P
BY DEF PopFront, Front, Poppable, QueueOf

(* close only raises the flag.                                             *)
LEMMA CloseType ==
    ASSUME NEW P, NEW q \in QueueOf(P)
    PROVE  Close(q) \in QueueOf(P)
BY DEF Close, QueueOf

-----------------------------------------------------------------------------
USE DEF vars, runVars, encVars, queueVars, fpVars, tpVars, rlVars, idrVars,
        wireVars

(* Types.                                                                   *)

(* The placeholder for "no packet" is a packet.                             *)
LEMMA NoPacketType == NoPacket \in Packet
BY DEF NoPacket, Packet

(* What the encoder makes of a frame is a packet.                           *)
LEMMA EncodedType ==
    ASSUME NEW n \in Nat, NEW forced \in BOOLEAN
    PROVE  Encoded(n, forced) \in Packet
BY DEF Encoded, Packet

(* Taking a packet from the queue keeps the types of what it changes.       *)
LEMMA PoppingType ==
    TypeOK /\ Popping => /\ queue' \in QueueOf(Packet)
                         /\ popped' \in Nat
                         /\ first_pop' \in Packet
                         /\ Front(queue) \in Packet
BY PopType DEF TypeOK, Popping

(* The state Session::run starts in has the declared types.                 *)
LEMMA TypeInit == Init => TypeOK
<1> SUFFICES ASSUME Init PROVE TypeOK
  OBVIOUS
<1>1. /\ screen_off \in BOOLEAN /\ finish \in BOOLEAN /\ rl_abort \in BOOLEAN
      /\ force_idr \in BOOLEAN
      /\ stop \in BOOLEAN /\ fp_notified \in BOOLEAN /\ tp_notified \in BOOLEAN
      /\ idr_request \in BOOLEAN /\ idr_owed \in BOOLEAN /\ goodbye \in BOOLEAN
  BY Zenon DEF Init
<1>2. queue \in QueueOf(Packet) /\ first_pop \in Packet /\ fp_pkt \in Packet
  BY NewQueueType, NoPacketType DEF Init
<1> QED
  BY <1>1, <1>2 DEF Init, TypeOK, RunStates, BeforeEngine, EncStates, FpStates,
                    PumpStates, RlStates

(* Every step of every actor keeps the types.                               *)
LEMMA TypeNext == TypeOK /\ [Next]_vars => TypeOK'
<1> SUFFICES ASSUME TypeOK, [Next]_vars PROVE TypeOK'
  OBVIOUS
<1> USE DEF TypeOK, RunStates, BeforeEngine, WithEngine, Ending, EncStates,
            FpStates, FpSelecting, PumpStates, RlStates, RlEnded, RunGoes
<1>1. CASE Accept
  BY <1>1 DEF Accept
<1>2. CASE ReadHello
  BY <1>2 DEF ReadHello
<1>3. CASE EnableVdd
  BY <1>3 DEF EnableVdd
<1>4. CASE FailEarly
  BY <1>4 DEF FailEarly
<1>5. CASE StartEngine
  BY <1>5 DEF StartEngine
<1>6. CASE BuildInjector
  BY <1>6 DEF BuildInjector
<1>7. CASE WaitForKeyframe
  BY PoppingType, <1>7 DEF WaitForKeyframe
<1>8. CASE FailWithEngine
  BY CloseType, <1>8 DEF FailWithEngine, StopPipeline
<1>9. CASE Greet
  BY NoPacketType, <1>9 DEF Greet
<1>10. CASE DispatchDone
  BY <1>10 DEF DispatchDone, NotifyWaiters, AfterLive
<1>11. CASE Finish
  <2>1. rl_abort' = rl_abort \/ rl_abort' = TRUE
    BY <1>11, Zenon DEF Finish
  <2>2. rl_abort' \in BOOLEAN
    BY <2>1, Zenon
  <2>3. fp_notified' \in BOOLEAN /\ tp_notified' \in BOOLEAN
    BY <1>11 DEF Finish, NotifyWaiters
  <2>4. rl' \in RlStates /\ writer' \in {writer, "none"}
    BY <1>11 DEF Finish, DropReadLoop
  <2> QED BY <1>11, <2>2, <2>3, <2>4 DEF Finish, AfterLive
<1>12. CASE RelayIdr
  BY <1>12 DEF RelayIdr
<1>13. CASE JoinFramePump
  BY <1>13 DEF JoinFramePump
<1>14. CASE JoinTelemetryPump
  BY <1>14 DEF JoinTelemetryPump
<1>15. CASE LockForGoodbye
  BY <1>15 DEF LockForGoodbye
<1>16. CASE WriteGoodbye
  BY <1>16 DEF WriteGoodbye
<1>17. CASE StopEngine
  BY CloseType, <1>17 DEF StopEngine, StopPipeline
<1>18. CASE JoinEngine
  BY <1>18 DEF JoinEngine
<1>19. CASE ExitLoop
  BY <1>19 DEF ExitLoop
<1>20. CASE BeginTick
  <2>1. force_idr' \in BOOLEAN /\ idr_request' \in BOOLEAN
    BY <1>20, Zenon DEF BeginTick
  <2> QED BY <1>20, <2>1 DEF BeginTick
<1>21. CASE SubmitFrame
  BY EncodedType, <1>21 DEF SubmitFrame
<1>22. CASE PushPacket
  BY PushType, <1>22 DEF PushPacket
<1>23. CASE EndTick
  BY <1>23 DEF EndTick
<1>24. CASE FailTick
  BY <1>24 DEF FailTick
<1>25. CASE PumpPopped
  BY PoppingType, <1>25 DEF PumpPopped
<1>26. CASE PumpEmpty
  BY <1>26 DEF PumpEmpty
<1>27. CASE PumpPopArm
  <2>1. fp_notified' \in BOOLEAN
    BY <1>27, Zenon DEF PumpPopArm
  <2> QED BY <1>27, <2>1 DEF PumpPopArm
<1>28. CASE PumpStopArm
  BY NoPacketType, <1>28 DEF PumpStopArm
<1>29. CASE LeftPopEnds
  BY PoppingType, <1>29 DEF LeftPopEnds
<1>30. CASE PumpLock
  BY <1>30 DEF PumpLock
<1>31. CASE \E large \in BOOLEAN : PumpWrite(large)
  BY NoPacketType, <1>31 DEF PumpWrite
<1>32. CASE PumpWriteFails
  BY NoPacketType, <1>32 DEF PumpWriteFails
<1>33. CASE TelemetryTick
  <2>1. tp_notified' \in BOOLEAN
    BY <1>33, Zenon DEF TelemetryTick
  <2> QED BY <1>33, <2>1 DEF TelemetryTick
<1>34. CASE TelemetryStopArm
  BY <1>34 DEF TelemetryStopArm
<1>35. CASE TelemetryLock
  BY <1>35 DEF TelemetryLock
<1>36. CASE TelemetryWrite
  BY <1>36 DEF TelemetryWrite
<1>37. CASE ReadRequestIdr
  BY <1>37 DEF ReadRequestIdr
<1>38. CASE ReadTimeSync
  BY <1>38 DEF ReadTimeSync
<1>39. CASE ReplyLock
  BY <1>39 DEF ReplyLock
<1>40. CASE ReplyWrite
  BY <1>40 DEF ReplyWrite
<1>41. CASE \E res \in {"ok", "err"} : ReadEnds(res)
  BY <1>41 DEF ReadEnds
<1>48. CASE ReadLoopAborted
  BY <1>48 DEF ReadLoopAborted, DropReadLoop
<1>42. CASE PeriodicIdr
  BY <1>42 DEF PeriodicIdr
<1>43. CASE CallerFinish
  BY <1>43 DEF CallerFinish
<1>44. CASE CallerDrops
  <2>1. CASE screen_off \/ run \in BeforeEngine
    BY <1>44, <2>1 DEF CallerDrops
  <2>2. CASE ~(screen_off \/ run \in BeforeEngine)
    <3>1. queue' \in QueueOf(Packet) /\ stop' = TRUE /\ run' = "engine_join"
      BY <1>44, <2>2, CloseType DEF CallerDrops, StopPipeline
    <3> QED BY <1>44, <3>1 DEF CallerDrops
  <2> QED BY <2>1, <2>2
<1>45. CASE PeerStalls
  BY <1>45 DEF PeerStalls
<1>46. CASE PeerGone
  BY <1>46 DEF PeerGone
<1>47. CASE UNCHANGED vars
  BY <1>47
<1> QED
  BY <1>1, <1>2, <1>3, <1>4, <1>5, <1>6, <1>7, <1>8, <1>9, <1>10, <1>11,
     <1>12, <1>13, <1>14, <1>15, <1>16, <1>17, <1>18, <1>19, <1>20, <1>21,
     <1>22, <1>23, <1>24, <1>25, <1>26, <1>27, <1>28, <1>29, <1>30, <1>31,
     <1>32, <1>33, <1>34, <1>35, <1>36, <1>37, <1>38, <1>39, <1>40, <1>41,
     <1>42, <1>43, <1>44, <1>45, <1>46, <1>47, <1>48 DEF Next, RunTask,
     EncodeThread, FramePump, TelemetryPump, ReadLoop, Terminated

(* Session::run, its tasks and the encode thread never leave the declared   *)
(* states and types.                                                        *)
THEOREM TypeCorrect == Spec => []TypeOK
BY TypeInit, TypeNext, PTL DEF Spec

-----------------------------------------------------------------------------
(* The inductive invariant.                                                 *)

PreLive == BeforeEngine \cup WithEngine

(* Who can be running at which point of Session::run.                       *)
ControlInv ==
    /\ run \in BeforeEngine => enc = "off"
    /\ run \in {"vdd", "engine_start", "wait_for_keyframe"} => ~screen_off
    /\ screen_off => enc = "off"
    /\ run \in PreLive => fp = "off" /\ rl = "off" /\ sent = << >> /\ ~idr_owed
    /\ run \in PreLive => ~rl_abort
    /\ ReaderIsTold
    /\ EngineReaped

(* The number of the last packet that left the encoder.                     *)
Emitted == frames - Len(encoding)

(* The encoder and the queue hold consecutive packets; those of an open     *)
(* queue end with the last one that left the encoder.                       *)
PipelineInv ==
    /\ Emitted \in Nat
    /\ \A i \in DOMAIN encoding : encoding[i].seq = Emitted + i
    /\ \A i \in DOMAIN queue.deque :
           /\ queue.deque[i].seq <= Emitted - Len(queue.deque) + i
           /\ ~queue.closed => queue.deque[i].seq = Emitted - Len(queue.deque) + i
    /\ \A i, j \in DOMAIN queue.deque :
           queue.deque[j].seq - queue.deque[i].seq = j - i
    /\ Len(queue.deque) <= EffectiveCapacity

(* A packet is on its way from the queue to the client.                     *)
InFlight == (run = "greet" /\ ~screen_off) \/ fp \in {"popped", "lock", "write"}

(* What was sent, the packet in flight and the queue are in order.          *)
OrderInv ==
    /\ WireInOrder
    /\ \A i \in DOMAIN sent :
           /\ sent[i].seq <= Emitted
           /\ \A k \in DOMAIN queue.deque : sent[i].seq < queue.deque[k].seq
    /\ InFlight =>
           /\ fp_pkt.seq <= Emitted
           /\ \A i \in DOMAIN sent : sent[i].seq < fp_pkt.seq
           /\ \A k \in DOMAIN queue.deque : fp_pkt.seq < queue.deque[k].seq

(* The keyframe wait_for_keyframe found is the one the stream starts with.  *)
KeyInv ==
    /\ run = "greet" /\ ~screen_off => fp_pkt.key
    /\ fp # "off" => sent # << >>
    /\ StreamStartsWithKeyframe

(* A session succeeds only after it was live, and from the goodbye on its   *)
(* client has been told or is gone.                                         *)
GoodbyeInv ==
    /\ result = "ok" => run \in Ending \cup {"done"}
    /\ result = "ok" /\ run \in {"engine_stop", "engine_join", "done"} =>
           goodbye \/ peer = "gone"

(* What Session::run waits for: the owner of the mutex is in its write, and *)
(* from StartEngine on there is a thread to join, told before it is joined. *)
WaitInv ==
    /\ WriterIsWriting
    /\ JoinedThreadIsTold
    /\ run \in PreLive => tp = "off"
    /\ run \in {"join_frame_pump", "join_telemetry_pump", "engine_stop", "engine_join"} => ~screen_off
    /\ run \notin BeforeEngine \cup {"done"} /\ ~screen_off => enc # "off"

Inv == TypeOK /\ ControlInv /\ PipelineInv /\ PacketsAccounted /\ OrderInv
       /\ KeyInv /\ IdrNotLost /\ GoodbyeInv /\ WaitInv

-----------------------------------------------------------------------------
(* Control.                                                                 *)

(* Which actor runs at which point, after every step.                       *)
LEMMA ControlNext == TypeOK /\ ControlInv /\ [Next]_vars => ControlInv'
<1> SUFFICES ASSUME TypeOK, ControlInv, [Next]_vars PROVE ControlInv'
  OBVIOUS
<1> USE DEF ControlInv, PreLive, BeforeEngine, WithEngine, Ending, RlEnded,
            EngineReaped, ReaderIsTold, EncAlive, RunGoes
<1>1. CASE RunTask
  <2>1. CASE Accept \/ ReadHello \/ EnableVdd \/ FailEarly \/ StartEngine
             \/ BuildInjector
    BY <2>1 DEF Accept, ReadHello, EnableVdd, FailEarly, StartEngine, BuildInjector
  <2>2. CASE WaitForKeyframe \/ FailWithEngine \/ Greet
    BY <2>2 DEF WaitForKeyframe, FailWithEngine, Greet
  <2>3. CASE DispatchDone \/ Finish \/ RelayIdr
    BY <2>3 DEF DispatchDone, Finish, DropReadLoop, RelayIdr, AfterLive
  <2>4. CASE JoinFramePump \/ JoinTelemetryPump \/ LockForGoodbye \/ WriteGoodbye
             \/ StopEngine \/ JoinEngine
    BY <2>4 DEF JoinFramePump, JoinTelemetryPump, LockForGoodbye, WriteGoodbye,
                StopEngine, JoinEngine
  <2> QED BY <1>1, <2>1, <2>2, <2>3, <2>4 DEF RunTask
<1>2. CASE EncodeThread
  <2>1. CASE SubmitFrame
    <3>1. ~idr_owed => ~idr_owed'
      BY <2>1, Zenon DEF SubmitFrame
    <3> QED BY <2>1, <3>1 DEF SubmitFrame
  <2>2. CASE ExitLoop \/ BeginTick \/ PushPacket \/ EndTick \/ FailTick
    BY <2>2 DEF ExitLoop, BeginTick, PushPacket, EndTick, FailTick
  <2> QED BY <1>2, <2>1, <2>2 DEF EncodeThread
<1>3. CASE FramePump
  BY <1>3 DEF FramePump, PumpPopped, PumpEmpty, PumpPopArm, PumpStopArm,
              LeftPopEnds, PumpLock, PumpWrite, PumpWriteFails, FpSelecting
<1>4. CASE TelemetryPump \/ PeriodicIdr \/ CallerFinish \/ PeerStalls \/ PeerGone
  BY <1>4 DEF TelemetryPump, TelemetryTick, TelemetryStopArm, TelemetryLock,
              TelemetryWrite, PeriodicIdr, CallerFinish, PeerStalls, PeerGone
<1>5. CASE ReadLoop
  BY <1>5 DEF ReadLoop, ReadRequestIdr, ReadTimeSync, ReplyLock, ReplyWrite,
              ReadEnds, ReadLoopAborted, DropReadLoop
<1>6. CASE CallerDrops
  BY <1>6 DEF CallerDrops, DropPoints
<1>7. CASE UNCHANGED vars
  BY <1>7
<1> QED BY <1>1, <1>2, <1>3, <1>4, <1>5, <1>6, <1>7 DEF Next, Terminated

-----------------------------------------------------------------------------
(* The encoder and the queue.                                               *)

(* A pop takes the oldest packet and leaves the encoder alone.              *)
Pops == Popping /\ UNCHANGED << frames, encoding >>

(* Stopping the pipeline closes the queue and takes nothing from it.        *)
Closes == queue' = Close(queue) /\ UNCHANGED << frames, encoding, popped >>

(* The five things a step can do to the encoder and the queue.              *)
LEMMA PipelineSteps ==
    [Next]_vars => \/ SubmitFrame
                   \/ PushPacket
                   \/ Pops
                   \/ Closes
                   \/ UNCHANGED << queue, frames, encoding, popped >>
<1> SUFFICES ASSUME [Next]_vars
             PROVE  \/ SubmitFrame \/ PushPacket \/ Pops \/ Closes
                    \/ UNCHANGED << queue, frames, encoding, popped >>
  OBVIOUS
<1> USE DEF Pops, Closes
<1>1. CASE RunTask
  <2>1. CASE WaitForKeyframe
    BY <2>1 DEF WaitForKeyframe
  <2>2. CASE FailWithEngine \/ StopEngine
    BY <2>2 DEF FailWithEngine, StopEngine, StopPipeline
  <2>3. CASE Accept \/ ReadHello \/ EnableVdd \/ FailEarly \/ StartEngine
             \/ BuildInjector \/ Greet \/ DispatchDone \/ Finish \/ RelayIdr
             \/ JoinFramePump \/ JoinTelemetryPump \/ LockForGoodbye
             \/ WriteGoodbye \/ JoinEngine
    BY <2>3 DEF Accept, ReadHello, EnableVdd, FailEarly, StartEngine, BuildInjector,
                Greet, DispatchDone, Finish, RelayIdr, JoinFramePump,
                JoinTelemetryPump, LockForGoodbye, WriteGoodbye, JoinEngine
  <2> QED BY <1>1, <2>1, <2>2, <2>3 DEF RunTask
<1>2. CASE EncodeThread
  BY <1>2 DEF EncodeThread, ExitLoop, BeginTick, EndTick, FailTick
<1>3. CASE FramePump
  BY <1>3 DEF FramePump, PumpPopped, PumpEmpty, PumpPopArm, PumpStopArm,
              LeftPopEnds, PumpLock, PumpWrite, PumpWriteFails
<1>4. CASE TelemetryPump \/ PeriodicIdr \/ CallerFinish \/ PeerStalls \/ PeerGone
  BY <1>4 DEF TelemetryPump, TelemetryTick, TelemetryStopArm, TelemetryLock,
              TelemetryWrite, PeriodicIdr, CallerFinish, PeerStalls, PeerGone
<1>5. CASE ReadLoop
  BY <1>5 DEF ReadLoop, ReadRequestIdr, ReadTimeSync, ReplyLock, ReplyWrite,
              ReadEnds, ReadLoopAborted, DropReadLoop
<1>6. CASE CallerDrops
  BY <1>6 DEF CallerDrops, StopPipeline
<1>7. CASE UNCHANGED vars
  BY <1>7
<1> QED BY <1>1, <1>2, <1>3, <1>4, <1>5, <1>6, <1>7 DEF Next, Terminated

(* Counting from one end of a queue that lost its front.                    *)
LEMMA ShiftByOne ==
    ASSUME NEW e \in Nat, NEW l \in Nat, NEW i \in Nat
    PROVE  e - l + (i + 1) = e - (l - 1) + i
OBVIOUS

(* The window of the queue moves without tearing: overflow and pop take the *)
(* oldest packet, push adds the next one.                                   *)
LEMMA PipelineNext == TypeOK /\ PipelineInv /\ [Next]_vars => PipelineInv'
<1> SUFFICES ASSUME TypeOK, PipelineInv, [Next]_vars PROVE PipelineInv'
  OBVIOUS
<1>t. /\ frames \in Nat /\ encoding \in Seq(Packet)
      /\ queue.deque \in Seq(Packet) /\ queue.closed \in BOOLEAN
      /\ force_idr \in BOOLEAN
  BY DEF TypeOK, QueueOf
<1>s. /\ \A i \in DOMAIN queue.deque : queue.deque[i].seq \in Nat
      /\ Len(queue.deque) \in Nat
  <2>1. \A i \in DOMAIN queue.deque : queue.deque[i] \in Packet
    BY <1>t
  <2>2. \A p \in Packet : p.seq \in Nat
    BY DEF Packet
  <2>3. Len(queue.deque) \in Nat
    BY <1>t
  <2> QED BY <2>1, <2>2, <2>3
<1>1. CASE SubmitFrame
  <2>1. /\ frames' = frames + 1 /\ queue' = queue
        /\ encoding' = Append(encoding, Encoded(frames, force_idr))
    BY <1>1 DEF SubmitFrame
  <2>2. Encoded(frames, force_idr).seq = frames + 1
    BY DEF Encoded
  <2>3. Encoded(frames, force_idr) \in Packet
    BY <1>t, EncodedType
  <2>4. Len(encoding') = Len(encoding) + 1 /\ Emitted' = Emitted
    BY <1>t, <2>1, <2>3 DEF Emitted
  <2>5. \A i \in DOMAIN encoding' : encoding'[i].seq = Emitted' + i
    BY <1>t, <2>1, <2>2, <2>3, <2>4 DEF PipelineInv, Emitted
  <2> QED BY <2>1, <2>4, <2>5 DEF PipelineInv
<1>2. CASE PushPacket
  <2> DEFINE item == Head(encoding)
             full == Len(queue.deque) = EffectiveCapacity
             kept == IF full THEN Tail(queue.deque) ELSE queue.deque
  <2>1. /\ encoding # << >> /\ encoding' = Tail(encoding) /\ frames' = frames
        /\ queue' = Push(queue, item)
    BY <1>2 DEF PushPacket
  <2>2. item \in Packet /\ item.seq = Emitted + 1
    BY <1>t, <2>1 DEF PipelineInv
  <2>3. Len(encoding') = Len(encoding) - 1 /\ Emitted' = Emitted + 1
    BY <1>t, <2>1 DEF Emitted
  <2>4. \A i \in DOMAIN encoding' : encoding'[i].seq = Emitted' + i
    <3>1. \A i \in DOMAIN encoding' :
              i \in Nat /\ i + 1 \in DOMAIN encoding /\ encoding'[i] = encoding[i + 1]
      BY <1>t, <2>1
    <3> QED BY <2>3, <3>1 DEF PipelineInv
  <2>5. Len(queue'.deque) <= EffectiveCapacity
    BY <2>1, <2>2, PushBounded DEF PipelineInv, TypeOK
  <2>6. CASE queue.closed
    <3>1. queue' = queue
      BY <2>1, <2>6 DEF Push
    <3>2. DOMAIN queue.deque \subseteq Nat
      BY <1>t
    <3>3. Emitted \in Nat /\ Emitted' \in Nat
      BY <2>3 DEF PipelineInv
    <3>4. \A i \in DOMAIN queue.deque :
              queue.deque[i].seq <= Emitted - Len(queue.deque) + i
      BY DEF PipelineInv
    <3>5. \A i \in DOMAIN queue.deque :
              queue.deque[i].seq <= Emitted' - Len(queue.deque) + i
      <4> HIDE DEF Emitted
      <4> QED BY <1>s, <2>3, <3>2, <3>3, <3>4
    <3>6. \A i \in DOMAIN queue'.deque :
              /\ queue'.deque[i].seq <= Emitted' - Len(queue'.deque) + i
              /\ ~queue'.closed =>
                     queue'.deque[i].seq = Emitted' - Len(queue'.deque) + i
      BY <2>6, <3>1, <3>5
    <3> QED BY <2>4, <2>5, <3>1, <3>3, <3>6 DEF PipelineInv
  <2>7. CASE ~queue.closed
    <3>1. queue'.deque = Append(kept, item) /\ queue'.closed = FALSE
      BY <2>1, <2>7 DEF Push
    <3>2. /\ kept \in Seq(Packet)
          /\ \A i \in DOMAIN kept : kept[i].seq = Emitted - Len(kept) + i
      <4>1. CASE full
        <5>1. queue.deque # << >>
          BY <4>1, <1>t, EffectiveCapacityPositive
        <5>2. \A i \in DOMAIN Tail(queue.deque) :
                  /\ i + 1 \in DOMAIN queue.deque
                  /\ Tail(queue.deque)[i] = queue.deque[i + 1]
          BY <5>1, <1>t
        <5>3. Tail(queue.deque) \in Seq(Packet)
              /\ Len(Tail(queue.deque)) = Len(queue.deque) - 1
          BY <5>1, <1>t
        <5>4. Emitted \in Nat /\ \A i \in DOMAIN Tail(queue.deque) :
                  Tail(queue.deque)[i].seq = Emitted - Len(queue.deque) + (i + 1)
          BY <5>2, <2>7 DEF PipelineInv
        <5>5. kept = Tail(queue.deque)
          BY <4>1
        <5> HIDE DEF kept
        <5>6. \A i \in DOMAIN kept :
                  kept[i].seq = Emitted - Len(queue.deque) + (i + 1)
          BY <5>4, <5>5
        <5>7. DOMAIN kept \subseteq Nat /\ Len(queue.deque) \in Nat
              /\ Len(kept) = Len(queue.deque) - 1
          BY <5>3, <5>5, <1>t
        <5>8. ASSUME NEW i \in DOMAIN kept
              PROVE  kept[i].seq = Emitted - Len(kept) + i
          <6>1. i \in Nat /\ Emitted \in Nat /\ Len(queue.deque) \in Nat
            BY <5>4, <5>7, Zenon
          <6>2. kept[i].seq = Emitted - Len(queue.deque) + (i + 1)
            BY <5>6
          <6>3. Len(kept) = Len(queue.deque) - 1
            BY <5>7
          <6>4. Emitted - Len(queue.deque) + (i + 1)
                    = Emitted - (Len(queue.deque) - 1) + i
            BY <6>1, ShiftByOne, Zenon
          <6> QED BY <6>2, <6>3, <6>4, Zenon
        <5> QED BY <5>3, <5>5, <5>8
      <4>2. CASE ~full
        BY <4>2, <1>t, <2>7 DEF PipelineInv
      <4> QED BY <4>1, <4>2
    <3> HIDE DEF kept, item, full
    <3>4. Emitted \in Nat /\ Emitted' \in Nat /\ Len(kept) \in Nat
      BY <2>3, <3>2 DEF PipelineInv
    <3>a. /\ Len(queue'.deque) = Len(kept) + 1
          /\ DOMAIN queue'.deque = 1 .. Len(kept) + 1
          /\ \A i \in DOMAIN kept : queue'.deque[i] = kept[i]
          /\ queue'.deque[Len(kept) + 1] = item
          /\ DOMAIN kept = 1 .. Len(kept)
      BY <2>2, <3>1, <3>2
    <3>3. \A i \in DOMAIN queue'.deque :
              queue'.deque[i].seq = Emitted' - Len(queue'.deque) + i
      <4> TAKE i \in DOMAIN queue'.deque
      <4>1. CASE i = Len(kept) + 1
        BY <2>2, <2>3, <3>4, <3>a, <4>1
      <4>2. CASE i # Len(kept) + 1
        <5>1. i \in DOMAIN kept /\ i \in Nat
          BY <3>4, <3>a, <4>2
        <5> QED BY <2>3, <3>2, <3>4, <3>a, <5>1
      <4> QED BY <4>1, <4>2
    <3>5. \A i, j \in DOMAIN queue'.deque :
              queue'.deque[j].seq - queue'.deque[i].seq = j - i
      BY <3>3, <3>4, <3>a
    <3> QED BY <2>4, <2>5, <3>a, <3>3, <3>4, <3>5 DEF PipelineInv
  <2> QED BY <1>t, <2>6, <2>7
<1>3. CASE Pops
  <2>1. /\ queue.deque # << >> /\ queue'.deque = Tail(queue.deque)
        /\ queue'.closed = queue.closed
        /\ frames' = frames /\ encoding' = encoding
    BY <1>3 DEF Pops, Popping, Poppable, PopFront, TypeOK, QueueOf
  <2>2. Emitted' = Emitted
    BY <2>1 DEF Emitted
  <2>3. /\ Len(queue'.deque) = Len(queue.deque) - 1
        /\ \A i \in DOMAIN queue'.deque :
               /\ i + 1 \in DOMAIN queue.deque
               /\ queue'.deque[i] = queue.deque[i + 1]
    BY <1>t, <2>1
  <2>4. DOMAIN queue'.deque \subseteq Nat
    BY <1>t, <2>1
  <2>5. \A i \in DOMAIN queue'.deque :
            /\ queue'.deque[i].seq <= Emitted' - Len(queue'.deque) + i
            /\ ~queue'.closed =>
                   queue'.deque[i].seq = Emitted' - Len(queue'.deque) + i
    BY <1>s, <2>1, <2>2, <2>3, <2>4 DEF PipelineInv
  <2>6. \A i, j \in DOMAIN queue'.deque :
            queue'.deque[j].seq - queue'.deque[i].seq = j - i
    <3> TAKE i, j \in DOMAIN queue'.deque
    <3>1. i \in Nat /\ j \in Nat /\ (j + 1) - (i + 1) = j - i
      BY <2>4
    <3>2. queue.deque[j + 1].seq - queue.deque[i + 1].seq = (j + 1) - (i + 1)
      BY <2>3 DEF PipelineInv
    <3> QED BY <2>3, <3>1, <3>2
  <2>7. Len(queue'.deque) <= EffectiveCapacity
    BY <1>s, <2>3, EffectiveCapacityPositive DEF PipelineInv
  <2> QED BY <2>1, <2>2, <2>5, <2>6, <2>7 DEF PipelineInv
<1>4. CASE Closes
  <2>1. queue'.deque = queue.deque /\ queue'.closed = TRUE
    BY <1>4 DEF Closes, Close, TypeOK, QueueOf
  <2>2. Emitted' = Emitted /\ encoding' = encoding
    BY <1>4 DEF Closes, Emitted
  <2> QED BY <2>1, <2>2 DEF PipelineInv
<1>5. CASE UNCHANGED << queue, frames, encoding, popped >>
  BY <1>5 DEF PipelineInv, Emitted
<1> QED BY <1>1, <1>2, <1>3, <1>4, <1>5, PipelineSteps

(* Each step moves packets between the encoder, the queue, the session and  *)
(* the overflow counter without losing count.                               *)
LEMMA AccountNext == TypeOK /\ PacketsAccounted /\ [Next]_vars => PacketsAccounted'
<1> SUFFICES ASSUME TypeOK, PacketsAccounted, [Next]_vars PROVE PacketsAccounted'
  OBVIOUS
<1>t. /\ frames \in Nat /\ encoding \in Seq(Packet) /\ popped \in Nat
      /\ queue.deque \in Seq(Packet) /\ queue.closed \in BOOLEAN
      /\ queue.dropped_overflow \in Nat /\ force_idr \in BOOLEAN
  BY DEF TypeOK, QueueOf
<1>1. CASE SubmitFrame
  <2>1. Encoded(frames, force_idr) \in Packet
    BY <1>t, EncodedType
  <2> QED BY <1>1, <1>t, <2>1 DEF SubmitFrame, PacketsAccounted
<1>2. CASE PushPacket
  <2>1. Head(encoding) \in Packet /\ Len(encoding') = Len(encoding) - 1
        /\ frames' = frames /\ popped' = popped
    BY <1>2, <1>t DEF PushPacket
  <2>2. CASE queue.closed
    BY <1>2, <2>2 DEF PushPacket, Push, PacketsAccounted
  <2>3. CASE ~queue.closed
    <3> DEFINE full == Len(queue.deque) = EffectiveCapacity
               kept == IF full THEN Tail(queue.deque) ELSE queue.deque
    <3>1. /\ queue'.deque = Append(kept, Head(encoding))
          /\ queue'.dropped_overflow
                 = queue.dropped_overflow + IF full THEN 1 ELSE 0
      BY <1>2, <2>3 DEF PushPacket, Push
    <3>2. full => queue.deque # << >>
      BY <1>t, EffectiveCapacityPositive
    <3>3. kept \in Seq(Packet) /\ Len(kept) = Len(queue.deque) - IF full THEN 1 ELSE 0
      BY <1>t, <3>2
    <3> HIDE DEF kept
    <3>4. Len(queue'.deque) = Len(kept) + 1
      BY <2>1, <3>1, <3>3
    <3>5. Len(queue.deque) \in Nat /\ Len(encoding) \in Nat
      BY <1>t
    <3>6. Len(queue'.deque) + queue'.dropped_overflow
              = Len(queue.deque) + queue.dropped_overflow + 1
      <4>1. CASE full
        BY <1>t, <3>1, <3>3, <3>4, <3>5, <4>1
      <4>2. CASE ~full
        <5>1. Len(kept) = Len(queue.deque)
          BY <3>3, <3>5, <4>2
        <5>2. queue'.dropped_overflow = queue.dropped_overflow
          BY <1>t, <3>1, <4>2
        <5> QED BY <1>t, <3>4, <3>5, <5>1, <5>2
      <4> QED BY <4>1, <4>2
    <3>7. frames = popped + Len(queue.deque) + queue.dropped_overflow + Len(encoding)
      BY <2>3 DEF PacketsAccounted
    <3>8. Len(queue'.deque) \in Nat /\ queue'.dropped_overflow \in Nat
      BY <1>t, <3>1, <3>3, <3>4, <3>5
    <3>9. frames' = popped' + Len(queue'.deque) + queue'.dropped_overflow
                    + Len(encoding')
      <4> DEFINE held == Len(queue.deque)
                 lost == queue.dropped_overflow
                 coming == Len(encoding)
                 heldAfter == Len(queue'.deque)
                 lostAfter == queue'.dropped_overflow
      <4>1. /\ popped \in Nat /\ held \in Nat /\ lost \in Nat /\ coming \in Nat
            /\ heldAfter \in Nat /\ lostAfter \in Nat
        BY <1>t, <3>5, <3>8
      <4>2. /\ heldAfter + lostAfter = held + lost + 1
            /\ frames = popped + held + lost + coming
            /\ frames' = frames /\ popped' = popped /\ Len(encoding') = coming - 1
        BY <2>1, <3>6, <3>7
      <4> HIDE DEF held, lost, coming, heldAfter, lostAfter
      <4>3. frames' = popped' + heldAfter + lostAfter + Len(encoding')
        BY <4>1, <4>2
      <4> QED BY <4>3 DEF heldAfter, lostAfter
    <3> QED BY <3>9 DEF PacketsAccounted
  <2> QED BY <1>t, <2>2, <2>3
<1>3. CASE Pops
  BY <1>3, <1>t DEF Pops, Popping, Poppable, PopFront, PacketsAccounted, TypeOK,
                    QueueOf
<1>4. CASE Closes
  BY <1>4 DEF Closes, Close, PacketsAccounted, TypeOK, QueueOf
<1>5. CASE UNCHANGED << queue, frames, encoding, popped >>
  BY <1>5 DEF PacketsAccounted
<1> QED BY <1>1, <1>2, <1>3, <1>4, <1>5, PipelineSteps

-----------------------------------------------------------------------------
(* The order of the stream.                                                 *)

(* What the queue holds after a step was there before or has just left the  *)
(* encoder.                                                                 *)
MovesForward ==
    /\ Emitted \in Nat /\ Emitted' \in Nat /\ Emitted <= Emitted'
    /\ \A k \in DOMAIN queue'.deque :
           \/ queue'.deque[k].seq = Emitted + 1
           \/ \E m \in DOMAIN queue.deque : queue'.deque[k] = queue.deque[m]

(* No step brings back a packet that had left the queue.                    *)
LEMMA QueueMovesForward ==
    TypeOK /\ PipelineInv /\ [Next]_vars => MovesForward
<1> SUFFICES ASSUME TypeOK, PipelineInv, [Next]_vars PROVE MovesForward
  OBVIOUS
<1>t. /\ frames \in Nat /\ encoding \in Seq(Packet) /\ queue \in QueueOf(Packet)
      /\ queue.deque \in Seq(Packet) /\ force_idr \in BOOLEAN /\ Emitted \in Nat
  BY DEF TypeOK, QueueOf, PipelineInv
<1>1. CASE SubmitFrame
  <2>1. Encoded(frames, force_idr) \in Packet
    BY <1>t, EncodedType
  <2>2. Emitted' = Emitted /\ queue' = queue
    BY <1>1, <1>t, <2>1 DEF SubmitFrame, Emitted
  <2> QED BY <1>t, <2>2 DEF MovesForward
<1>2. CASE PushPacket
  <2>1. /\ Head(encoding) \in Packet /\ Head(encoding).seq = Emitted + 1
        /\ Emitted' = Emitted + 1
    BY <1>2, <1>t DEF PushPacket, PipelineInv, Emitted
  <2>2. queue' = Push(queue, Head(encoding))
    BY <1>2 DEF PushPacket
  <2>3. \A k \in DOMAIN queue'.deque :
            \/ queue'.deque[k] = Head(encoding)
            \/ \E m \in DOMAIN queue.deque : queue'.deque[k] = queue.deque[m]
    BY <1>t, <2>1, <2>2, PushElements
  <2> QED BY <1>t, <2>1, <2>3 DEF MovesForward
<1>3. CASE Pops
  <2>1. /\ queue.deque # << >> /\ queue'.deque = Tail(queue.deque)
        /\ Emitted' = Emitted
    BY <1>3, <1>t DEF Pops, Popping, Poppable, PopFront, QueueOf, Emitted
  <2>2. \A k \in DOMAIN queue'.deque :
            k + 1 \in DOMAIN queue.deque /\ queue'.deque[k] = queue.deque[k + 1]
    BY <1>t, <2>1
  <2> QED BY <1>t, <2>1, <2>2 DEF MovesForward
<1>4. CASE Closes
  <2>1. queue'.deque = queue.deque /\ Emitted' = Emitted
    BY <1>4, <1>t DEF Closes, Close, QueueOf, Emitted
  <2> QED BY <1>t, <2>1 DEF MovesForward
<1>5. CASE UNCHANGED << queue, frames, encoding, popped >>
  BY <1>5, <1>t DEF MovesForward, Emitted
<1> QED BY <1>1, <1>2, <1>3, <1>4, <1>5, PipelineSteps

(* The packet in flight is written to the client.                           *)
Sends ==
    /\ InFlight /\ ~InFlight'
    /\ sent' = Append(sent, fp_pkt)
    /\ UNCHANGED << queue, frames, encoding >>

(* The oldest packet of the queue takes off.                                *)
Takes == Pops /\ fp_pkt' = Front(queue) /\ sent' = sent

(* The client sees nothing, and what was in flight stays so or is dropped.  *)
Keeps == sent' = sent /\ (InFlight' => InFlight /\ fp_pkt' = fp_pkt)

(* The three things a step can do to the stream.                            *)
LEMMA WireSteps ==
    TypeOK /\ ControlInv /\ [Next]_vars => Sends \/ Takes \/ Keeps
<1> SUFFICES ASSUME TypeOK, ControlInv, [Next]_vars PROVE Sends \/ Takes \/ Keeps
  OBVIOUS
<1> USE DEF Keeps, InFlight, RunGoes
<1>1. CASE RunTask
  <2>1. CASE WaitForKeyframe
    BY <2>1 DEF WaitForKeyframe, Takes, Pops, ControlInv, PreLive, WithEngine
  <2>2. CASE Greet
    BY <2>2 DEF Greet, Sends, ControlInv, PreLive, WithEngine
  <2>3. CASE FailWithEngine \/ StopEngine
    BY <2>3 DEF FailWithEngine, StopEngine
  <2>4. CASE Accept \/ ReadHello \/ EnableVdd \/ FailEarly \/ StartEngine
             \/ BuildInjector
    BY <2>4 DEF Accept, ReadHello, EnableVdd, FailEarly, StartEngine, BuildInjector
  <2>5. CASE DispatchDone \/ Finish \/ RelayIdr \/ JoinFramePump
             \/ JoinTelemetryPump \/ LockForGoodbye \/ WriteGoodbye \/ JoinEngine
    BY <2>5 DEF DispatchDone, Finish, DropReadLoop, RelayIdr, AfterLive, JoinFramePump,
                JoinTelemetryPump, LockForGoodbye, WriteGoodbye, JoinEngine
  <2> QED BY <1>1, <2>1, <2>2, <2>3, <2>4, <2>5 DEF RunTask
<1>2. CASE EncodeThread
  BY <1>2 DEF EncodeThread, ExitLoop, BeginTick, SubmitFrame, PushPacket, EndTick,
              FailTick
<1>3. CASE FramePump
  <2>1. CASE PumpPopped
    BY <2>1 DEF PumpPopped, Takes, Pops
  <2>2. CASE \E large \in BOOLEAN : PumpWrite(large)
    BY <2>2 DEF PumpWrite, Sends, ControlInv, PreLive, WithEngine
  <2>3. CASE PumpEmpty \/ PumpPopArm \/ PumpStopArm \/ LeftPopEnds \/ PumpLock
             \/ PumpWriteFails
    BY <2>3 DEF PumpEmpty, PumpPopArm, PumpStopArm, LeftPopEnds, PumpLock,
                PumpWriteFails, FpSelecting, ControlInv, PreLive, WithEngine
  <2> QED BY <1>3, <2>1, <2>2, <2>3 DEF FramePump
<1>4. CASE TelemetryPump \/ PeriodicIdr \/ CallerFinish \/ PeerStalls \/ PeerGone
  BY <1>4 DEF TelemetryPump, TelemetryTick, TelemetryStopArm, TelemetryLock,
              TelemetryWrite, PeriodicIdr, CallerFinish, PeerStalls, PeerGone
<1>5. CASE ReadLoop
  BY <1>5 DEF ReadLoop, ReadRequestIdr, ReadTimeSync, ReplyLock, ReplyWrite,
              ReadEnds, ReadLoopAborted, DropReadLoop
<1>6. CASE CallerDrops
  BY <1>6 DEF CallerDrops
<1>7. CASE UNCHANGED vars
  BY <1>7
<1> QED BY <1>1, <1>2, <1>3, <1>4, <1>5, <1>6, <1>7 DEF Next, Terminated

(* The client's stream, the packet in flight and the queue stay in order.   *)
LEMMA OrderNext ==
    TypeOK /\ ControlInv /\ PipelineInv /\ OrderInv /\ [Next]_vars => OrderInv'
<1> SUFFICES ASSUME TypeOK, ControlInv, PipelineInv, OrderInv, [Next]_vars
             PROVE  OrderInv'
  OBVIOUS
<1>t. /\ sent \in Seq(Packet) /\ fp_pkt \in Packet /\ queue.deque \in Seq(Packet)
      /\ Emitted \in Nat
  BY DEF TypeOK, QueueOf, PipelineInv
<1>s. \A p \in Packet : p.seq \in Nat
  BY DEF Packet
<1>n. /\ \A i \in DOMAIN sent : sent[i].seq \in Nat
      /\ \A k \in DOMAIN queue.deque : queue.deque[k].seq \in Nat
      /\ fp_pkt.seq \in Nat
  BY <1>t, <1>s
<1>f. /\ Emitted' \in Nat /\ Emitted <= Emitted'
      /\ \A k \in DOMAIN queue'.deque :
             \/ queue'.deque[k].seq = Emitted + 1
             \/ \E m \in DOMAIN queue.deque : queue'.deque[k] = queue.deque[m]
  BY QueueMovesForward DEF MovesForward
<1>o. /\ \A i, j \in DOMAIN sent : i < j => sent[i].seq < sent[j].seq
      /\ \A i \in DOMAIN sent :
             /\ sent[i].seq <= Emitted
             /\ \A k \in DOMAIN queue.deque : sent[i].seq < queue.deque[k].seq
      /\ InFlight =>
             /\ fp_pkt.seq <= Emitted
             /\ \A i \in DOMAIN sent : sent[i].seq < fp_pkt.seq
             /\ \A k \in DOMAIN queue.deque : fp_pkt.seq < queue.deque[k].seq
  BY DEF OrderInv, WireInOrder
<1> HIDE DEF Emitted, InFlight
<1>a. \A i \in DOMAIN sent :
          /\ sent[i].seq <= Emitted'
          /\ \A k \in DOMAIN queue'.deque : sent[i].seq < queue'.deque[k].seq
  BY <1>t, <1>n, <1>f, <1>o
<1>1. CASE Sends
  <2>1. /\ InFlight /\ ~InFlight' /\ sent' = Append(sent, fp_pkt)
        /\ queue' = queue /\ Emitted' = Emitted
    BY <1>1 DEF Sends, Emitted
  <2>2. /\ DOMAIN sent' = 1 .. Len(sent) + 1 /\ DOMAIN sent = 1 .. Len(sent)
        /\ Len(sent) \in Nat
        /\ \A i \in DOMAIN sent : sent'[i] = sent[i]
        /\ sent'[Len(sent) + 1] = fp_pkt
    BY <1>t, <2>1
  <2>3. \A i \in DOMAIN sent' : i = Len(sent) + 1 \/ i \in DOMAIN sent
    BY <2>2
  <2>4. \A i, j \in DOMAIN sent' : i < j => sent'[i].seq < sent'[j].seq
    <3> TAKE i, j \in DOMAIN sent'
    <3> HAVE i < j
    <3>1. i \in DOMAIN sent
      BY <2>2
    <3>2. CASE j = Len(sent) + 1
      BY <1>o, <2>1, <2>2, <3>1, <3>2
    <3>3. CASE j \in DOMAIN sent
      BY <1>o, <2>2, <3>1, <3>3
    <3> QED BY <2>3, <3>2, <3>3
  <2>5. \A i \in DOMAIN sent' :
            /\ sent'[i].seq <= Emitted'
            /\ \A k \in DOMAIN queue'.deque : sent'[i].seq < queue'.deque[k].seq
    <3> TAKE i \in DOMAIN sent'
    <3>1. CASE i = Len(sent) + 1
      BY <1>o, <2>1, <2>2, <3>1
    <3>2. CASE i \in DOMAIN sent
      BY <1>o, <2>1, <2>2, <3>2
    <3> QED BY <2>3, <3>1, <3>2
  <2> QED BY <2>1, <2>4, <2>5 DEF OrderInv, WireInOrder
<1>2. CASE Takes
  <2>1. /\ queue.deque # << >> /\ queue'.deque = Tail(queue.deque)
        /\ fp_pkt' = queue.deque[1] /\ sent' = sent /\ Emitted' = Emitted
    BY <1>2, <1>t DEF Takes, Pops, Popping, Poppable, PopFront, Front, TypeOK,
                      QueueOf, Emitted
  <2>2. 1 \in DOMAIN queue.deque /\ Len(queue.deque) \in Nat /\ Len(queue.deque) >= 1
    BY <1>t, <2>1
  <2>3. \A k \in DOMAIN queue'.deque : k \in Nat /\ k >= 1
            /\ k + 1 \in DOMAIN queue.deque /\ queue'.deque[k] = queue.deque[k + 1]
    BY <1>t, <2>1
  <2>4. \A k \in DOMAIN queue'.deque : fp_pkt'.seq < queue'.deque[k].seq
    <3> TAKE k \in DOMAIN queue'.deque
    <3>1. queue.deque[k + 1].seq - queue.deque[1].seq = (k + 1) - 1
      BY <2>2, <2>3 DEF PipelineInv
    <3>2. queue.deque[k + 1].seq \in Nat /\ queue.deque[1].seq \in Nat
      BY <1>n, <2>2, <2>3
    <3> QED BY <2>1, <2>3, <3>1, <3>2
  <2>5. fp_pkt'.seq <= Emitted'
    <3>1. queue.deque[1].seq <= Emitted - Len(queue.deque) + 1
      BY <2>2 DEF PipelineInv
    <3> DEFINE oldest == queue.deque[1].seq
               held == Len(queue.deque)
    <3>2. /\ oldest \in Nat /\ held \in Nat /\ held >= 1 /\ Emitted \in Nat
          /\ oldest <= Emitted - held + 1
      BY <1>t, <1>n, <2>2, <3>1
    <3> HIDE DEF oldest, held
    <3>3. oldest <= Emitted
      BY <3>2
    <3> QED BY <2>1, <3>3 DEF oldest
  <2>6. \A i \in DOMAIN sent' : sent'[i].seq < fp_pkt'.seq
    BY <1>o, <2>1, <2>2
  <2> QED BY <1>o, <1>a, <2>1, <2>4, <2>5, <2>6 DEF OrderInv, WireInOrder
<1>3. CASE Keeps
  <2>1. sent' = sent /\ (InFlight' => InFlight /\ fp_pkt' = fp_pkt)
    BY <1>3 DEF Keeps
  <2>2. InFlight' =>
            /\ fp_pkt'.seq <= Emitted'
            /\ \A i \in DOMAIN sent' : sent'[i].seq < fp_pkt'.seq
            /\ \A k \in DOMAIN queue'.deque : fp_pkt'.seq < queue'.deque[k].seq
    <3> HAVE InFlight'
    <3>1. fp_pkt.seq <= Emitted' /\ fp_pkt' = fp_pkt
      BY <1>t, <1>n, <1>f, <1>o, <2>1
    <3>2. \A k \in DOMAIN queue'.deque : fp_pkt.seq < queue'.deque[k].seq
      BY <1>t, <1>n, <1>f, <1>o, <2>1
    <3> QED BY <1>o, <2>1, <3>1, <3>2
  <2> QED BY <1>o, <1>a, <2>1, <2>2 DEF OrderInv, WireInOrder
<1> QED BY <1>1, <1>2, <1>3, WireSteps

-----------------------------------------------------------------------------
(* Keyframes.                                                               *)

(* The first packet of the stream is the keyframe that was waited for.      *)
LEMMA KeyNext == TypeOK /\ ControlInv /\ KeyInv /\ [Next]_vars => KeyInv'
<1> SUFFICES ASSUME TypeOK, ControlInv, KeyInv, [Next]_vars PROVE KeyInv'
  OBVIOUS
<1>t. sent \in Seq(Packet) /\ fp_pkt \in Packet
  BY DEF TypeOK
<1> USE DEF KeyInv, StreamStartsWithKeyframe, RunGoes
<1>1. CASE WaitForKeyframe
  BY <1>1 DEF WaitForKeyframe
<1>2. CASE Greet
  <2>1. CASE screen_off
    BY <1>2, <2>1 DEF Greet
  <2>2. CASE ~screen_off
    <3>1. sent = << >> /\ sent' = Append(sent, fp_pkt) /\ fp_pkt.key /\ run' = "live"
      BY <1>2, <2>2 DEF Greet, ControlInv, PreLive, WithEngine
    <3>2. sent' # << >> /\ sent'[1] = fp_pkt
      BY <1>t, <3>1
    <3> QED BY <3>1, <3>2
  <2> QED BY <2>1, <2>2
<1>3. CASE \E large \in BOOLEAN : PumpWrite(large)
  <2>1. sent # << >> /\ sent' = Append(sent, fp_pkt) /\ run' = run
        /\ run \notin PreLive
    BY <1>3 DEF PumpWrite, ControlInv
  <2>2. sent' # << >> /\ sent'[1] = sent[1]
    BY <1>t, <2>1
  <2> QED BY <2>1, <2>2 DEF PreLive, WithEngine
<1>4. CASE Accept \/ ReadHello \/ EnableVdd \/ FailEarly \/ StartEngine
           \/ BuildInjector \/ FailWithEngine \/ DispatchDone \/ Finish \/ RelayIdr
           \/ JoinFramePump \/ JoinTelemetryPump \/ LockForGoodbye \/ WriteGoodbye
           \/ StopEngine \/ JoinEngine \/ CallerDrops
  BY <1>4 DEF Accept, ReadHello, EnableVdd, FailEarly, StartEngine, BuildInjector,
              FailWithEngine, DispatchDone, Finish, DropReadLoop, RelayIdr, AfterLive,
              JoinFramePump, JoinTelemetryPump, LockForGoodbye, WriteGoodbye,
              StopEngine, JoinEngine, CallerDrops
<1>5. CASE EncodeThread
  BY <1>5 DEF EncodeThread, ExitLoop, BeginTick, SubmitFrame, PushPacket, EndTick,
              FailTick
<1>6. CASE PumpPopped \/ PumpEmpty \/ PumpPopArm \/ PumpStopArm \/ LeftPopEnds
           \/ PumpLock \/ PumpWriteFails
  BY <1>6 DEF PumpPopped, PumpEmpty, PumpPopArm, PumpStopArm, LeftPopEnds,
              PumpLock, PumpWriteFails, FpSelecting, ControlInv, PreLive, WithEngine
<1>7. CASE TelemetryPump \/ PeriodicIdr \/ CallerFinish \/ PeerStalls \/ PeerGone
  BY <1>7 DEF TelemetryPump, TelemetryTick, TelemetryStopArm, TelemetryLock,
              TelemetryWrite, PeriodicIdr, CallerFinish, PeerStalls, PeerGone
<1>8. CASE ReadLoop
  BY <1>8 DEF ReadLoop, ReadRequestIdr, ReadTimeSync, ReplyLock, ReplyWrite,
              ReadEnds, ReadLoopAborted, DropReadLoop
<1>9. CASE UNCHANGED vars
  BY <1>9
<1> QED BY <1>1, <1>2, <1>3, <1>4, <1>5, <1>6, <1>7, <1>8, <1>9
           DEF Next, RunTask, FramePump, Terminated

(* A request for a keyframe survives every step until it is served.         *)
LEMMA IdrNext == TypeOK /\ ControlInv /\ IdrNotLost /\ [Next]_vars => IdrNotLost'
<1> SUFFICES ASSUME TypeOK, ControlInv, IdrNotLost, [Next]_vars PROVE IdrNotLost'
  OBVIOUS
<1> USE DEF IdrNotLost, EncAlive, RunGoes
<1>1. CASE StartEngine
  BY <1>1 DEF StartEngine, ControlInv, PreLive, BeforeEngine
<1>2. CASE RelayIdr
  BY <1>2 DEF RelayIdr
<1>3. CASE BeginTick
  BY <1>3 DEF BeginTick
<1>4. CASE SubmitFrame
  <2>1. CASE force_idr
    <3>1. Encoded(frames, force_idr).key
      BY <2>1 DEF Encoded
    <3>2. ~idr_owed'
      BY <1>4, <3>1, Zenon DEF SubmitFrame
    <3> QED BY <3>2
  <2>2. CASE ~force_idr
    <3>1. idr_owed' => idr_owed
      BY <1>4, Zenon DEF SubmitFrame
    <3> QED BY <1>4, <2>2, <3>1 DEF SubmitFrame
  <2> QED BY <2>1, <2>2
<1>5. CASE ExitLoop \/ PushPacket \/ EndTick \/ FailTick
  BY <1>5 DEF ExitLoop, PushPacket, EndTick, FailTick
<1>6. CASE Accept \/ ReadHello \/ EnableVdd \/ FailEarly \/ BuildInjector
           \/ WaitForKeyframe \/ FailWithEngine \/ Greet \/ DispatchDone \/ Finish
           \/ JoinFramePump \/ JoinTelemetryPump \/ LockForGoodbye \/ WriteGoodbye
           \/ StopEngine \/ JoinEngine \/ CallerDrops
  BY <1>6 DEF Accept, ReadHello, EnableVdd, FailEarly, BuildInjector,
              WaitForKeyframe, FailWithEngine, Greet, DispatchDone, Finish,
              JoinFramePump, JoinTelemetryPump, LockForGoodbye, WriteGoodbye,
              StopEngine, JoinEngine, CallerDrops
<1>7. CASE FramePump
  BY <1>7 DEF FramePump, PumpPopped, PumpEmpty, PumpPopArm, PumpStopArm,
              LeftPopEnds, PumpLock, PumpWrite, PumpWriteFails
<1>8. CASE TelemetryPump \/ PeriodicIdr \/ CallerFinish \/ PeerStalls \/ PeerGone
  BY <1>8 DEF TelemetryPump, TelemetryTick, TelemetryStopArm, TelemetryLock,
              TelemetryWrite, PeriodicIdr, CallerFinish, PeerStalls, PeerGone
<1>9. CASE ReadLoop
  BY <1>9 DEF ReadLoop, ReadRequestIdr, ReadTimeSync, ReplyLock, ReplyWrite,
              ReadEnds, ReadLoopAborted, DropReadLoop
<1>10. CASE UNCHANGED vars
  BY <1>10
<1> QED BY <1>1, <1>2, <1>3, <1>4, <1>5, <1>6, <1>7, <1>8, <1>9, <1>10
           DEF Next, RunTask, EncodeThread, Terminated

-----------------------------------------------------------------------------
(* The goodbye.                                                             *)

(* What GoodbyeInv says, after every step.                                  *)
LEMMA GoodbyeNext == TypeOK /\ GoodbyeInv /\ [Next]_vars => GoodbyeInv'
<1> SUFFICES ASSUME TypeOK, GoodbyeInv, [Next]_vars PROVE GoodbyeInv'
  OBVIOUS
<1> USE DEF GoodbyeInv, Ending, RunGoes
<1>1. CASE Accept \/ ReadHello \/ EnableVdd \/ FailEarly \/ StartEngine \/ BuildInjector
           \/ WaitForKeyframe \/ FailWithEngine \/ Greet
  BY <1>1 DEF Accept, ReadHello, EnableVdd, FailEarly, StartEngine, BuildInjector,
              WaitForKeyframe, FailWithEngine, Greet, BeforeEngine, WithEngine
<1>2. CASE DispatchDone \/ Finish \/ RelayIdr
  BY <1>2 DEF DispatchDone, Finish, DropReadLoop, RelayIdr, AfterLive
<1>3. CASE WriteGoodbye
  <2>1. peer' = peer /\ peer \in {"up", "gone"} /\ run' \in {"done", "engine_stop"}
    BY <1>3 DEF WriteGoodbye, TypeOK
  <2>2. goodbye' = (peer = "up")
    BY <1>3 DEF WriteGoodbye
  <2>3. goodbye' \/ peer' = "gone"
    BY <2>1, <2>2
  <2>4. QED
    BY <2>1, <2>3
<1>4. CASE JoinFramePump \/ JoinTelemetryPump \/ LockForGoodbye \/ StopEngine \/ JoinEngine
  BY <1>4 DEF JoinFramePump, JoinTelemetryPump, LockForGoodbye, StopEngine, JoinEngine
<1>5. CASE CallerDrops
  BY <1>5 DEF CallerDrops
<1>6. CASE EncodeThread
  BY <1>6 DEF EncodeThread, ExitLoop, BeginTick, SubmitFrame, PushPacket, EndTick, FailTick
<1>7. CASE FramePump
  BY <1>7 DEF FramePump, PumpPopped, PumpEmpty, PumpPopArm, PumpStopArm,
              LeftPopEnds, PumpLock, PumpWrite, PumpWriteFails
<1>8. CASE TelemetryPump \/ PeriodicIdr \/ CallerFinish \/ PeerStalls \/ PeerGone
  BY <1>8 DEF TelemetryPump, TelemetryTick, TelemetryStopArm, TelemetryLock,
              TelemetryWrite, PeriodicIdr, CallerFinish, PeerStalls, PeerGone
<1>9. CASE ReadLoop
  BY <1>9 DEF ReadLoop, ReadRequestIdr, ReadTimeSync, ReplyLock, ReplyWrite, ReadEnds,
              ReadLoopAborted, DropReadLoop
<1>10. CASE UNCHANGED vars
  BY <1>10
<1> QED BY <1>1, <1>2, <1>3, <1>4, <1>5, <1>6, <1>7, <1>8, <1>9, <1>10
           DEF Next, RunTask, Terminated

-----------------------------------------------------------------------------
(* What Session::run waits for.                                             *)

(* A lock is taken on the way into a write and dropped on every way out.    *)
LEMMA WaitNext == TypeOK /\ ControlInv /\ WaitInv /\ [Next]_vars => WaitInv'
<1> SUFFICES ASSUME TypeOK, ControlInv, WaitInv, [Next]_vars PROVE WaitInv'
  OBVIOUS
<1> USE DEF WaitInv, WriterIsWriting, JoinedThreadIsTold, PreLive, BeforeEngine, WithEngine, RunGoes
<1>1. CASE Accept \/ ReadHello \/ EnableVdd \/ FailEarly \/ StartEngine \/ BuildInjector
  BY <1>1 DEF Accept, ReadHello, EnableVdd, FailEarly, StartEngine, BuildInjector, ControlInv
<1>2. CASE WaitForKeyframe \/ Greet
  BY <1>2 DEF WaitForKeyframe, Greet, ControlInv
<1>3. CASE FailWithEngine
  BY <1>3 DEF FailWithEngine, StopPipeline, Close, ControlInv, TypeOK, QueueOf
<1>4. CASE DispatchDone \/ RelayIdr
  BY <1>4 DEF DispatchDone, RelayIdr, AfterLive
<1>5. CASE Finish
  BY <1>5 DEF Finish, DropReadLoop, AfterLive
<1>6. CASE JoinFramePump \/ JoinTelemetryPump \/ LockForGoodbye \/ WriteGoodbye \/ JoinEngine
  BY <1>6 DEF JoinFramePump, JoinTelemetryPump, LockForGoodbye, WriteGoodbye, JoinEngine
<1>7. CASE StopEngine
  BY <1>7 DEF StopEngine, StopPipeline, Close, TypeOK, QueueOf
<1>8. CASE EncodeThread
  <2>1. CASE PushPacket
    <3>1. queue'.closed = queue.closed
      BY <2>1 DEF PushPacket, Push, TypeOK, QueueOf
    <3>2. UNCHANGED << runVars, enc, stop, fpVars, tpVars, rlVars, writer >>
      BY <2>1 DEF PushPacket
    <3>3. WriterIsWriting'
      BY <3>2
    <3>4. JoinedThreadIsTold'
      BY <3>1, <3>2
    <3> QED BY <3>2, <3>3, <3>4
  <2>2. CASE ExitLoop \/ BeginTick \/ SubmitFrame \/ EndTick \/ FailTick
    BY <2>2 DEF ExitLoop, BeginTick, SubmitFrame, EndTick, FailTick
  <2> QED BY <1>8, <2>1, <2>2 DEF EncodeThread
<1>9. CASE FramePump
  <2>1. CASE PumpPopped
    <3>1. queue'.closed = queue.closed
      BY <2>1 DEF PumpPopped, Popping, PopFront, TypeOK, QueueOf
    <3>2. /\ UNCHANGED << runVars, enc, stop, tpVars, rlVars, writer >>
          /\ fp = "popping" /\ fp' = "popped"
      BY <2>1 DEF PumpPopped
    <3> QED BY <3>1, <3>2
  <2>2. CASE PumpEmpty \/ PumpPopArm \/ PumpStopArm
    BY <2>2 DEF PumpEmpty, PumpPopArm, PumpStopArm, FpSelecting
  <2>3. CASE LeftPopEnds
    <3>1. queue'.closed = queue.closed
      BY <2>3 DEF LeftPopEnds, queueVars, Popping, PopFront, TypeOK, QueueOf
    <3>2. /\ UNCHANGED << runVars, enc, stop, tpVars, rlVars, writer >>
          /\ fp # "write" /\ fp' # "write"
      BY <2>3 DEF LeftPopEnds
    <3> QED BY <3>1, <3>2
  <2>4. CASE PumpLock
    BY <2>4 DEF PumpLock
  <2>5. CASE PumpWriteFails \/ \E large \in BOOLEAN : PumpWrite(large)
    BY <2>5 DEF PumpWrite, PumpWriteFails
  <2> QED BY <1>9, <2>1, <2>2, <2>3, <2>4, <2>5 DEF FramePump
<1>10. CASE TelemetryPump \/ PeriodicIdr \/ CallerFinish \/ PeerStalls \/ PeerGone
  BY <1>10 DEF TelemetryPump, TelemetryTick, TelemetryStopArm, TelemetryLock,
              TelemetryWrite, PeriodicIdr, CallerFinish, PeerStalls, PeerGone
<1>11. CASE ReadLoop
  BY <1>11 DEF ReadLoop, ReadRequestIdr, ReadTimeSync, ReplyLock, ReplyWrite, ReadEnds,
              ReadLoopAborted, DropReadLoop
<1>12. CASE CallerDrops
  BY <1>12 DEF CallerDrops, DropPoints, StopPipeline, Close, TypeOK, QueueOf
<1>13. CASE UNCHANGED vars
  BY <1>13
<1> QED BY <1>1, <1>2, <1>3, <1>4, <1>5, <1>6, <1>7, <1>8, <1>9, <1>10, <1>11, <1>12, <1>13
           DEF Next, RunTask, Terminated

-----------------------------------------------------------------------------
(* The theorems.                                                            *)

(* Inv holds before Session::run has done anything.                         *)
LEMMA InvInit == Init => Inv
<1> SUFFICES ASSUME Init PROVE Inv
  OBVIOUS
<1>1. TypeOK
  BY TypeInit
<1>2. ControlInv /\ KeyInv /\ IdrNotLost /\ GoodbyeInv
  BY DEF Init, GoodbyeInv, ControlInv, KeyInv, IdrNotLost, StreamStartsWithKeyframe,
         BeforeEngine, EngineReaped, ReaderIsTold, EncAlive, Ending
<1>3. PipelineInv /\ PacketsAccounted /\ OrderInv
  BY EffectiveCapacityPositive
     DEF Init, NewQueue, PipelineInv, PacketsAccounted, OrderInv, Emitted,
         WireInOrder, InFlight
<1>4. WaitInv
  BY DEF Init, WaitInv, WriterIsWriting, JoinedThreadIsTold, BeforeEngine
<1> QED BY <1>1, <1>2, <1>3, <1>4 DEF Inv

(* Every step preserves Inv.                                                *)
LEMMA InvNext == Inv /\ [Next]_vars => Inv'
BY TypeNext, ControlNext, PipelineNext, AccountNext, OrderNext, KeyNext, IdrNext,
   GoodbyeNext, WaitNext
   DEF Inv

(* Inv is an invariant of the session.                                      *)
THEOREM Invariance == Spec => []Inv
BY InvInit, InvNext, PTL DEF Spec

(* Drop-oldest sheds from the old end only: for every capacity, encoder     *)
(* latency and interleaving the queue is the newest window of the stream.   *)
THEOREM NewestWindow == Spec => []QueueIsNewestWindow
<1>1. Inv => QueueIsNewestWindow
  <2> SUFFICES ASSUME Inv PROVE QueueIsNewestWindow
    OBVIOUS
  <2>t. queue.deque \in Seq(Packet) /\ Emitted \in Nat
    BY DEF Inv, TypeOK, QueueOf, PipelineInv
  <2>1. ~queue.closed /\ queue.deque # << >> =>
            queue.deque[Len(queue.deque)].seq = Emitted
    <3> SUFFICES ASSUME ~queue.closed, queue.deque # << >>
                 PROVE  queue.deque[Len(queue.deque)].seq = Emitted
      OBVIOUS
    <3>1. Len(queue.deque) \in DOMAIN queue.deque /\ Len(queue.deque) \in Nat
      BY <2>t
    <3>2. queue.deque[Len(queue.deque)].seq
              = Emitted - Len(queue.deque) + Len(queue.deque)
      BY <3>1 DEF Inv, PipelineInv
    <3> HIDE DEF Emitted
    <3> QED BY <2>t, <3>1, <3>2
  <2> QED BY <2>1 DEF Inv, PipelineInv, QueueIsNewestWindow, Emitted
<1> QED BY <1>1, Invariance, PTL

(* dropped_overflow is exact as long as the queue is open.                  *)
THEOREM Accounting == Spec => []PacketsAccounted
<1>1. Inv => PacketsAccounted
  BY DEF Inv
<1> QED BY <1>1, Invariance, PTL

(* The client never sees a frame twice or an older one after a newer one.   *)
THEOREM OrderOnTheWire == Spec => []WireInOrder
<1>1. Inv => WireInOrder
  BY DEF Inv, OrderInv
<1> QED BY <1>1, Invariance, PTL

(* The first VIDEO_FRAME is a keyframe, however many packets were evicted   *)
(* before the session looked at the queue.                                  *)
THEOREM KeyframeFirst == Spec => []StreamStartsWithKeyframe
<1>1. Inv => StreamStartsWithKeyframe
  BY DEF Inv, KeyInv
<1> QED BY <1>1, Invariance, PTL

(* The IDR flag never loses a request to the tick that is under way.        *)
THEOREM RequestsSurvive == Spec => []IdrNotLost
<1>1. Inv => IdrNotLost
  BY DEF Inv
<1> QED BY <1>1, Invariance, PTL

(* No way out of Session::run, a dropped future included, leaves the encode *)
(* thread running.                                                          *)
THEOREM EngineIsReaped == Spec => []EngineReaped
<1>1. Inv => EngineReaped
  BY DEF Inv, ControlInv
<1> QED BY <1>1, Invariance, PTL

(* On no way out of the live phase, a dropped future included, is a read    *)
(* loop left that has neither ended nor been told to.                       *)
THEOREM NoReaderForgotten == Spec => []ReaderIsTold
<1>1. Inv => ReaderIsTold
  BY DEF Inv, ControlInv
<1> QED BY <1>1, Invariance, PTL

(* A session that ended well told its client so, or lost it before: no path *)
(* through the joins, the writer mutex and Engine::stop skips PC_GOODBYE.   *)
THEOREM GoodbyeSaid == Spec => []LiveSessionSaysGoodbye
<1>1. Inv => LiveSessionSaysGoodbye
  BY DEF Inv, GoodbyeInv, LiveSessionSaysGoodbye
<1> QED BY <1>1, Invariance, PTL

(* An aborted read loop or a dropped future never leaves the mutex locked:  *)
(* the goodbye waits for a write in progress and for nothing else.          *)
THEOREM MutexIsReleased == Spec => []WriterIsWriting
<1>1. Inv => WriterIsWriting
  BY DEF Inv, WaitInv
<1> QED BY <1>1, Invariance, PTL

(* Every join of the encode thread is of a thread that was told to stop and *)
(* whose queue is closed.                                                   *)
THEOREM JoinsAreTold == Spec => []JoinedThreadIsTold
<1>1. Inv => JoinedThreadIsTold
  BY DEF Inv, WaitInv
<1> QED BY <1>1, Invariance, PTL

=============================================================================
