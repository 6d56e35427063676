--------------------------- MODULE StreamSession ---------------------------
(***************************************************************************)
(* One streaming session on the PC: Session::run and its screen-off        *)
(* variant (crates/penflow-server/src/session.rs), the encode thread of    *)
(* penflow-core (pipeline.rs, lib.rs) and the packet queue between them.   *)
(*                                                                         *)
(* Five actors interleave: the task in Session::run, the encode thread,    *)
(* and the tasks frame_pump, telemetry_pump and read_loop.  They share the *)
(* queue, the IDR flag, the IDR channel, the writer mutex and a            *)
(* tokio::sync::Notify.  A state of an actor is a point where it waits     *)
(* (an .await, a lock, a blocking call); what the code does between two    *)
(* such points is one action.                                              *)
(***************************************************************************)
EXTENDS PacketQueue, Integers, FiniteSets

CONSTANTS
    Gop,             \* a keyframe comes by itself every Gop frames (600)
    EncoderDepth,    \* frames the encoder may still hold when a tick ends
    MaxFrames,       \* bound: frames the encode thread submits
    MaxIdrRequests,  \* bound: entries ever put on the IDR channel
    MaxTelemetry,    \* bound: TELEMETRY messages
    MaxTimeSync      \* bound: TIME_SYNC_REQ messages from the client

ASSUME BoundsAssumption ==
    /\ Gop \in Nat \ {0}
    /\ EncoderDepth \in Nat
    /\ MaxFrames \in Nat
    /\ MaxIdrRequests \in Nat
    /\ MaxTelemetry \in Nat
    /\ MaxTimeSync \in Nat

VARIABLES
    run,          \* where Session::run is
    result,       \* "none" yet, "ok" or "err" returned, or "dropped"
    screen_off,   \* SessionConfig::screen_off
    finish,       \* the caller has sent on the finish channel
    peer,         \* the client: "up", "stalled" (it no longer reads), "gone"
    enc,          \* where the encode thread is
    force_idr,    \* the flag this tick took from idr_request
    idr_request,  \* AtomicBool
    stop,         \* AtomicBool
    frames,       \* frames submitted to the encoder
    encoding,     \* packets the encoder has not handed out yet
    queue,        \* the packet queue
    popped,       \* packets ever taken from the queue
    first_pop,    \* the first of them
    fp, fp_pkt, fp_notified,   \* frame_pump, its packet, its Notified future
    tp, tp_notified, telemetry,
    rl, time_sync,
    rl_abort,     \* abort() was called on the read loop's task
    writer,       \* owner of the writer mutex, "none" when free
    idr_chan,     \* entries waiting in the IDR channel
    idr_sent,     \* entries ever put there
    idr_owed,     \* request_idr was called and no keyframe was encoded since
    sent,         \* packets written to the client as VIDEO_FRAME, in order
    goodbye       \* PC_GOODBYE was written

runVars == << run, result, screen_off, finish, peer >>
encVars == << enc, force_idr, stop, frames, encoding >>
queueVars == << queue, popped, first_pop >>
fpVars == << fp, fp_pkt, fp_notified >>
tpVars == << tp, tp_notified, telemetry >>
rlVars == << rl, time_sync, rl_abort >>
idrVars == << idr_request, idr_chan, idr_sent, idr_owed >>
wireVars == << sent, goodbye >>
vars == << runVars, encVars, queueVars, fpVars, tpVars, rlVars, writer,
           idrVars, wireVars >>

Packet == [seq : Nat, key : BOOLEAN]
NoPacket == [seq |-> 0, key |-> FALSE]

(* Points of Session::run, in order.  From engine_start on an Engine exists *)
(* and every way out stops it.                                              *)
BeforeEngine == {"accept", "hello", "vdd", "engine_start"}
WithEngine == {"injector", "wait_for_keyframe", "greet"}
Ending == {"join_frame_pump", "join_telemetry_pump", "goodbye_lock",
           "goodbye_write", "engine_stop", "engine_join"}
RunStates == BeforeEngine \cup WithEngine \cup Ending \cup {"live", "done"}

EncStates == {"off", "top", "tick", "drain", "dead", "exited"}
EncAlive == enc \in {"top", "tick", "drain"}
FpSelecting == {"popping", "popped", "empty"}
FpStates == FpSelecting \cup {"off", "lock", "write", "left", "done"}
PumpStates == {"off", "wait", "lock", "write", "done"}
RlEnded == {"ok", "err", "aborted"}
RlStates == {"off", "wait", "lock", "write"} \cup RlEnded

TypeOK ==
    /\ run \in RunStates /\ result \in {"none", "ok", "err", "dropped"}
    /\ screen_off \in BOOLEAN /\ finish \in BOOLEAN
    /\ peer \in {"up", "stalled", "gone"}
    /\ enc \in EncStates /\ force_idr \in BOOLEAN /\ stop \in BOOLEAN
    /\ frames \in Nat /\ encoding \in Seq(Packet)
    /\ popped \in Nat /\ first_pop \in Packet
    /\ queue \in QueueOf(Packet)
    /\ fp \in FpStates /\ fp_pkt \in Packet /\ fp_notified \in BOOLEAN
    /\ tp \in PumpStates /\ tp_notified \in BOOLEAN /\ telemetry \in Nat
    /\ rl \in RlStates /\ time_sync \in Nat /\ rl_abort \in BOOLEAN
    /\ writer \in {"none", "run", "frame_pump", "telemetry_pump", "read_loop"}
    /\ idr_request \in BOOLEAN /\ idr_chan \in Nat /\ idr_sent \in Nat
    /\ idr_owed \in BOOLEAN
    /\ sent \in Seq(Packet) /\ goodbye \in BOOLEAN

Init ==
    /\ run = "accept" /\ result = "none"
    /\ screen_off \in BOOLEAN /\ finish = FALSE /\ peer = "up"
    /\ enc = "off" /\ force_idr = FALSE /\ stop = FALSE
    /\ frames = 0 /\ encoding = << >>
    /\ queue = NewQueue /\ popped = 0 /\ first_pop = NoPacket
    /\ fp = "off" /\ fp_pkt = NoPacket /\ fp_notified = FALSE
    /\ tp = "off" /\ tp_notified = FALSE /\ telemetry = 0
    /\ rl = "off" /\ time_sync = 0 /\ rl_abort = FALSE
    /\ writer = "none"
    /\ idr_request = FALSE /\ idr_chan = 0 /\ idr_sent = 0 /\ idr_owed = FALSE
    /\ sent = << >> /\ goodbye = FALSE

-----------------------------------------------------------------------------
(* Session::run up to the live phase.  None of these points looks at        *)
(* `finish'.  A failure returns through `?'.                                *)

RunGoes(from, to) == run = from /\ run' = to

(* transport.accept() and read_frame(HELLO_ANDROID).                        *)
Accept ==
    /\ RunGoes("accept", "hello")
    /\ UNCHANGED << result, screen_off, finish, peer, encVars, queueVars, fpVars,
                    tpVars, rlVars, writer, idrVars, wireVars >>

ReadHello ==
    /\ peer # "gone"
    /\ RunGoes("hello", IF screen_off THEN "injector" ELSE "vdd")
    /\ UNCHANGED << result, screen_off, finish, peer, encVars, queueVars, fpVars,
                    tpVars, rlVars, writer, idrVars, wireVars >>

(* VDD enable, wait_for_virtual_monitor and the forced mode, or nothing     *)
(* when no VDD is configured.                                              *)
EnableVdd ==
    /\ RunGoes("vdd", "engine_start")
    /\ UNCHANGED << result, screen_off, finish, peer, encVars, queueVars, fpVars,
                    tpVars, rlVars, writer, idrVars, wireVars >>

FailEarly ==
    /\ run \in BeforeEngine \/ (screen_off /\ run \in WithEngine)
    /\ run' = "done" /\ result' = "err"
    /\ UNCHANGED << screen_off, finish, peer, encVars, queueVars, fpVars,
                    tpVars, rlVars, writer, idrVars, wireVars >>

(* Engine::builder(..).start(): the encode thread runs from here on.        *)
StartEngine ==
    /\ RunGoes("engine_start", "injector")
    /\ enc' = "top"
    /\ UNCHANGED << result, screen_off, finish, peer, force_idr, stop, frames,
                    encoding, queueVars, fpVars, tpVars, rlVars, writer, idrVars, wireVars >>

(* InputInjector::new and set_pen_profile.                                  *)
BuildInjector ==
    /\ RunGoes("injector", IF screen_off THEN "greet" ELSE "wait_for_keyframe")
    /\ UNCHANGED << result, screen_off, finish, peer, encVars, queueVars, fpVars,
                    tpVars, rlVars, writer, idrVars, wireVars >>

Popping ==
    /\ Poppable(queue)
    /\ queue' = PopFront(queue)
    /\ popped' = popped + 1
    /\ first_pop' = IF popped = 0 THEN Front(queue) ELSE first_pop

(* Fault: the first packet is taken for the keyframe, whatever it is.       *)
WaitForAnyFrame ==
    /\ run = "wait_for_keyframe"
    /\ Popping
    /\ run' = "greet" /\ fp_pkt' = Front(queue)
    /\ UNCHANGED << result, screen_off, finish, peer, encVars, fp, fp_notified,
                    tpVars, rlVars, writer, idrVars, wireVars >>

(* One turn of wait_for_keyframe: packets before the keyframe are dropped.  *)
(* The keyframe is kept in fp_pkt, which frame_pump does not use yet.       *)
WaitForKeyframe ==
    /\ run = "wait_for_keyframe"
    /\ Popping
    /\ IF Front(queue).key
       THEN run' = "greet" /\ fp_pkt' = Front(queue)
       ELSE UNCHANGED << run, fp_pkt >>
    /\ UNCHANGED << result, screen_off, finish, peer, encVars, fp, fp_notified,
                    tpVars, rlVars, writer, idrVars, wireVars >>

(* Fault: the queue is closed and the thread is not told.                   *)
CloseQueueOnly == queue' = Close(queue) /\ UNCHANGED stop

(* Drop for Pipeline, or Pipeline::stop: raise the flag, close the queue;   *)
(* what follows joins the thread.                                           *)
StopPipeline == stop' = TRUE /\ queue' = Close(queue)

(* Fault: an early return that leaves the thread running.                   *)
FailWithoutStop ==
    /\ ~screen_off /\ run \in WithEngine
    /\ run' = "done" /\ result' = "err"
    /\ UNCHANGED << screen_off, finish, peer, encVars, queueVars, fpVars, tpVars,
                    rlVars, writer, idrVars, wireVars >>

(* The injector fails, the keyframe does not come within five seconds, it   *)
(* has no parameter sets, or a greeting write fails: `?' drops the Engine.  *)
FailWithEngine ==
    /\ ~screen_off /\ run \in WithEngine
    /\ run' = "engine_join" /\ result' = "err"
    /\ StopPipeline
    /\ UNCHANGED << screen_off, finish, peer, enc, force_idr, frames, encoding,
                    popped, first_pop, fpVars, tpVars, rlVars, writer, idrVars, wireVars >>

(* The deadline of wait_for_keyframe, which passes whatever the encoder     *)
(* does: the loop looks at the clock after every pop.                       *)
KeyframeTimeout == run = "wait_for_keyframe" /\ FailWithEngine

(* HELLO_PC, CLIENT_CONFIG, VIDEO_CONFIG and the keyframe, then the tasks   *)
(* are spawned.  Nobody else can write yet, so the writes are one step.     *)
(* The screen-off session sends no video and spawns only the read loop.     *)
Greet ==
    /\ peer = "up"
    /\ RunGoes("greet", "live")
    /\ rl' = "wait"
    /\ IF screen_off
       THEN UNCHANGED << fpVars, tp, sent >>
       ELSE /\ sent' = Append(sent, fp_pkt)
            /\ fp' = "popping" /\ fp_pkt' = NoPacket
            /\ tp' = "wait"
            /\ UNCHANGED fp_notified
    /\ UNCHANGED << result, screen_off, finish, peer, encVars, queueVars,
                    tp_notified, telemetry, time_sync, rl_abort, writer, idrVars,
                    goodbye >>

-----------------------------------------------------------------------------
(* The live phase: select! over the read loop, the IDR channel and finish.  *)

(* stop.notify_waiters(): only futures that exist now are woken, that is    *)
(* pumps inside their select!; it leaves no permit for the others.          *)
NotifyWaiters ==
    /\ fp_notified' = (fp \in FpSelecting)
    /\ tp_notified' = (tp = "wait")

AfterLive == IF screen_off THEN "goodbye_lock" ELSE "join_frame_pump"

(* The read loop ended; its result is the session's.                        *)
DispatchDone ==
    /\ run = "live" /\ rl \in {"ok", "err"}
    /\ run' = AfterLive /\ result' = rl
    /\ NotifyWaiters
    /\ UNCHANGED << screen_off, finish, peer, encVars, queueVars, fp,
                    fp_pkt, tp, telemetry, rlVars, writer, idrVars, wireVars >>

(* Fault: the read loop is left running.                                    *)
FinishLeavesReader ==
    /\ run = "live" /\ finish
    /\ run' = AfterLive /\ result' = "ok"
    /\ NotifyWaiters
    /\ UNCHANGED << screen_off, finish, peer, encVars, queueVars, fp, fp_pkt, tp,
                    telemetry, rlVars, writer, idrVars, wireVars >>

(* The future of the read loop is dropped where it waits, and with it a     *)
(* writer guard it holds.                                                   *)
DropReadLoop ==
    /\ rl' = "aborted"
    /\ writer' = IF writer = "read_loop" THEN "none" ELSE writer

(* finish.  dispatch.abort() only asks the runtime to drop the task, and    *)
(* nobody awaits it: see ReadLoopAborted.  The screen-off session polls the *)
(* read loop in its own select!, which drops it on the spot.                *)
Finish ==
    /\ run = "live" /\ finish
    /\ run' = AfterLive /\ result' = "ok"
    /\ IF screen_off
       THEN DropReadLoop /\ UNCHANGED rl_abort
       ELSE rl_abort' = TRUE /\ UNCHANGED << rl, writer >>
    /\ NotifyWaiters
    /\ UNCHANGED << screen_off, finish, peer, encVars, queueVars, fp, fp_pkt, tp,
                    telemetry, time_sync, idrVars, wireVars >>

(* engine.request_idr() for one entry of the channel.  The screen-off       *)
(* session never receives from it.                                          *)
RelayIdr ==
    /\ run = "live" /\ ~screen_off /\ idr_chan > 0
    /\ idr_chan' = idr_chan - 1
    /\ idr_request' = TRUE
    /\ idr_owed' = TRUE
    /\ UNCHANGED << runVars, encVars, queueVars, fpVars, tpVars, rlVars, writer,
                    idr_sent, wireVars >>

(* timeout(500 ms, pump): the task may or may not have ended.               *)
JoinFramePump ==
    /\ RunGoes("join_frame_pump", "join_telemetry_pump")
    /\ UNCHANGED << result, screen_off, finish, peer, encVars, queueVars, fpVars,
                    tpVars, rlVars, writer, idrVars, wireVars >>

JoinTelemetryPump ==
    /\ RunGoes("join_telemetry_pump", "goodbye_lock")
    /\ UNCHANGED << result, screen_off, finish, peer, encVars, queueVars, fpVars,
                    tpVars, rlVars, writer, idrVars, wireVars >>

LockForGoodbye ==
    /\ RunGoes("goodbye_lock", "goodbye_write")
    /\ writer = "none" /\ writer' = "run"
    /\ UNCHANGED << result, screen_off, finish, peer, encVars, queueVars, fpVars,
                    tpVars, rlVars, idrVars, wireVars >>

(* A failed write is ignored.                                               *)
WriteGoodbye ==
    /\ peer # "stalled"
    /\ RunGoes("goodbye_write", IF screen_off THEN "done" ELSE "engine_stop")
    /\ writer' = "none"
    /\ goodbye' = (peer = "up")
    /\ UNCHANGED << result, screen_off, finish, peer, encVars, queueVars, fpVars,
                    tpVars, rlVars, idrVars, sent >>

StopEngine ==
    /\ RunGoes("engine_stop", "engine_join")
    /\ StopPipeline
    /\ UNCHANGED << result, screen_off, finish, peer, enc, force_idr, frames, encoding,
                    popped, first_pop, fpVars, tpVars, rlVars, writer, idrVars, wireVars >>

JoinEngine ==
    /\ RunGoes("engine_join", "done")
    /\ enc \in {"dead", "exited"}
    /\ UNCHANGED << result, screen_off, finish, peer, encVars, queueVars, fpVars,
                    tpVars, rlVars, writer, idrVars, wireVars >>

-----------------------------------------------------------------------------
(* The encode thread: LoopState::run and tick.                              *)

ExitLoop ==
    /\ enc = "top" /\ stop
    /\ enc' = "exited"
    /\ UNCHANGED << runVars, force_idr, stop, frames, encoding, queueVars, fpVars,
                    tpVars, rlVars, writer, idrVars, wireVars >>

(* idr_request.swap(false), then the blocking AcquireNextFrame.             *)
BeginTick ==
    /\ enc = "top" /\ ~stop /\ frames < MaxFrames
    /\ enc' = "tick"
    /\ force_idr' = idr_request
    /\ idr_request' = FALSE
    /\ UNCHANGED << runVars, stop, frames, encoding, queueVars, fpVars, tpVars,
                    rlVars, writer, idr_chan, idr_sent, idr_owed, wireVars >>

(* The encoder as the pipeline sees it: one packet per frame, in order, a   *)
(* keyframe at the start of each group of pictures and whenever forced.     *)
Encoded(n, forced) == [seq |-> n + 1, key |-> forced \/ n % Gop = 0]

(* Fault: the flag is cleared with a store once the frame is submitted.     *)
SubmitClearsFlag ==
    /\ enc = "tick"
    /\ enc' = "drain"
    /\ frames' = frames + 1
    /\ encoding' = Append(encoding, Encoded(frames, force_idr))
    /\ idr_request' = FALSE
    /\ idr_owed' = (idr_owed /\ ~Encoded(frames, force_idr).key)
    /\ UNCHANGED << runVars, force_idr, stop, queueVars, fpVars, tpVars, rlVars,
                    writer, idr_chan, idr_sent, wireVars >>

(* A new texture, or the keepalive one when there is none (a timeout, or a  *)
(* duplication that was lost and re-created), is converted and submitted.   *)
SubmitFrame ==
    /\ enc = "tick"
    /\ enc' = "drain"
    /\ frames' = frames + 1
    /\ encoding' = Append(encoding, Encoded(frames, force_idr))
    /\ idr_owed' = (idr_owed /\ ~Encoded(frames, force_idr).key)
    /\ UNCHANGED << runVars, force_idr, stop, queueVars, fpVars, tpVars, rlVars,
                    writer, idr_request, idr_chan, idr_sent, wireVars >>

(* try_packet returned a packet: push it, whatever `stop' says by now.      *)
PushPacket ==
    /\ enc = "drain" /\ encoding # << >>
    /\ encoding' = Tail(encoding)
    /\ queue' = Push(queue, Head(encoding))
    /\ UNCHANGED << runVars, enc, force_idr, stop, frames, popped, first_pop, fpVars,
                    tpVars, rlVars, writer, idrVars, wireVars >>

(* try_packet returned nothing; the encoder may still hold a few frames.    *)
EndTick ==
    /\ enc = "drain" /\ Len(encoding) <= EncoderDepth
    /\ enc' = "top"
    /\ UNCHANGED << runVars, force_idr, stop, frames, encoding, queueVars, fpVars,
                    tpVars, rlVars, writer, idrVars, wireVars >>

(* An error anywhere in a tick ends the thread.  Nothing is told: the queue *)
(* stays open and the JoinHandle is only looked at by Pipeline::stop.       *)
FailTick ==
    /\ enc \in {"tick", "drain"}
    /\ enc' = "dead"
    /\ UNCHANGED << runVars, force_idr, stop, frames, encoding, queueVars, fpVars,
                    tpVars, rlVars, writer, idrVars, wireVars >>

-----------------------------------------------------------------------------
(* frame_pump.  In its select! a blocking thread pops for at most 200 ms.   *)

PumpPopped ==
    /\ fp = "popping"
    /\ Popping
    /\ fp' = "popped" /\ fp_pkt' = Front(queue)
    /\ UNCHANGED << runVars, encVars, fp_notified, tpVars, rlVars, writer, idrVars,
                    wireVars >>

(* Nothing came within the timeout, or the queue is closed and empty.       *)
PumpEmpty ==
    /\ fp = "popping" /\ ~Poppable(queue)
    /\ fp' = "empty"
    /\ UNCHANGED << runVars, encVars, queueVars, fp_pkt, fp_notified, tpVars, rlVars,
                    writer, idrVars, wireVars >>

(* The pop arm wins, which drops the Notified future with whatever it       *)
(* holds: the next turn waits on a fresh one.                               *)
PumpPopArm ==
    /\ fp \in {"popped", "empty"}
    /\ fp' = IF fp = "popped" THEN "lock" ELSE "popping"
    /\ fp_notified' = FALSE
    /\ UNCHANGED << runVars, encVars, queueVars, fp_pkt, tpVars, rlVars, writer,
                    idrVars, wireVars >>

(* The stop arm returns; the blocking pop it was racing is left behind.     *)
PumpStopArm ==
    /\ fp \in FpSelecting /\ fp_notified
    /\ fp' = IF fp = "popping" THEN "left" ELSE "done"
    /\ fp_pkt' = NoPacket
    /\ UNCHANGED << runVars, encVars, queueVars, fp_notified, tpVars, rlVars,
                    writer, idrVars, wireVars >>

(* That pop still takes a packet, and nobody gets it.                       *)
LeftPopEnds ==
    /\ fp = "left" /\ fp' = "done"
    /\ IF Poppable(queue) THEN Popping ELSE UNCHANGED queueVars
    /\ UNCHANGED << runVars, encVars, fp_pkt, fp_notified, tpVars, rlVars, writer,
                    idrVars, wireVars >>

PumpLock ==
    /\ fp = "lock" /\ fp' = "write"
    /\ writer = "none" /\ writer' = "frame_pump"
    /\ UNCHANGED << runVars, encVars, queueVars, fp_pkt, fp_notified, tpVars, rlVars,
                    idrVars, wireVars >>

(* The write, and for a large P-frame a recovery request (`large' is        *)
(* coded_len >= motion_idr_threshold_bytes after motion_idr_min_interval).  *)
PumpWrite(large) ==
    /\ fp = "write" /\ peer = "up"
    /\ large => ~fp_pkt.key /\ idr_sent < MaxIdrRequests
    /\ fp' = "popping"
    /\ writer' = "none"
    /\ sent' = Append(sent, fp_pkt)
    /\ fp_pkt' = NoPacket
    /\ idr_chan' = IF large THEN idr_chan + 1 ELSE idr_chan
    /\ idr_sent' = IF large THEN idr_sent + 1 ELSE idr_sent
    /\ UNCHANGED << runVars, encVars, queueVars, fp_notified, tpVars, rlVars,
                    idr_request, idr_owed, goodbye >>

PumpWriteFails ==
    /\ fp = "write" /\ peer = "gone"
    /\ fp' = "done" /\ fp_pkt' = NoPacket
    /\ writer' = "none"
    /\ UNCHANGED << runVars, encVars, queueVars, fp_notified, tpVars, rlVars,
                    idrVars, wireVars >>

-----------------------------------------------------------------------------
(* telemetry_pump: one message a second.                                    *)

TelemetryTick ==
    /\ tp = "wait" /\ telemetry < MaxTelemetry
    /\ tp' = "lock" /\ tp_notified' = FALSE
    /\ telemetry' = telemetry + 1
    /\ UNCHANGED << runVars, encVars, queueVars, fpVars, rlVars, writer, idrVars,
                    wireVars >>

TelemetryStopArm ==
    /\ tp = "wait" /\ tp_notified
    /\ tp' = "done"
    /\ UNCHANGED << runVars, encVars, queueVars, fpVars, tp_notified, telemetry,
                    rlVars, writer, idrVars, wireVars >>

TelemetryLock ==
    /\ tp = "lock" /\ tp' = "write"
    /\ writer = "none" /\ writer' = "telemetry_pump"
    /\ UNCHANGED << runVars, encVars, queueVars, fpVars, tp_notified, telemetry,
                    rlVars, idrVars, wireVars >>

TelemetryWrite ==
    /\ tp = "write" /\ peer # "stalled"
    /\ tp' = IF peer = "up" THEN "wait" ELSE "done"
    /\ writer' = "none"
    /\ UNCHANGED << runVars, encVars, queueVars, fpVars, tp_notified, telemetry,
                    rlVars, idrVars, wireVars >>

-----------------------------------------------------------------------------
(* read_loop.  Pen and touch messages go to the injector and change nothing *)
(* here.                                                                    *)

(* MSG_REQUEST_IDR.                                                         *)
ReadRequestIdr ==
    /\ rl = "wait" /\ peer # "gone" /\ idr_sent < MaxIdrRequests
    /\ idr_chan' = idr_chan + 1 /\ idr_sent' = idr_sent + 1
    /\ UNCHANGED << runVars, encVars, queueVars, fpVars, tpVars, rlVars, writer,
                    idr_request, idr_owed, wireVars >>

(* MSG_TIME_SYNC_REQ, answered under the writer lock.                       *)
ReadTimeSync ==
    /\ rl = "wait" /\ peer # "gone" /\ time_sync < MaxTimeSync
    /\ rl' = "lock" /\ time_sync' = time_sync + 1
    /\ UNCHANGED << runVars, encVars, queueVars, fpVars, tpVars, rl_abort, writer, idrVars,
                    wireVars >>

ReplyLock ==
    /\ rl = "lock" /\ rl' = "write"
    /\ writer = "none" /\ writer' = "read_loop"
    /\ UNCHANGED << runVars, encVars, queueVars, fpVars, tpVars, time_sync, rl_abort, idrVars,
                    wireVars >>

(* A failed reply ends the loop with Ok.                                    *)
ReplyWrite ==
    /\ rl = "write" /\ peer # "stalled"
    /\ rl' = IF peer = "up" THEN "wait" ELSE "ok"
    /\ writer' = "none"
    /\ UNCHANGED << runVars, encVars, queueVars, fpVars, tpVars, time_sync, rl_abort, idrVars,
                    wireVars >>

(* The runtime gets to the abort: at the latest at its next .await the task *)
(* is dropped, wherever it is.  Until then it runs on, and may handle a     *)
(* message it is in the middle of.                                          *)
ReadLoopAborted ==
    /\ rl_abort /\ rl \notin RlEnded
    /\ DropReadLoop
    /\ UNCHANGED << runVars, encVars, queueVars, fpVars, tpVars, time_sync,
                    rl_abort, idrVars, wireVars >>

(* The optional periodic_idr task; it is aborted when the live phase ends   *)
(* (what it still sends then is received by nobody), or ends itself when    *)
(* the receiver is gone.                                                    *)
PeriodicIdr ==
    /\ run = "live" /\ ~screen_off /\ idr_sent < MaxIdrRequests
    /\ idr_chan' = idr_chan + 1 /\ idr_sent' = idr_sent + 1
    /\ UNCHANGED << runVars, encVars, queueVars, fpVars, tpVars, rlVars, writer,
                    idr_request, idr_owed, wireVars >>

(* ANDROID_GOODBYE, EOF and ConnectionReset end the loop with Ok; any other *)
(* I/O or decode error with Err.                                            *)
ReadEnds(res) ==
    /\ rl = "wait"
    /\ rl' = res
    /\ UNCHANGED << runVars, encVars, queueVars, fpVars, tpVars, time_sync, rl_abort, writer,
                    idrVars, wireVars >>

-----------------------------------------------------------------------------
(* The caller (GUI service) and the client.                                 *)

CallerFinish ==
    /\ ~finish /\ finish' = TRUE
    /\ UNCHANGED << run, result, screen_off, peer, encVars, queueVars, fpVars, tpVars,
                    rlVars, writer, idrVars, wireVars >>

(* Three seconds after finish the caller drops the future of Session::run   *)
(* where it awaits.  (In the live phase the finish arm comes first; from    *)
(* the goodbye to the end of Engine::stop there is no .await.)  Dropping    *)
(* the Engine stops its thread; the pumps are detached.                     *)
DropPoints == {"accept", "hello", "vdd", "wait_for_keyframe", "greet",
               "join_frame_pump", "join_telemetry_pump", "goodbye_lock",
               "goodbye_write"}

CallerDrops ==
    /\ finish /\ run \in DropPoints
    /\ result' = "dropped"
    /\ writer' = IF writer = "run" THEN "none" ELSE writer
    /\ IF screen_off \/ run \in BeforeEngine
       THEN run' = "done" /\ UNCHANGED << stop, queue >>
       ELSE run' = "engine_join" /\ StopPipeline
    /\ UNCHANGED << screen_off, finish, peer, enc, force_idr, frames, encoding,
                    popped, first_pop, fpVars, tpVars, rlVars, idrVars, wireVars >>

PeerStalls ==
    /\ run # "accept" /\ peer = "up" /\ peer' = "stalled"
    /\ UNCHANGED << run, result, screen_off, finish, encVars, queueVars, fpVars,
                    tpVars, rlVars, writer, idrVars, wireVars >>

PeerGone ==
    /\ run # "accept" /\ peer # "gone" /\ peer' = "gone"
    /\ UNCHANGED << run, result, screen_off, finish, encVars, queueVars, fpVars,
                    tpVars, rlVars, writer, idrVars, wireVars >>

-----------------------------------------------------------------------------
RunTask ==
    \/ Accept \/ ReadHello \/ EnableVdd \/ FailEarly \/ StartEngine
    \/ BuildInjector \/ WaitForKeyframe \/ FailWithEngine \/ Greet
    \/ DispatchDone \/ Finish \/ RelayIdr
    \/ JoinFramePump \/ JoinTelemetryPump \/ LockForGoodbye \/ WriteGoodbye
    \/ StopEngine \/ JoinEngine

EncodeThread ==
    ExitLoop \/ BeginTick \/ SubmitFrame \/ PushPacket \/ EndTick \/ FailTick

FramePump ==
    \/ PumpPopped \/ PumpEmpty \/ PumpPopArm \/ PumpStopArm \/ LeftPopEnds
    \/ PumpLock
    \/ \E large \in BOOLEAN : PumpWrite(large)
    \/ PumpWriteFails

TelemetryPump ==
    TelemetryTick \/ TelemetryStopArm \/ TelemetryLock \/ TelemetryWrite

ReadLoop ==
    \/ ReadRequestIdr \/ ReadTimeSync \/ ReplyLock \/ ReplyWrite
    \/ \E res \in {"ok", "err"} : ReadEnds(res)
    \/ ReadLoopAborted

(* The session is over: what is left may idle.                              *)
Terminated == run = "done" /\ UNCHANGED vars

Next ==
    \/ RunTask \/ EncodeThread \/ FramePump \/ TelemetryPump \/ ReadLoop
    \/ PeriodicIdr \/ CallerFinish \/ CallerDrops \/ PeerStalls \/ PeerGone
    \/ Terminated

(* Tasks the runtime polls and threads the OS schedules make progress; a    *)
(* locked write completes or fails; the writer mutex is fair (tokio's is    *)
(* FIFO), hence SF on taking it.  Nothing obliges the client to connect, to *)
(* speak or to leave, the caller to finish, or a step to fail, except by    *)
(* the deadlines: five seconds in wait_for_keyframe, and the drop by a      *)
(* caller that did send finish.                                             *)
RunSteps ==
    \/ ReadHello \/ EnableVdd \/ StartEngine \/ BuildInjector \/ WaitForKeyframe
    \/ Greet \/ DispatchDone \/ Finish \/ JoinFramePump \/ JoinTelemetryPump
    \/ WriteGoodbye \/ StopEngine \/ JoinEngine

EncodeSteps == ExitLoop \/ BeginTick \/ SubmitFrame \/ PushPacket \/ EndTick

Fairness ==
    /\ WF_vars(RunSteps) /\ WF_vars(KeyframeTimeout) /\ WF_vars(CallerDrops)
    /\ WF_vars(RelayIdr) /\ SF_vars(LockForGoodbye)
    /\ WF_vars(EncodeSteps)
    /\ WF_vars(PumpPopped \/ PumpEmpty \/ PumpPopArm \/ LeftPopEnds)
    /\ WF_vars(PumpStopArm) /\ SF_vars(PumpLock)
    /\ WF_vars(PumpWriteFails \/ \E large \in BOOLEAN : PumpWrite(large))
    /\ SF_vars(TelemetryLock) /\ WF_vars(TelemetryWrite \/ TelemetryStopArm)
    /\ SF_vars(ReplyLock) /\ WF_vars(ReplyWrite) /\ WF_vars(ReadLoopAborted)

Spec == Init /\ [][Next]_vars /\ Fairness

-----------------------------------------------------------------------------
(* Properties.                                                              *)

(* The queue holds exactly the newest packets, in the order they were       *)
(* encoded: overflow sheds the oldest and never tears a hole in the middle  *)
(* (PacketQueue::push, "drops the OLDEST packet to make room").  Once       *)
(* closed, what remains is still a run of consecutive packets.              *)
QueueIsNewestWindow ==
    /\ \A i, j \in DOMAIN queue.deque :
           queue.deque[j].seq - queue.deque[i].seq = j - i
    /\ ~queue.closed /\ queue.deque # << >> =>
           queue.deque[Len(queue.deque)].seq = frames - Len(encoding)
    /\ Len(queue.deque) <= EffectiveCapacity

(* Every encoded packet is in the queue, was handed to the session, or is   *)
(* counted in dropped_overflow: the telemetry figure tells the truth.       *)
PacketsAccounted ==
    ~queue.closed =>
        frames = popped + Len(queue.deque) + queue.dropped_overflow + Len(encoding)

(* The client sees each frame at most once and never an older one after a   *)
(* newer one, whatever the overflow, the two popping tasks and the blocking *)
(* pop left behind by a select! do.                                         *)
WireInOrder ==
    \A i, j \in DOMAIN sent : i < j => sent[i].seq < sent[j].seq

(* The stream the client decodes starts with a keyframe even when packets   *)
(* were lost before the session took the first one (wait_for_keyframe).     *)
StreamStartsWithKeyframe == sent # << >> => sent[1].key

(* When Session::run has returned, by whatever path, no encode thread is    *)
(* left running (Engine::stop, Drop for Pipeline).                          *)
EngineReaped == run = "done" => ~EncAlive

(* A session that went live and still has its client says PC_GOODBYE before *)
(* it returns; without it the tablet sits on a socket adb never closes.     *)
LiveSessionSaysGoodbye ==
    run = "done" /\ sent # << >> /\ result = "ok" => goodbye \/ peer = "gone"

(* An IDR request that reached the engine is never lost: until a keyframe   *)
(* was submitted after it, the flag is still up or the tick in progress has *)
(* taken it, even when the request arrived in the middle of a tick          *)
(* (idr_request.swap).                                                      *)
IdrNotLost ==
    idr_owed /\ EncAlive => idr_request \/ (enc = "tick" /\ force_idr)

(* Pause always ends the session, wherever it is and even when the client   *)
(* has stopped reading: finish, or the drop that follows it, gets through,  *)
(* and the join of the encode thread comes to an end.                       *)
PauseEndsSession == finish ~> run = "done"

(* The end of the read loop ends a live session: nobody waits for ever on   *)
(* the writer mutex, the queue or the thread, unless the client keeps its   *)
(* socket open and does not read (the goodbye has no timeout of its own).   *)
SessionWrapsUp ==
    run = "live" /\ rl \in RlEnded ~> run = "done" \/ peer = "stalled"

(* No read loop outlives Session::run for good, dropped or not: after Pause *)
(* input from the client comes to an end (service.rs:126, "Cancels any      *)
(* in-flight session as well"), though abort() is asynchronous and a        *)
(* message in the middle of a poll may still be injected.                   *)
InputStopsWithSession == run = "done" ~> rl \in RlEnded \cup {"off"}

(* What the abort rests on: outside the live phase every read loop that has *)
(* not ended has been told to.                                              *)
ReaderIsTold ==
    run \in Ending \cup {"done"} => rl \in RlEnded \cup {"off"} \/ rl_abort

(* The two things Session::run waits for without a timeout of its own.  The *)
(* writer mutex belongs to nobody but a task inside its write, also after   *)
(* the read loop was aborted or the future dropped with the guard in hand,  *)
(* so only a client that does not read can hold up the goodbye              *)
(* (session.rs:682).                                                        *)
WriterIsWriting ==
    /\ writer = "run" <=> run = "goodbye_write"
    /\ writer = "frame_pump" <=> fp = "write"
    /\ writer = "telemetry_pump" <=> tp = "write"
    /\ writer = "read_loop" <=> rl = "write"

(* And the thread that Engine::stop or Drop joins exists, has been told to  *)
(* stop and cannot be waiting for room or packets (pipeline.rs, stop).      *)
JoinedThreadIsTold == run = "engine_join" => enc # "off" /\ stop /\ queue.closed

(* session.rs:517 of the wait for the first keyframe: "The engine just      *)
(* started; first packet is the IDR."                                       *)
FirstPacketIsIdr == popped > 0 => first_pop.key

(* docs/design.md, section 9: "on any irrecoverable error the orchestrator  *)
(* tears down both the engine and the transport".  An encode thread that    *)
(* died ends a live session, also when the client stays connected and reads. *)
EncoderFailureEndsSession ==
    run = "live" /\ enc = "dead" ~> run = "done" \/ peer # "up"

(* session.rs:285: on finish "the session wraps up cleanly".  The frame     *)
(* pump ends once the session has returned and its client reads or is gone. *)
FramePumpEnds ==
    run = "done" ~> fp \in {"off", "done"} \/ peer = "stalled"

=============================================================================
