# A TLA+ model of penflow

penflow turns an Android tablet into a pen display for a Windows PC. The PC
captures a (virtual) monitor, encodes it, and sends it to the tablet through
`adb reverse`; pen and touch events travel the other way and are injected into
Windows. This directory holds TLA+ specifications of the parts whose difficulty
is in their control, TLC configurations that check them, and TLAPS proofs.

## 1. The system

| Component | State it keeps | Operations | Talks to |
|---|---|---|---|
| packet queue (`packet_queue.rs`) | deque, capacity, closed, dropped_overflow | push, pop_timeout, close | encode thread, session |
| encode pipeline (`pipeline.rs`) | stop and IDR flags, keepalive texture, thread | start, tick, request_idr, stop, Drop | capture, encoder, queue |
| Media Foundation encoder (`encoder/mf.rs`) | event credits, FIFO of frame metadata | submit_frame, try_packet | pipeline |
| session (`session.rs`) | sockets, writer mutex, IDR channel, Notify, four tasks | run, run_screen_off, frame_pump, telemetry_pump, read_loop | engine, injector, VDD, transport |
| virtual display control (`vdd.rs`) | helper process, named events, device state | detect, enable, disable, shutdown, Drop | session, elevated helper |
| injector (`inject/`) | last pen range, tool and buttons, held keys, touch snapshot | inject_pen, inject_touch, set_pen_profile | read loop, Windows |
| adb transport (`adb.rs`) | listener, reverse rule on the tablet | bind_with_adb, accept, shutdown, Drop | service, session |
| GUI service (`service.rs`) | task, cancel sender, last_state under a mutex | start, stop, emit, run_accept_loop | transport, session, UI |
| Android client (`PenflowClient.kt`) | socket, jobs, receive samples | connect, readLoop, send loops, disconnect | decoder, HUD |
| Android decoder (`VideoDecoder.kt`) | pending frames, parked buffers, keyframe flags | feed, codec callbacks, stop | MediaCodec |
| SPS patcher (`encoder/sps_patcher.rs`) | none | patch_packet_for_low_latency_dpb | encoder |
| wire protocol (`penflow-protocol`, `Protocol.kt`) | none | encode and decode of each message, framing, csd extraction | session, Android client |
| clock offset (`TimeSync.kt`) | samples of the last window | observe, reset | Android client, HUD |
| pen and touch capture (`PenInputCapture.kt`, `TouchInputCapture.kt`) | last raw buttons, last lift | consume | activity, Android client |
| HUD, settings, tray, React UI | — | — | — |

What is hard about it:

* **Concurrency.** A session is a task, an OS thread and three spawned tasks
  that share a queue, a flag, a channel, a mutex and a `Notify`. The decoder is
  fed by two threads that decide under a lock and act outside it. The service
  waits for its own loop while it holds a mutex the loop needs.
* **Ends.** A session ends because the client leaves, a step fails, the user
  pauses, or the caller loses patience and drops the future in the middle.
* **Timeouts.** 500 ms joins, 2 s removals, a 3 s finish and a 10 s stop each
  leave something running behind them.
* **Loss.** The queue drops packets, MediaCodec elides outputs, an MFT may skip a
  frame, and `adb reverse` does not tell the other side that a socket is closed.
* **Processes.** The virtual display is switched by elevated helpers that may be
  refused, be slow, or outlive the app they serve.
* **Bits.** Parameter sets are rewritten element by element, and every message is
  encoded by one program and decoded by another.

What makes each part correct: the queue keeps the newest packets and accounts
for the rest; the client sees a stream that begins with a keyframe and is in
order; a keyframe request is not lost; whatever ends a session, its thread and
its readers end and the tablet is told; the service has one loop in charge and
its label is true; MediaCodec gets every frame once, in order, with its flag;
a latency is computed from the frame's own sample; no key, pen contact or
finger stays down in Windows that the tablet has let go of; a display that was
enabled has someone who will disable it, and nobody else does; packets keep the
time stamps of their frames; the tablet's app keeps trying to connect and its
messages stay whole; a rewritten SPS differs only where it should.

## 2. The modules

| Module | Models | Extends |
|---|---|---|
| `PacketQueue` | the queue's methods as operators from queue to queue | |
| `StreamSession` | `Session::run` and `run_screen_off`, their tasks, the encode thread | `PacketQueue` |
| `GuiService` | `Service` and its accept loops, the adb rule, the session as the loop sees it | |
| `VideoDecoder` | `VideoDecoder.kt` and the sample matching of `PenflowClient.kt` | |
| `MCVideoDecoder` | the four-frame stream TLC uses | `VideoDecoder` |
| `PenInjector` | `win_ink.rs`: pen, buttons, touch, profiles | |
| `MCPenInjector` | the three button profiles TLC uses | `PenInjector` |
| `VddController`, `MCVddController` | `vdd.rs`: app, helpers and devices, with the launch of `main.rs` | |
| `MfEncoder`, `MCMfEncoder` | `mf.rs` and the MFT behind it | |
| `EncoderContract` | what the pipeline relies on; `MfEncoder` instantiates it | |
| `AndroidClient` | `PenflowClient.kt` under the life cycle of `MainActivity.kt` | |
| `InputCapture` | `PenInputCapture.kt`, `TouchInputCapture.kt`, and what `read_loop` takes from their messages | |
| `AnnexB` | NAL units, emulation prevention, Exp-Golomb elements | |
| `SpsSyntax` | the SPS syntax tables of H.264 and H.265: the reference | |
| `SpsPatcher` | the rewriters of `sps_patcher.rs` | `SpsSyntax` |
| `WireProtocol` | layouts of the messages in both languages | |
| `Framing` | one direction of a connection in bytes: a sender, a goodbye, a reader | |
| `TimeSync` | `TimeSync.kt` and one exchange with its waits | |
| `ClockSync` | the estimator at work: exchanges one after the other, reconnects | `TimeSync` |
| `DataPath`, `MCDataPath` | the algorithms applied to one input each, next to their references; the two machines at work | the modules from `AnnexB` on |
| `StreamSessionProofs`, `VideoDecoderProofs`, `PenInjectorProofs`, `MfEncoderProofs`, `GuiServiceProofs`, `AndroidClientProofs`, `InputCaptureProofs`, `VddControllerProofs` | theorems; those about `Framing` and `ClockSync` are in `AndroidClientProofs` | the module they are about, `TLAPS` |

In each module the definitions introduced by a comment "Fault:" are plausible
mistakes in the action that follows them. They are not part of the
specification; substituting one for its original must break a property, which is
how we know that the property depends on the code.

### StreamSession

A point where an actor waits (an `.await`, a lock, a blocking call) is a state of
that actor: `run` for the task in `Session::run`, `enc` for the encode thread,
`fp`, `tp`, `rl` for `frame_pump`, `telemetry_pump`, `read_loop`. What the code
does between two such points is one action. A few correspondences:

* `select!` in `frame_pump` (926): while the pump is in `popping`, `popped` or
  `empty` the `Notified` future exists, so `NotifyWaiters` reaches it; in `lock`
  and `write` it does not. A select whose stop arm wins leaves its blocking pop
  behind (`left`), and that pop may still take a packet.
* `?` after the engine has started drops it: `FailWithEngine` raises the stop
  flag, closes the queue and goes on to the join, as `Drop for Pipeline` does.
* The GUI drops the session's future three seconds after `finish`
  (`CallerDrops`); `DropPoints` lists the points at which the code awaits.
* `dispatch.abort()` (667) only asks the runtime to drop the read loop, and nobody
  awaits it: `Finish` sets `rl_abort`, and `ReadLoopAborted` comes later, perhaps
  after the end of `run`. Until then the loop goes on. In `run_screen_off` the loop is
  polled by the session's own `select!` and dropped with it (`DropReadLoop`).
* The 5 s deadline of `wait_for_keyframe` is an action of its own (`KeyframeTimeout`).
* `idr_owed` is a history variable: a request was relayed and no keyframe has
  been submitted since. `popped` and `first_pop` are history too.
* The encoder is its contract: one packet per frame, in order, a keyframe every
  `Gop` frames and when forced; it may still hold `EncoderDepth` packets when a
  tick ends. `MfEncoder` shows what of this `mf.rs` keeps; a `ForceKeyFrame` that
  fails (mf.rs:447) is outside of both models.
* Pen and touch messages do not change the state of a session; the time between
  frames, telemetry figures and message bytes are left out.

### GuiService

`stop` holds `inner` for as long as it waits for the loop, so "the mutex is
free" is `waiting = 0`; `start` and `emit` hold it for one step. A stop that
gives up clears `waiting` and leaves its loop running, hence several loops with
`MaxLoops`. `rule` says where `localabstract:penflow` on the tablet leads. The status of
`adb reverse --remove` is ignored, so a removal may leave the rule where it is; one that
outlives its two seconds is in `late` and takes effect at any later time. `abandoned`
remembers that a stop gave up, `struck` that a late removal took effect after the last
bind: the only two things `ListeningIsReachable` exempts. A pending `accept` holds the
mutex of the
listener (`sess = "accept"`), so a listener is gone only when the session's future is.

### VideoDecoder

The state under `lock` has the source's names. Entering `feedBuffer`, taking the
flag under the second lock and `queueInputBuffer` are separate steps of each
thread. MediaCodec (external) consumes inputs in order, gives their buffers back
and may show an output or not. A pts is a number of nanoseconds and the division
by 1000 is kept, since two properties are about it. The HUD is taken to be on
(without it no sample is kept).

### PenInjector

A pen or touch message is handled under one mutex, but the handler is a series
of calls into Windows, and a call that fails leaves by `?` with everything before
it done. So `inject_pen` is `ReadPen` (which lists the `SendInput` calls
`dispatch_pen_buttons` will make), one `SendCall` or `SendFails` for each,
`Dispatched`, perhaps `FlushOldTool`, and `WritePen` or `WriteFails`. `last_pen`
bundles `last_pen_in_range`, `last_pen_in_contact` and `last_pen_eraser`.
`keys_down`, `os_pen` and `os_touch` are what Windows has been told; `Expected`
says which transition bits it wants next and is external, from the comments and
unit tests of `pen_pointer_flags` and from the Win32 contract they cite. `misfit`
remembers that a frame did not have them. A mouse button counts as a key.

### VddController

The app is one process with a program counter (`pc`), the elevated processes are
a sequence of records, each with its two events and its exit code. `status` is
the device as Windows has it, "problem" a device that is enabled and does not
start. A controller lives from `BeginSession` to the end of `disable`, so
`Drop for VddController` is the end of every path that leaves `enable` or the
session. Waits with a timeout have two exits; `Faults` chooses which failures
the environment may produce: a refused prompt, devcon failing or doing nothing, a
driver that does not start, slowness, and the death of app or helper. SetupAPI,
devcon, UAC and the named events are external.

### MfEncoder and EncoderContract

A call into the session is a series of reads of the MFT's event queue, and the MFT
acts between any two. `held` is `have_need_input_credit`. The number of a frame
stands for its pts, so a packet is `[frame, pts]` and pairing by position is visible.
`EncoderContract` has the two operations the pipeline sees; its state is mapped by
`pending <- pts of the collected packets, then meta`, and `ImplementsContract` says
that every step of the session and of the MFT is a step or a stutter of it. A
frame the MFT takes and never emits (`MftSkips`), or whose output it announces and does
not hand over (`GetNoSample`), does not break the contract, since time stamps
still leave in order; `MetaFollowsFrames` says by how much they are then wrong.

### AndroidClient

One variable per field of the class that several threads use without a lock
(`field` for `socket` and `output`, `handles` for the jobs and the decoder). A
cancelled coroutine goes on to its next suspension point: `connect`, the
handshake reads and `readLoop` have none. The handshake reads end when the server
answers (`JobHandshake`) or the connection is closed (`JobHandshakeThrows`); the socket
has no timeout, so a server that is gone without a FIN leaves the job there. With
`screen_off` a session needs no surface. `Cleanup` acts on whatever the fields
hold. A message is two writes, so that senders, a goodbye without the mutex and a
close can fall between them. `jobs[j].sock` is the job's local socket. What is on
the wire of a connection nobody reads any more is forgotten (`Unread`) to keep
the state space small.

### InputCapture

Android's side (external) is a gesture, a sequence of pointers of which one may be
the pen, and a hovering pen. An event has an action, an index, the pointers, those
inside the picture, raw buttons, and whether the pen is near its last lift. The
handlers translate it; `pc_pen` and `pc_touch` are what `read_loop` derives from the
last message. `last_pen` and `last_touch` are history and say whether the last
event was sent.

### DataPath

A behaviour is given one input. A packet, a parameter set or an element is
transformed in one step; a stream is sent and read step by step; clocks are
compared exchange by exchange. The references are
written from the other end: a packet from the list of its NAL units, an SPS from
the syntax tables for the wanted record, a stream from the messages that were
sent, an offset from the clock itself. In `SpsPatcher` a walk reads elements
and not bits; reading one element with another descriptor is "desync". That
elements are read back as written is checked with single elements. In
`WireProtocol` a layout is written once per language, as its code puts or gets the
fields.

`Framing` is the byte stream: `wire` is what was written and not lost, `taken` how
far the reader is, `got` what it made of it. A message is one append (a reader that
has part of a frame waits for the rest, so the two writes of `sendMsg` need no state
of their own here; who may write between them is the subject of `AndroidClient`).
`Tears(m, cut)` leaves the first `cut` bytes of a message: the session aborts its read
loop in the middle of an answer, or `disconnect()` writes without the mutex, in which
case the overtaken writer may go on (`Resumes`). Behind it come, in any order, the
goodbye (`SaysGoodbye`) and whole messages of senders that were waiting for the writer
(`WritesLate`: `frame_pump` and `telemetry_pump` between the abort and the goodbye).
`written` is what
was written before, `late` what came behind; the reader cannot tell where a torn
frame ends, so what is `late` is promised nothing. `Breaks`
loses any bytes that were not read.

`ClockSync` sends requests `Gaps` apart without waiting for answers, so exchanges
overlap; answers come in the order of the requests, and each is observed when it is
read. The PC's clock gains on the tablet's or loses. `Reconnects` is the `reset()` of the
next connection, whose PC may have another
clock. The read loop of the connection before is taken to have ended by then.

## 3. Runs

| Run | Checks | Result |
|---|---|---|
| `stream` | queue window, accounting, wire order, keyframe first, IDR not lost, no thread left | holds, 6.8 million states |
| `stream_live` | `PauseEndsSession`, `SessionWrapsUp`, `InputStopsWithSession` | hold |
| `stream_encoder_failure` | design.md:409, errors tear the session down | violated: in the live phase nobody hears of a dead encode thread |
| `service` | one loop, Listening has its rule, Stopped has no listener, cancelled loops end, errors are retried | holds, 326 thousand states |
| `decoder` | mutual exclusion of feeders, order, flags, samples, no frame forgotten | holds |
| `injector` | no stray key, keys follow buttons, Windows agrees on pen and touch, transition bits, tool changes out of range | holds, 4.4 million states |
| `vdd` | `NoSilentLeak`: which steps may leave a display enabled; `LiveDisplayStays`: who may switch off a live one; `DisableReturns` | hold |
| `encoder` | `MetaFollowsFrames`, `SubmitReturns`, and the refinement `ImplementsContract` | hold |
| `client` | whole messages, samples in order, cancelled jobs end unless a handshake is unanswered, the newest keeps trying | holds, 241 thousand states |
| `client_crash` | PenflowClient.kt:120 "keep retrying on disconnect / error" | violated: the exception of `readLoop` ends the process |
| `input` | `InputInStep`: pen and fingers on the PC are those on the tablet | holds, 112 thousand states |
| `datapath` | packet patching, SPS rewriting; sender and reader interleaved, with torn messages, others behind them, and broken connections; the clock offset after every exchange and reconnect | holds, 475 thousand states |

Some properties are defined in the modules and are in no run. Each takes a
configuration that names it. These state what a comment or document says
and are violated; the findings in `PROJECT.json` explain how:
`FirstPacketIsIdr`, `FramePumpEnds` (StreamSession), `StoppedMeansNoTransport`,
`ListeningMeansReachable` (GuiService), `OutputFindsItsSample` (VideoDecoder),
`TransitionBitsCorrect` (PenInjector), `StartupSeesLeftover` (with
`LooksVirtual = {}`), `OrphanRecovers` (VddController), `NoFingerLeft`,
`ChordIsThirdButton` (InputCapture). These hold: `TypeOK` of every module that has one,
`LiveSessionSaysGoodbye`, `ReaderIsTold`, `WriterIsWriting`, `JoinedThreadIsTold`
(StreamSession),
`BuffersConserved` (VideoDecoder); all of these are also proved.

Bounds, and why they are enough:

* `stream`: capacity 2 and four frames let the queue overflow twice, before and
  after the first pop; `EncoderDepth = 1` lets a tick end with a packet inside the
  encoder; one IDR request and one telemetry message are each enough to meet
  every point of the other actors. `Gop = 600` is the code's value: within the
  bound only the first frame is a keyframe by itself. The time-sync exchange is in
  `stream_live`, where the read loop is aborted with the writer in hand; the theorems
  cover all values of both.
* `stream_live` and `stream_encoder_failure` use capacity 1 and two or three frames, the
  smallest instance in which the queue overflows.
* `service`: two loops (a detached one and its successor), three iterations (a
  retry and a successor), one overdue removal, any number of failing ones.
* `decoder`: two buffers, so that one can be parked while the other is in use,
  and four frames: whole microseconds, a fraction, a second keyframe, and a pause
  longer than the one-second eviction.
* `injector`: three profiles (the default one; two holds that share a key, and a
  toggle; a mouse button and a chord), two fingers, and one failing call, which may
  be any. The theorems cover every set of profiles, fingers and failures.
* `vdd`: two matching devices, one that looks virtual and the canonical one that
  does not and is yet to be installed; two elevated processes, a helper that
  outlives its session and the one after it; three launches of the app.
* `encoder`: a window of three requests and five frames, so that permissions are
  read at each of the three places and the session reaches a steady state; two skipped or
  missing outputs.
* `client`: two starts and two connections, so that an old job meets the fields of a new
  session; a batch of two samples.
* `input`: the pen, two fingers and a palm, three of them at once, in any index.
* `datapath`: payloads that contain start codes and escapes at their ends, each optional part
  of a parameter set present and absent, four values at the edges of each field,
  every cut of a TIME_SYNC_RESP, alone or with a VIDEO_FRAME or TELEMETRY behind it, a pen
  message cut in its header with a touch message behind it, a break at every byte of a
  stream without a cut; clocks that gain and clocks that lose; up to
  four exchanges 5, 30 or 60 apart with a window of 40, so that the best sample ages out,
  stays, or is alone.

Fairness. Tasks the runtime can poll and threads the OS can run make progress,
timeouts fire (the 5 s of `wait_for_keyframe` included), a task that was aborted is dropped
at last, adb calls end, and tokio's mutex is FIFO, so taking it gets strong
fairness. Nothing makes the client connect, speak, read or leave, the user press
Pause, a step fail, or the PC send a frame. `SessionWrapsUp` exempts a client
that keeps its socket and does not read: the goodbye has no timeout of its own.
In `GuiService` each accept loop gets strong fairness as a whole because
repeated `stop` calls would otherwise keep the mutex from its `emit` for ever.
In `VddController` app and helpers run on and devcon returns; users and faults are free.
In `MfEncoder` the MFT finishes the frames it holds and asks for input at the latest
when nothing of it is left to be fetched. In `AndroidClient` jobs, the UI thread and
read loops run on. The server's answer to a handshake is not fair: `CancelledJobsEnd`
exempts a cancelled job whose handshake read nothing ends, and `KeepsTrying` counts
waiting for the answer as trying, since the code has no timeout there.

## 4. Proofs

All theorems hold for every value of the constants allowed by the assumptions in
the modules, which are few: `CapacityAssumption` (the capacity is a natural number,
zero included), `StreamAssumption` (pts grow by at least a microsecond from frame to
frame), `ProfilesAssumption` (a profile binds three slots to known kinds),
`VddAssumption` (the matching devices are devices, each starts in some status, and
none is called "none"), `CaptureAssumption` (the pen is neither finger nor palm),
`ClockAssumption` (waits are not negative and the PC's clock gains on the tablet's or
loses at most one unit per unit), `MessagesAssumption` (no message is longer than the 64 MiB
limit, and none but the last is a goodbye), and
that the bounds are numbers. Each proof module proves `Invariance`, `Spec => []Inv`,
for an inductive invariant `Inv`, from one lemma per part or per group of actions;
each `Inv` also holds on the instance its module's run uses.

**StreamSession.** `Invariance` proves `Spec => []Inv` where `Inv` is the
conjunction of

* `TypeOK`;
* `ControlInv`: which states of thread, tasks and mutex go with which point of
  `Session::run`. It yields `EngineReaped` and `ReaderIsTold` (outside the live phase a
  read loop has ended or has its abort pending), neither of which is inductive: one
  must know that a thread exists only between `StartEngine` and `JoinEngine` and that no
  read loop exists before the live phase;
* `PipelineInv`: the packets in the encoder continue those in the queue;
* `PacketsAccounted` and `IdrNotLost`, inductive once the above are known;
* `OrderInv`: everything on the wire is older than the packet in the pump's hand,
  which is older than the queue, which is older than the encoder. Only this chain
  makes `WireInOrder` inductive;
* `KeyInv`: the packet kept for the greeting is a keyframe;
* `GoodbyeInv`: a result `ok` exists only from the end of the live phase on, and
  after the goodbye the client has it or is gone.

The theorems `TypeCorrect`, `NewestWindow`, `Accounting`, `OrderOnTheWire`,
`KeyframeFirst`, `RequestsSurvive`, `EngineIsReaped`, `NoReaderForgotten`
(`ReaderIsTold`), `GoodbyeSaid` follow. Lemmas at the head of the module state once what
push, pop and close do
to a queue.

`WaitInv` is about the two waits of `Session::run` that have no timeout: it follows the
writer mutex through aborts and the dropped future, and the stop flag and the closed
queue to every join. `MutexIsReleased` (`WriterIsWriting`) and `JoinsAreTold`
(`JoinedThreadIsTold`) are the safety half of `PauseEndsSession` and `SessionWrapsUp`:
whoever is waited for can go on, so that only fairness is left to TLC.

**VideoDecoder.** `Inv` adds to the types: which indices each thread has in hand
(`HandsInv`); that pending frames and parked buffers do not exist together, and
that a thread in `feedBuffer` found what excludes the other (`LockInv`), which is
why the unlocked part is exclusive; that queued, in-hand and pending frames are
1, 2, 3, … up to the received ones (`PlaceInv`); that a frame not yet queued has
its flag in the map or with its thread (`FlagInv`); and that every sample is the pts of
a received frame (`SampleInv`). `BufferInv` says of each buffer that it is in one of
five places and of each list of buffers that it holds none twice; `BuffersConserved`,
a sum of five cardinalities, is that statement counted. Theorems `TypeCorrect`,
`FeedersExclude`, `InOrder`, `FlagsFollow`, `SamplesOwn`, `BuffersKept`.

**PenInjector.** `Inv` adds to `TypeOK`, `FramesFit` and `TouchAgrees`: a pen that
touches is in range (`ContactInv`); Windows never believes more of the pen than the
injector remembers, the two are in step except between a flush and the frame after
it or after a failure, and a frame about to be written in range has the tool
Windows knows (`PenInv`); and every key that is down is held by a button or will be
released by a call still to be made (`KeyInv`). The last one rests on lemmas
about sequences of calls: `EndsIn` (every press is of a held key or followed by
its release) survives concatenation and doing the first call, and holds of what each kind of
binding does. `HeldInv` is the other direction: when no two buttons share a key, a
key of a held button is down, or a call still to be made presses it, and none
releases it. Theorems `TypeCorrect`, `NoKeyLeftDown`, `ButtonsHoldKeys`
(`KeysFollowButtons`), `PenInStep`, `FramesAlwaysFit`, `TouchInStep`, `PenTurnsAway`.

**MfEncoder.** `Inv` is `TypeOK`, `Permissions` (requests in the event queue and in
the session's hands never exceed what the MFT granted, and every announced output
exists) and `Pairing` (the metadata left is the newest time stamps without a gap, and
a frame inside the MFT is ahead of the metadata at its position by at most the number
of frames the MFT skipped). `PairingHolds` gives `MetaFollowsFrames`, which is
exact as long as no frame is skipped and bounds the shift otherwise; `Refinement`
shows that every behaviour, synchronous or asynchronous, is one of `EncoderContract`:
initial states map to initial states, and each step to a step or a stutter of the
abstract one. Counting events needed lemmas on cardinalities of sets of positions.

**GuiService.** `OneLoop` needs `Handles`: `stop` takes the handle out of `inner.task`
before it waits, and a loop ends for no other reason than having been told.
`ListeningIsReachable` needs `Label` (while the label says Listening the only loop is in
its session or has just left it), `OwnRule` (an open listener has the rule until a late
removal strikes) and `Pumps` (no report is left over from an earlier session); it
assumes nothing of the removals of earlier iterations, which may have failed.
`StoppedIsClosed` needs `Quiet` (while the label says Stopped every loop has ended or is
about to prepare) and `Sessions` (a session, and so a pending accept, exists only while
its loop polls it). Theorems `TypeCorrect`, `OneLoopHolds`, `StoppedHolds`,
`ListeningHolds`.

**AndroidClient.** `FramesWhole` follows from `WireOK`, which ties each connection to
the mutex: a sender between its two writes holds `sendMutex`, the open header on the
wire is its own, and without such a sender there is none. Starting a session resets
senders from outside, so `JobsOK` adds that a job before its session has a connection
of its own on which nobody sends. `SamplesInOrder`, an action property, follows from
`QueueOK`: the channel is in order and ahead of every connection that drains it.
Theorems `TypeCorrect`, `FramesWholeHolds`, `SamplesInOrderHolds`.

**ClockSync.** `OffsetWithinTrip` speaks of the exchanges of the window, the
estimator has its samples. `WindowKept` says that these are the samples of the last
exchanges heard and of no others, in order, since answers arrive in order and `observe`
drops from the front; `BestChosen` that the offset kept belongs to a sample with the least
round trip. The least element exists because the naturals are well founded
(`SelectInSeq` is a `CHOOSE`); the error of one exchange, drift included, is arithmetic on
`\div`. Theorems `ClockInvariance`, `OffsetHolds`.

**Framing.** Nothing in the bytes marks a frame, so `StaysInSync` is not inductive:
`WireInv` adds that there is a sequence `st` of places such that every frame written
whole before a tear or the goodbye stands behind its place, as far as the bytes reach
(`Placed`), that behind the last
there is nothing, the goodbye, or what a torn frame left, with anything behind it
(`Behind`), and that the reader stands
at the place of the frame it has to read next (`InStep`). `st` is existentially
quantified: it grows with each message, and a recursive definition of it would need
induction. `LengthRoundTrip` shows that the four length bytes give the length back and
are never refused up to 64 MiB, `ReadsWhatIsThere` that a reader at a place gets that
frame or waits for it. One lemma per action of the sender (`TearKeeps`, `GoodbyeKeeps`,
`LateKeeps`, `ResumeKeeps`, ...) shows that it disturbs no place. Theorems
`WireInvariance`, `ReaderStaysInSync`.

**InputCapture.** `InputInStep` becomes inductive with `Exclusive` (the pen does not
hover while it touches) and the pointers of a gesture being distinct, so that the
index found for the pen is the pen's and a lift removes the pointer that was lifted.
It is about contact, range and tool of the pen and about fingers; of buttons nothing
is claimed (`ChordIsThirdButton` is violated).
Theorems `TypeCorrect`, `InStep`.

**VddController.** Two action properties. `AppInv` says what the app holds at which
point, `Served` that the helper whose handles it holds is for the device and the launch
of its session and cannot have been triggered before the session ends, `Triggers` that
a process about to disable was told to stop, lost its app, or is the one-shot helper
being waited for. `NoSilentLeakHolds` then shows that responsibility for an enabled
device passes from the session to the helper and from there to the fallback without a
gap: without `Served` the session's end could meet a helper that exited with 0 long
ago, or one that served another device. `LiveDisplayStaysHolds` needs `Triggers`. For
the types one must know that `detect` finds a device: its `min_by_key` has a least element
because the naturals are well founded (`BestExists`). Theorems `TypeCorrect`,
`NoSilentLeakHolds`, `LiveDisplayStaysHolds`.

Only model-checked:

* all liveness properties (`PauseEndsSession`, `SessionWrapsUp`, `InputStopsWithSession`,
  `CancelledLoopEnds`,
  `ErrorIsRetried`, `FrameReachesCodec`, `DisableReturns`, `SubmitReturns`,
  `CancelledJobsEnd`, `KeepsTrying`): the prover has no rules for fairness and `ENABLED`;
* `PacketKeepsNals`, `SpsIsAsWanted` and the values of `MessagesBeforeCut`: what the
  rewriters and the codecs, which are folds over bytes and elements, compute for every
  input needs induction over sequences. The framing half of `MessagesBeforeCut`
  (`StaysInSync`) is proved, and so is `OffsetWithinTrip`;
* the violations.

## 5. Not modelled

* GPU work (`tonemap_blit.rs`, `cursor_blit.rs`, `color.rs`, `d3d11.rs`), DXGI capture and
  monitor enumeration: calls into drivers and floating-point pixels; to the
  rest a frame, a timeout or an error.
* `coords.rs` and the bytes of `vmulti.rs`: arithmetic on floats and fixed reports on one
thread.
* Settings file, tray, React UI, HUD drawing: I/O and presentation.
* Positions, pressure, tilt; telemetry figures; bit rates; log files.
* In `VddController`: two instances of the app at once, `uninstall_driver` (nobody calls it).
* Installer, probes and examples.

## 6. Plan

Done, in this order: `PacketQueue`, `StreamSession`, its proofs, `GuiService`,
`VideoDecoder`, its proofs, `PenInjector`, its proofs, `VddController`, `MfEncoder`
with `EncoderContract`, `AndroidClient`, `DataPath` and its parts, `InputCapture`, then
the proofs about `MfEncoder`, `GuiService`, `AndroidClient`, `InputCapture` and
`VddController`, then `ClockSync` and `Framing` with theirs, `BuffersConserved`, and the
invariants behind the waits of a session. Every invariant and action property of a
passing run is now a theorem, but for three of `DataPath` (section 4). Left:

1. the codecs of single messages: each layout is a fixed list of fields, so that encoding
   and decoding could be unrolled and proved inverse layout by layout;
2. the invariants behind the waits of `GuiService` and `AndroidClient`, like those of
   `StreamSession`.
