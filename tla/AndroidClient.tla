---------------------------- MODULE AndroidClient ----------------------------
(***************************************************************************)
(* The connection of the tablet app (PenflowClient.kt) under the activity  *)
(* lifecycle (MainActivity.kt).  Three kinds of threads share the fields   *)
(* socket, output, decoder and the job handles without a lock:             *)
(*   - the UI thread: onStart calls connect(), onStop calls disconnect();  *)
(*   - the connect jobs, one per connect(), each running the retry loop;   *)
(*   - per session a read loop and the senders, which share sendMutex.     *)
(* Cancelling a coroutine acts at its next suspension point only: the job  *)
(* may be inside a blocking connect or read, the read loop has no          *)
(* suspension point at all.                                                *)
(*                                                                         *)
(* A message on the wire is two writes, its header and its payload         *)
(* (sendMsg writes type and length, then the payload).                     *)
(***************************************************************************)
EXTENDS Naturals, Sequences, SequencesExt, FiniteSets

CONSTANTS
  MaxJobs,      \* bound: how often the activity is started
  MaxSockets,   \* bound: how many connections succeed
  MaxSamples    \* bound: how many pen samples are captured

ASSUME ClientAssumption ==
  MaxJobs \in Nat /\ MaxSockets \in Nat /\ MaxSamples \in Nat

VARIABLES
  ui,        \* lifecycle: "stopped", "started", or "cleanup" inside disconnect()
  jobs,      \* the connect jobs, in the order of the connect() calls
  sockets,   \* the connections, in the order they were made
  field,     \* socket and output: the number of a connection, 0 for null
  handles,   \* readerJob, the sender jobs and decoder: the session they belong to
  queue,     \* penChannel
  captured,  \* number of samples captured
  mutex,     \* sendMutex: the sender inside, or None
  crashed    \* an exception reached the thread's uncaught handler

vars == <<ui, jobs, sockets, field, handles, queue, captured, mutex, crashed>>

Kinds == {"pen", "sync"}
None == <<"none", 0>>
Off == <<"none", 0>>         \* a sender: where it is and the message it carries

\* while (!stopRequested): set by disconnect, reset by connect.
StopRequested == ui # "started"

NewSocket ==
  [open |-> TRUE,            \* not closed by this side
   peer |-> "up",            \* "up", "bye" (goodbye sent), "closed" (without one)
   reader |-> "none",        \* "none", "running", "ended"
   cancelled |-> FALSE,      \* its sender jobs were cancelled
   sender |-> [k \in Kinds |-> Off],
   last |-> 0,               \* on the wire: the last pen sample
   half |-> None,            \* on the wire: a header still without its payload
   torn |-> FALSE,           \* on the wire: something came in between
   bye |-> FALSE]            \* on the wire: ANDROID_GOODBYE

Init ==
  /\ ui = "stopped" /\ jobs = <<>> /\ sockets = <<>>
  /\ field = 0 /\ handles = 0
  /\ queue = <<>> /\ captured = 0 /\ mutex = None /\ crashed = FALSE

\* A job knows its connection while it is inside handshakeAndPump.
Goto(j, pc) ==
  jobs' = [jobs EXCEPT ![j].pc = pc, ![j].sock = IF pc \in {"surface", "join"} THEN @ ELSE 0]

Writable(s) == sockets[s].open /\ sockets[s].peer # "closed"

\* What is on the wire matters as long as the server reads it: until either
\* side has closed the connection, or up to the goodbye.
Heard(s) == Writable(s) /\ ~sockets[s].bye
Unread(sock) == [sock EXCEPT !.last = 0, !.half = None]

\* cleanupSessionState: it works on the fields, whoever set them last.
Cleanup ==
  /\ sockets' = [s \in DOMAIN sockets |->
       [(IF s = field THEN [Unread(sockets[s]) EXCEPT !.open = FALSE, !.peer = "closed", !.bye = FALSE] ELSE sockets[s])
          EXCEPT !.cancelled = @ \/ s = handles]]
  /\ field' = 0 /\ handles' = 0

-----------------------------------------------------------------------------
(* The UI thread *)

\* onStart: connect() launches a job; the handle of the last one is null.
OnStart ==
  /\ ~crashed /\ ui = "stopped" /\ Len(jobs) < MaxJobs
  /\ ui' = "started"
  /\ jobs' = Append(jobs, [pc |-> "launch", cancelled |-> FALSE, sock |-> 0])
  /\ UNCHANGED <<sockets, field, handles, queue, captured, mutex, crashed>>

\* onStop: disconnect() asks the loop to stop, cancels the job and writes the
\* goodbye, without the mutex ...
OnStop ==
  /\ ~crashed /\ ui = "started"
  /\ ui' = "cleanup"
  /\ jobs' = [jobs EXCEPT ![Len(jobs)].cancelled = TRUE]
  /\ sockets' = IF field # 0 /\ Writable(field)
                THEN [sockets EXCEPT ![field] = [Unread(sockets[field]) EXCEPT !.bye = TRUE]]
                ELSE sockets
  /\ UNCHANGED <<field, handles, queue, captured, mutex, crashed>>

\* ... and tears the session down.
StopCleansUp ==
  /\ ~crashed /\ ui = "cleanup"
  /\ ui' = "stopped"
  /\ Cleanup
  /\ UNCHANGED <<jobs, queue, captured, mutex, crashed>>

\* One MotionEvent: sendPenEvent queues every sample of its batch, connected
\* or not.
CapturePen ==
  /\ ~crashed /\ ui = "started" /\ captured = 0
  /\ captured' = MaxSamples
  /\ queue' = queue \o [n \in 1 .. MaxSamples |-> captured + n]
  /\ UNCHANGED <<ui, jobs, sockets, field, handles, mutex, crashed>>

-----------------------------------------------------------------------------
(* A connect job *)

\* The head of the loop; a job that was cancelled before it ran never runs.
AtLoopHead(j) == Goto(j, IF StopRequested THEN "done" ELSE "connecting")

JobLaunches(j) ==
  /\ ~crashed /\ jobs[j].pc = "launch"
  /\ IF jobs[j].cancelled THEN Goto(j, "done") ELSE AtLoopHead(j)
  /\ UNCHANGED <<ui, sockets, field, handles, queue, captured, mutex, crashed>>

\* The blocking connect succeeds, the fields are set, HELLO_ANDROID goes out.
JobConnects(j) ==
  /\ ~crashed /\ jobs[j].pc = "connecting" /\ Len(sockets) < MaxSockets
  /\ sockets' = Append(sockets, NewSocket)
  /\ field' = Len(sockets) + 1
  /\ jobs' = [jobs EXCEPT ![j].pc = "handshake", ![j].sock = Len(sockets) + 1]
  /\ UNCHANGED <<ui, handles, queue, captured, mutex, crashed>>

\* Nobody listens on the abstract socket.
JobConnectFails(j) ==
  /\ ~crashed /\ jobs[j].pc = "connecting"
  /\ Goto(j, "caught")
  /\ UNCHANGED <<ui, sockets, field, handles, queue, captured, mutex, crashed>>

\* The blocking reads of the handshake: HELLO_PC and the configuration arrive.
\* The socket has no timeout, so a server that says nothing (adb reverse
\* forwards no end of file) keeps the job here.
JobHandshake(j) ==
  /\ ~crashed /\ jobs[j].pc = "handshake" /\ sockets[jobs[j].sock].open
  /\ Goto(j, "surface")
  /\ UNCHANGED <<ui, sockets, field, handles, queue, captured, mutex, crashed>>

\* Either side has closed the connection: the read throws.
JobHandshakeThrows(j) ==
  /\ ~crashed /\ jobs[j].pc = "handshake" /\ sockets[jobs[j].sock].peer = "closed"
  /\ Goto(j, "caught")
  /\ UNCHANGED <<ui, sockets, field, handles, queue, captured, mutex, crashed>>

\* With CLIENT_CFG_FLAG_SCREEN_OFF no decoder and no surface is needed, and
\* waitForSurface does not suspend when the surface is there: decoder, read
\* loop and senders start even in a cancelled job.
JobStartsSession(j, screen_off) ==
  /\ ~crashed /\ jobs[j].pc = "surface" /\ (screen_off \/ ui # "stopped")
  /\ LET s == jobs[j].sock IN
     /\ sockets' = [sockets EXCEPT ![s].reader = "running",
                                   ![s].sender = [k \in Kinds |-> <<"idle", 0>>]]
     /\ handles' = s
  /\ Goto(j, "join")
  /\ UNCHANGED <<ui, field, queue, captured, mutex, crashed>>

\* Without a surface it polls: a cancelled job leaves through the rethrown
\* CancellationException and cleans nothing up, another one times out.
JobLacksSurface(j) ==
  /\ ~crashed /\ jobs[j].pc = "surface"
  /\ Goto(j, IF jobs[j].cancelled THEN "done" ELSE "caught")
  /\ UNCHANGED <<ui, sockets, field, handles, queue, captured, mutex, crashed>>

\* rJob.join(): cancellation again skips the cleanup.
JobJoins(j) ==
  /\ ~crashed /\ jobs[j].pc = "join"
  /\ \/ jobs[j].cancelled /\ Goto(j, "done")
     \/ ~jobs[j].cancelled /\ sockets[jobs[j].sock].reader = "ended" /\ Goto(j, "caught")
  /\ UNCHANGED <<ui, sockets, field, handles, queue, captured, mutex, crashed>>

\* Fault: the loop forgets to wait before it retries and ends instead.
JobCleansUpAndEnds(j) ==
  /\ ~crashed /\ jobs[j].pc = "caught"
  /\ Cleanup
  /\ Goto(j, "done")
  /\ UNCHANGED <<ui, queue, captured, mutex, crashed>>

JobCleansUp(j) ==
  /\ ~crashed /\ jobs[j].pc = "caught"
  /\ Cleanup
  /\ Goto(j, IF StopRequested THEN "done" ELSE "delay")
  /\ UNCHANGED <<ui, queue, captured, mutex, crashed>>

\* Fault: the back-off is not a suspension point.
JobDelaysBlocking(j) ==
  /\ ~crashed /\ jobs[j].pc = "delay"
  /\ AtLoopHead(j)
  /\ UNCHANGED <<ui, sockets, field, handles, queue, captured, mutex, crashed>>

\* The back-off; a cancelled job ends here.
JobDelays(j) ==
  /\ ~crashed /\ jobs[j].pc = "delay"
  /\ IF jobs[j].cancelled THEN Goto(j, "done") ELSE AtLoopHead(j)
  /\ UNCHANGED <<ui, sockets, field, handles, queue, captured, mutex, crashed>>

-----------------------------------------------------------------------------
(* The read loop of session s *)

\* PC_GOODBYE: readLoop returns.
ReaderReturns(s) ==
  /\ ~crashed /\ sockets[s].reader = "running"
  /\ sockets[s].open /\ sockets[s].peer = "bye"
  /\ sockets' = [sockets EXCEPT ![s].reader = "ended"]
  /\ UNCHANGED <<ui, jobs, field, handles, queue, captured, mutex, crashed>>

\* End of file, or a read on the socket that cleanup closed: readLoop has no
\* handler, its job is a child of a SupervisorJob in a scope without a
\* CoroutineExceptionHandler, and an exception other than a cancellation is
\* reported even when the job was cancelled: the process ends and
\* everything in it is gone.
ReaderThrows(s) ==
  /\ ~crashed /\ sockets[s].reader = "running"
  /\ sockets[s].peer = "closed"
  /\ crashed' = TRUE
  /\ jobs' = <<>> /\ sockets' = <<>> /\ field' = 0 /\ handles' = 0
  /\ queue' = <<>> /\ mutex' = None
  /\ UNCHANGED <<ui, captured>>

-----------------------------------------------------------------------------
(* The senders of session s *)

\* The two writes of a message on the wire of session s.
HeaderOut(w, k, m) ==
  IF Heard(w) THEN [sockets[w] EXCEPT !.torn = @ \/ sockets[w].half # None, !.half = <<k, m>>,
                                         !.last = IF k = "pen" THEN m ELSE @]
  ELSE sockets[w]
PayloadOut(w, k, m) ==
  IF Heard(w) THEN [sockets[w] EXCEPT !.torn = @ \/ sockets[w].half # <<k, m>>, !.half = None]
  ELSE sockets[w]

\* Fault: the pen sender takes the newest sample.
NextNewest(k) == IF k = "pen" THEN <<Last(queue), Front(queue)>> ELSE <<0, queue>>

\* The next message of a sender and what it leaves in the channel: a sample of
\* penChannel, or a ping of timeSyncLoop.
NextMessage(k) == IF k = "pen" THEN <<Head(queue), Tail(queue)>> ELSE <<0, queue>>

AtSend(s, k) ==
  ~crashed /\ sockets[s].sender[k] = <<"idle", 0>> /\ (k = "pen" => queue # <<>>)

\* Fault: the message is written without the mutex.
WriteHeaderUnlocked(s, k) ==
  /\ AtSend(s, k)
  /\ LET next == NextMessage(k) IN
     /\ queue' = next[2]
     /\ sockets' = [sockets EXCEPT ![s] = [HeaderOut(s, k, next[1]) EXCEPT !.sender[k] = <<"payload", next[1]>>]]
  /\ UNCHANGED <<ui, jobs, field, handles, captured, mutex, crashed>>

\* penSendLoop and sendOneSync take a message, lock sendMutex and make the
\* first write; a cancelled sender still takes a sample that is there.  A write
\* that fails is logged and ends the message, the sender goes on with the next.
WriteHeader(s, k) ==
  /\ AtSend(s, k) /\ mutex = None
  /\ LET next == NextMessage(k)
         then == IF Writable(s) THEN <<"payload", next[1]>> ELSE <<"idle", 0>>
     IN  /\ queue' = next[2]
         /\ sockets' = [sockets EXCEPT ![s] = [HeaderOut(s, k, next[1]) EXCEPT !.sender[k] = then]]
  /\ mutex' = IF Writable(s) THEN <<k, s>> ELSE None
  /\ UNCHANGED <<ui, jobs, field, handles, captured, crashed>>

\* Second write, then the mutex is released.
WritePayload(s, k) ==
  /\ ~crashed /\ sockets[s].sender[k][1] = "payload"
  /\ sockets' = [sockets EXCEPT ![s] =
                   [PayloadOut(s, k, sockets[s].sender[k][2]) EXCEPT !.sender[k] = <<"idle", 0>>]]
  /\ mutex' = None
  /\ UNCHANGED <<ui, jobs, field, handles, queue, captured, crashed>>

\* A cancelled sender ends in the channel or in its delay.
SenderEnds(s, k) ==
  /\ ~crashed /\ sockets[s].cancelled /\ sockets[s].sender[k][1] = "idle"
  /\ sockets' = [sockets EXCEPT ![s].sender[k] = Off]
  /\ UNCHANGED <<ui, jobs, field, handles, queue, captured, mutex, crashed>>

\* Cancelled while it waits for the mutex with a sample in hand: the catch
\* around the send swallows the cancellation, the sample is lost and the loop
\* goes on.
SenderLosesSample(s) ==
  /\ AtSend(s, "pen") /\ sockets[s].cancelled /\ mutex # None
  /\ queue' = NextMessage("pen")[2]
  /\ UNCHANGED <<ui, jobs, sockets, field, handles, captured, mutex, crashed>>

-----------------------------------------------------------------------------
(* The server at the other end of connection s *)

ServerUnchanged == UNCHANGED <<ui, jobs, field, handles, queue, captured, mutex, crashed>>

PcGoodbye(s) ==
  /\ ~crashed /\ sockets[s].open /\ sockets[s].peer = "up" /\ sockets[s].reader # "none"
  /\ sockets' = [sockets EXCEPT ![s].peer = "bye"]
  /\ ServerUnchanged

PcCloses(s) ==
  /\ ~crashed /\ sockets[s].open /\ sockets[s].peer = "up"
  /\ sockets' = [sockets EXCEPT ![s] = [Unread(sockets[s]) EXCEPT !.peer = "closed"]]
  /\ ServerUnchanged

-----------------------------------------------------------------------------
JobMoves(j) ==
  \/ JobLaunches(j) \/ JobConnects(j) \/ JobConnectFails(j) \/ JobHandshakeThrows(j)
  \/ \E screen_off \in BOOLEAN : JobStartsSession(j, screen_off)
  \/ JobLacksSurface(j) \/ JobJoins(j) \/ JobCleansUp(j) \/ JobDelays(j)

Job(j) == JobMoves(j) \/ JobHandshake(j)

Session(s) ==
  \/ ReaderReturns(s) \/ ReaderThrows(s)
  \/ SenderLosesSample(s)
  \/ \E k \in Kinds : WriteHeader(s, k) \/ WritePayload(s, k) \/ SenderEnds(s, k)
  \/ PcGoodbye(s) \/ PcCloses(s)

Next ==
  \/ OnStart \/ OnStop \/ StopCleansUp \/ CapturePen
  \/ \E j \in DOMAIN jobs : Job(j)
  \/ \E s \in DOMAIN sockets : Session(s)

Spec == Init /\ [][Next]_vars

\* Coroutines and the UI thread run on.  Neither the server (its answer to the
\* handshake, JobHandshake, included) nor the user is fair, and no sender needs
\* to be.
Fairness ==
  /\ WF_vars(StopCleansUp)
  /\ \A j \in 1 .. MaxJobs : WF_vars(j \in DOMAIN jobs /\ JobMoves(j))
  /\ \A s \in 1 .. MaxSockets :
       WF_vars(s \in DOMAIN sockets /\ (ReaderReturns(s) \/ ReaderThrows(s)))

FairSpec == Spec /\ Fairness

-----------------------------------------------------------------------------
SendPcs == {"none", "idle", "payload"}

TypeOK ==
  /\ ui \in {"stopped", "started", "cleanup"}
  /\ field \in 0 .. Len(sockets) /\ handles \in 0 .. Len(sockets)
  /\ \A j \in DOMAIN jobs : jobs[j].sock \in 0 .. Len(sockets)
  /\ \A s \in DOMAIN sockets : \A k \in Kinds : sockets[s].sender[k][1] \in SendPcs
  /\ crashed \in BOOLEAN

\* Pen samples leave on a connection in the order they were captured and at
\* most once, also while the senders of an old session still drain the same
\* channel as those of a new one (penChannel: samples out of order draw
\* flying lines).
SamplesInOrder ==
  [][\A s \in DOMAIN sockets \cap DOMAIN sockets' :
       sockets'[s].half # sockets[s].half /\ sockets'[s].half[1] = "pen"
         => sockets'[s].last > sockets[s].last]_vars

\* Until disconnect() writes its goodbye, every message on a connection is one
\* header followed by its own payload, whatever the senders interleave: only
\* the goodbye, which takes no mutex, may cut a message in two.
FramesWhole == \A s \in DOMAIN sockets : ~sockets[s].torn

\* A job inside a handshake read that nothing ends: the server is silent and
\* neither side has closed the connection.
Unanswered(j) ==
  jobs[j].pc = "handshake" /\ sockets[jobs[j].sock].peer # "closed"

Stale == \E j \in DOMAIN jobs : jobs[j].cancelled /\ jobs[j].pc # "done" /\ ~Unanswered(j)

\* A connect job that disconnect() cancelled ends, or sits in a handshake read
\* on a connection that no cleanup has closed (one made after the cleanup, or
\* one whose place in the field another job has taken): it never starts
\* another attempt after its back-off and never waits in a session.
CancelledJobsEnd == Stale ~> (crashed \/ ~Stale)

\* The newest loop connects, waits for the server's answer, or is in a session.
Trying == jobs # <<>> /\ Last(jobs).pc \in {"connecting", "handshake", "join"}

\* While the activity is started the app is connected or tries again: the
\* newest retry loop never gives up, whatever older jobs do to its connection,
\* except that the process may die.  A server that accepts and does not answer
\* keeps it waiting: the code has no timeout for that.
KeepsTrying ==
  (ui = "started") ~> (ui # "started" \/ crashed \/ Trying)

\* connect() is documented to keep retrying on disconnect or error until
\* disconnect() is called (PenflowClient.kt): losing the server is no reason
\* for the process to end.
SurvivesPcLoss == ui = "started" => ~crashed
=============================================================================
