------------------------ MODULE AndroidClientProofs ------------------------
(***************************************************************************)
(* Proofs about module AndroidClient (the frames on the wire and the order *)
(* of the pen samples, for any number of connect jobs, connections and     *)
(* samples), about the clock offset the client keeps, module ClockSync,    *)
(* and about the frames a reader finds in the bytes, module Framing.       *)
(*                                                                         *)
(* FramesWhole follows from what ties the wire to the senders (WireOK): an *)
(* open header belongs to the sender that holds sendMutex.  The only step  *)
(* that touches a sender from outside is the start of a session, so the    *)
(* proof also needs that a job which has not started its session has a     *)
(* connection of its own on which nobody sends (JobsOK).  SamplesInOrder   *)
(* follows from the queue being ahead of every connection (QueueOK).       *)
(***************************************************************************)
EXTENDS AndroidClient, ClockSync, Framing, SequenceTheorems, WellFoundedInduction, TLAPS

SenderStates == {Off, <<"idle", 0>>} \cup ({"payload"} \X Nat)

SocketType ==
  [open : BOOLEAN, peer : {"up", "bye", "closed"}, reader : {"none", "running", "ended"},
   cancelled : BOOLEAN, sender : [Kinds -> SenderStates], last : Nat,
   half : {None} \cup (Kinds \X Nat), torn : BOOLEAN, bye : BOOLEAN]

JobPcs == {"launch", "connecting", "handshake", "surface", "join", "caught", "delay", "done"}
JobType == [pc : JobPcs, cancelled : BOOLEAN, sock : Nat]

Types ==
  /\ TypeOK
  /\ jobs \in Seq(JobType) /\ sockets \in Seq(SocketType)
  /\ queue \in Seq(Nat) /\ captured \in Nat

\* Heard, of a connection that is given.
IsHeard(w) == w.open /\ w.peer # "closed" /\ ~w.bye

\* Connection w has number s, and mx holds sendMutex: a sender between its two
\* writes holds it, the header on the wire is its own, and there is no header
\* without a payload otherwise.
WireOK(w, s, mx) ==
  /\ \A k \in Kinds : w.sender[k][1] = "payload" => mx = <<k, s>>
  /\ \A k \in Kinds : w.sender[k][1] = "payload" /\ IsHeard(w)
                        => w.half = <<k, w.sender[k][2]>>
  /\ w.half # None => IsHeard(w) /\ \E k \in Kinds : w.sender[k][1] = "payload"
  /\ ~w.torn

Wires == \A s \in DOMAIN sockets : WireOK(sockets[s], s, mutex)

\* A job before its session has a connection nobody sends on.
JobsOK ==
  /\ \A j \in DOMAIN jobs : jobs[j].pc \in {"handshake", "surface"} =>
       /\ jobs[j].sock # 0
       /\ sockets[jobs[j].sock].sender = [k \in Kinds |-> Off]
  /\ \A i, j \in DOMAIN jobs : jobs[i].sock = jobs[j].sock => i = j \/ jobs[i].sock = 0

\* The samples in the channel are in order and newer than what was sent.
QueueOK ==
  /\ \A n \in DOMAIN queue : 0 < queue[n]
  /\ \A m, n \in DOMAIN queue : m < n => queue[m] < queue[n]
  /\ \A s \in DOMAIN sockets : \A n \in DOMAIN queue : sockets[s].last < queue[n]
  /\ captured = 0 => queue = <<>> /\ \A s \in DOMAIN sockets : sockets[s].last = 0

Inv == Types /\ Wires /\ JobsOK /\ QueueOK

-----------------------------------------------------------------------------
(* Connections one at a time.                                               *)

(* A connection that the server stops reading has no header in the air.     *)
LEMMA WireShut ==
  ASSUME NEW w, NEW v, NEW s, NEW mx, WireOK(w, s, mx),
         v.sender = w.sender, v.torn = w.torn, v.half = None, ~IsHeard(v)
  PROVE  WireOK(v, s, mx)
BY DEF WireOK

(* Only the senders, the wire and who hears it matter.                      *)
LEMMA WireSame ==
  ASSUME NEW w, NEW v, NEW s, NEW mx, WireOK(w, s, mx),
         v.sender = w.sender, v.torn = w.torn, v.half = w.half,
         IsHeard(v) = IsHeard(w)
  PROVE  WireOK(v, s, mx)
BY DEF WireOK

(* With the mutex free nobody is between two writes: whoever takes it next  *)
(* changes nothing for the other connections.                               *)
LEMMA WireLock ==
  ASSUME NEW w, NEW s, NEW mx, WireOK(w, s, None)
  PROVE  WireOK(w, s, mx)
BY DEF WireOK, None, Kinds

(* The sender that releases the mutex was the only one on any connection.   *)
LEMMA WireUnlock ==
  ASSUME NEW w, NEW s \in Nat, NEW t \in Nat, NEW k \in Kinds, WireOK(w, t, <<k, s>>), s # t
  PROVE  WireOK(w, t, None)
BY DEF WireOK, None

LEMMA NewSocketOK ==
  /\ NewSocket \in SocketType
  /\ NewSocket.sender = [k \in Kinds |-> Off] /\ NewSocket.last = 0
  /\ NewSocket.half = None
  /\ \A s, mx : WireOK(NewSocket, s, mx)
<1>1. NewSocket \in SocketType
  BY DEF NewSocket, SocketType, SenderStates, Kinds, None, Off
<1>2. NewSocket.sender = [k \in Kinds |-> Off] /\ NewSocket.last = 0
        /\ NewSocket.half = None /\ NewSocket.torn = FALSE
  BY DEF NewSocket
<1>3. \A k \in Kinds : NewSocket.sender[k][1] # "payload"
  BY <1>2 DEF Off
<1> QED
  BY <1>1, <1>2, <1>3 DEF WireOK

(* Unread forgets what was on the wire and nothing else.                    *)
LEMMA UnreadOK ==
  ASSUME NEW w \in SocketType
  PROVE  /\ Unread(w) \in SocketType
         /\ Unread(w).half = None /\ Unread(w).last = 0
         /\ Unread(w).sender = w.sender /\ Unread(w).torn = w.torn
         /\ Unread(w).cancelled = w.cancelled /\ Unread(w).reader = w.reader
BY DEF Unread, SocketType

-----------------------------------------------------------------------------
(* Steps that leave the senders and the mutex alone.                        *)

\* Such a step keeps every connection in order; it may close some, and then
\* what is on their wires no longer matters.
Calm ==
  /\ sockets' \in Seq(SocketType) /\ Len(sockets') = Len(sockets)
  /\ \A s \in DOMAIN sockets :
       /\ WireOK(sockets'[s], s, mutex)
       /\ sockets'[s].sender = sockets[s].sender
       /\ sockets'[s].last \in {sockets[s].last, 0}
       /\ sockets'[s].half \in {sockets[s].half, None}

\* The step of SamplesInOrder.
SampleStep ==
  \A s \in DOMAIN sockets \cap DOMAIN sockets' :
    sockets'[s].half # sockets[s].half /\ sockets'[s].half[1] = "pen"
      => sockets'[s].last > sockets[s].last

LEMMA Domains ==
  ASSUME Types
  PROVE  /\ DOMAIN sockets = 1 .. Len(sockets) /\ Len(sockets) \in Nat
         /\ DOMAIN jobs = 1 .. Len(jobs) /\ Len(jobs) \in Nat
         /\ DOMAIN queue = 1 .. Len(queue) /\ Len(queue) \in Nat
         /\ \A s \in DOMAIN sockets : sockets[s] \in SocketType
         /\ \A j \in DOMAIN jobs : jobs[j] \in JobType
         /\ \A n \in DOMAIN queue : queue[n] \in Nat
BY DEF Types

(* One connection changes, to v.                                            *)
LEMMA CalmAt ==
  ASSUME Types, Wires, NEW s \in DOMAIN sockets, NEW v \in SocketType,
         sockets' = [sockets EXCEPT ![s] = v],
         WireOK(v, s, mutex), v.sender = sockets[s].sender,
         v.last \in {sockets[s].last, 0}, v.half \in {sockets[s].half, None}
  PROVE  Calm
<1>1. sockets' \in Seq(SocketType) /\ Len(sockets') = Len(sockets)
  BY Domains DEF Types
<1>2. \A t \in DOMAIN sockets : sockets'[t] = IF t = s THEN v ELSE sockets[t]
  OBVIOUS
<1> QED
  BY <1>1, <1>2 DEF Calm, Wires

LEMMA CalmSame ==
  ASSUME Types, Wires, sockets' = sockets
  PROVE  Calm
BY DEF Calm, Wires, Types

LEMMA CalmCleanup ==
  ASSUME Types, Wires, Cleanup
  PROVE  Calm /\ field' = 0 /\ handles' = 0
<1> DEFINE Shut(w) == [Unread(w) EXCEPT !.open = FALSE, !.peer = "closed", !.bye = FALSE]
           Base(s) == IF s = field THEN Shut(sockets[s]) ELSE sockets[s]
           Left(s) == [Base(s) EXCEPT !.cancelled = @ \/ s = handles]
<1>1. sockets' = [s \in DOMAIN sockets |-> Left(s)]
  BY DEF Cleanup
<1>2. ASSUME NEW s \in DOMAIN sockets
      PROVE  /\ Left(s) \in SocketType /\ WireOK(Left(s), s, mutex)
             /\ Left(s).sender = sockets[s].sender
             /\ Left(s).last \in {sockets[s].last, 0}
             /\ Left(s).half \in {sockets[s].half, None}
  <2>1. sockets[s] \in SocketType /\ WireOK(sockets[s], s, mutex)
    BY Domains DEF Wires
  <2>2. /\ Shut(sockets[s]) \in SocketType /\ Shut(sockets[s]).half = None
        /\ Shut(sockets[s]).last = 0 /\ Shut(sockets[s]).sender = sockets[s].sender
        /\ Shut(sockets[s]).torn = sockets[s].torn /\ ~IsHeard(Shut(sockets[s]))
    <3> DEFINE u == Unread(sockets[s])
    <3>1. /\ u \in SocketType /\ u.half = None /\ u.last = 0
          /\ u.sender = sockets[s].sender /\ u.torn = sockets[s].torn
      BY <2>1, UnreadOK
    <3> HIDE DEF u
    <3>2. [u EXCEPT !.open = FALSE, !.peer = "closed", !.bye = FALSE] \in SocketType
      BY <3>1 DEF SocketType
    <3> QED
      BY <3>1, <3>2 DEF SocketType, IsHeard, u
  <2>3. WireOK(Shut(sockets[s]), s, mutex)
    BY <2>1, <2>2, WireShut
  <2>4. /\ Base(s) \in SocketType /\ WireOK(Base(s), s, mutex)
        /\ Base(s).sender = sockets[s].sender
        /\ Base(s).last \in {sockets[s].last, 0}
        /\ Base(s).half \in {sockets[s].half, None}
    BY <2>1, <2>2, <2>3
  <2> HIDE DEF Base
  <2>5. /\ Left(s) \in SocketType /\ Left(s).sender = Base(s).sender
        /\ Left(s).last = Base(s).last /\ Left(s).half = Base(s).half
        /\ Left(s).torn = Base(s).torn /\ IsHeard(Left(s)) = IsHeard(Base(s))
    BY <2>4 DEF SocketType, IsHeard
  <2>6. WireOK(Left(s), s, mutex)
    BY <2>4, <2>5, WireSame
  <2> QED
    BY <2>4, <2>5, <2>6
<1> HIDE DEF Left
<1>3. sockets' \in Seq(SocketType) /\ Len(sockets') = Len(sockets)
  BY <1>1, <1>2, Domains
<1>4. Calm
  BY <1>1, <1>2, <1>3 DEF Calm
<1> QED
  BY <1>4 DEF Cleanup

(* What a calm step does for the wires, the samples and the senders.        *)
LEMMA CalmStep ==
  ASSUME Inv, Calm, mutex' = mutex, queue' = queue, captured' = captured
  PROVE  /\ Wires' /\ QueueOK' /\ SampleStep
         /\ DOMAIN sockets' = DOMAIN sockets
         /\ \A s \in DOMAIN sockets' : \A k \in Kinds : sockets'[s].sender[k][1] \in SendPcs
<1>1. DOMAIN sockets' = DOMAIN sockets
  BY Domains DEF Calm, Inv
<1>2. Wires'
  BY <1>1 DEF Wires, Calm
<1>3. QueueOK'
  <2>1. \A s \in DOMAIN sockets : \A n \in DOMAIN queue : sockets'[s].last < queue[n]
    <3> SUFFICES ASSUME NEW s \in DOMAIN sockets, NEW n \in DOMAIN queue
                 PROVE  sockets'[s].last < queue[n]
      OBVIOUS
    <3>1. sockets[s].last \in Nat /\ queue[n] \in Nat /\ sockets[s].last < queue[n]
      BY Domains DEF Inv, QueueOK, SocketType
    <3> QED
      BY <3>1 DEF Calm
  <2>2. captured = 0 => \A s \in DOMAIN sockets : sockets'[s].last = 0
    BY DEF Calm, Inv, QueueOK
  <2> QED
    BY <1>1, <2>1, <2>2 DEF QueueOK, Inv
<1>4. SampleStep
  BY DEF SampleStep, Calm, None
<1>5. \A s \in DOMAIN sockets' : \A k \in Kinds : sockets'[s].sender[k][1] \in SendPcs
  BY <1>1 DEF Calm, Inv, Types, TypeOK
<1> QED
  BY <1>1, <1>2, <1>3, <1>4, <1>5

-----------------------------------------------------------------------------
(* The jobs.                                                                *)

NoSender == [k \in Kinds |-> Off]

LEMMA GotoOK ==
  ASSUME Types, NEW j \in DOMAIN jobs, NEW p \in JobPcs, Goto(j, p)
  PROVE  /\ jobs' \in Seq(JobType) /\ DOMAIN jobs' = DOMAIN jobs
         /\ \A i \in DOMAIN jobs : i # j => jobs'[i] = jobs[i]
         /\ jobs'[j].pc = p
         /\ jobs'[j].sock = IF p \in {"surface", "join"} THEN jobs[j].sock ELSE 0
<1>1. jobs[j] \in JobType
  BY Domains
<1> DEFINE v == [jobs[j] EXCEPT !.pc = p,
                                !.sock = IF p \in {"surface", "join"} THEN @ ELSE 0]
<1>2. v \in JobType /\ v.pc = p
        /\ v.sock = IF p \in {"surface", "join"} THEN jobs[j].sock ELSE 0
  BY <1>1 DEF JobType
<1>3. jobs' = [jobs EXCEPT ![j] = v]
  BY <1>1 DEF Goto, JobType
<1> HIDE DEF v
<1>4. jobs' \in Seq(JobType) /\ DOMAIN jobs' = DOMAIN jobs
  BY <1>2, <1>3 DEF Types
<1> QED
  BY <1>2, <1>3, <1>4

(* A job that moves on among its own steps, whatever becomes of the         *)
(* connections, neither takes another's connection nor comes back to the    *)
(* handshake.                                                               *)
LEMMA GotoStep ==
  ASSUME Inv, Calm, NEW j \in DOMAIN jobs, NEW p \in JobPcs, Goto(j, p),
         p # "handshake", p = "surface" => jobs[j].pc = "handshake"
  PROVE  jobs' \in Seq(JobType) /\ JobsOK'
         /\ \A i \in DOMAIN jobs' : jobs'[i].sock \in 0 .. Len(sockets')
<1> USE GotoOK DEF Inv
<1>1. jobs' \in Seq(JobType) /\ DOMAIN jobs' = DOMAIN jobs
  OBVIOUS
<1>2. \A i \in DOMAIN jobs : jobs'[i].sock \in {jobs[i].sock, 0}
  OBVIOUS
<1>3. \A i \in DOMAIN jobs : jobs[i].sock \in 0 .. Len(sockets)
  BY DEF Types, TypeOK
<1>4. \A i \in DOMAIN jobs' : jobs'[i].sock \in 0 .. Len(sockets')
  BY <1>1, <1>2, <1>3, Domains DEF Calm
<1>5. ASSUME NEW i \in DOMAIN jobs, jobs'[i].pc \in {"handshake", "surface"}
      PROVE  jobs'[i].sock # 0 /\ sockets'[jobs'[i].sock].sender = NoSender
  <2>1. jobs[i].pc \in {"handshake", "surface"} /\ jobs'[i].sock = jobs[i].sock
    BY <1>5
  <2>2. jobs[i].sock # 0 /\ sockets[jobs[i].sock].sender = NoSender
    BY <2>1 DEF JobsOK, NoSender
  <2>3. jobs[i].sock \in DOMAIN sockets
    BY <1>3, <2>2, Domains
  <2> QED
    BY <2>1, <2>2, <2>3 DEF Calm
<1>6. \A i, k \in DOMAIN jobs : jobs'[i].sock = jobs'[k].sock => i = k \/ jobs'[i].sock = 0
  BY <1>2 DEF JobsOK
<1>7. JobsOK'
  BY <1>1, <1>5, <1>6 DEF JobsOK, NoSender
<1> QED
  BY <1>1, <1>4, <1>7

(* Steps that leave the jobs alone and do not send where nobody sends.      *)
LEMMA JobsStay ==
  ASSUME Inv, jobs' = jobs, sockets' \in Seq(SocketType), Len(sockets') = Len(sockets),
         \A s \in DOMAIN sockets : sockets[s].sender = NoSender => sockets'[s].sender = NoSender
  PROVE  jobs' \in Seq(JobType) /\ JobsOK'
         /\ \A i \in DOMAIN jobs' : jobs'[i].sock \in 0 .. Len(sockets')
<1> USE DEF Inv
<1>1. \A i \in DOMAIN jobs : jobs[i].sock \in 0 .. Len(sockets)
  BY DEF Types, TypeOK
<1>2. ASSUME NEW i \in DOMAIN jobs, jobs[i].pc \in {"handshake", "surface"}
      PROVE  jobs[i].sock # 0 /\ sockets'[jobs[i].sock].sender = NoSender
  <2>1. jobs[i].sock # 0 /\ sockets[jobs[i].sock].sender = NoSender
    BY <1>2 DEF JobsOK, NoSender
  <2>2. jobs[i].sock \in DOMAIN sockets
    BY <1>1, <2>1, Domains
  <2> QED
    BY <2>1, <2>2
<1>3. JobsOK'
  BY <1>2 DEF JobsOK, NoSender
<1> QED
  BY <1>1, <1>3 DEF Types

-----------------------------------------------------------------------------
(* The steps, one lemma for each group of actions.                          *)

(* The part of Types that a step has to establish anew.                     *)
LEMMA TypesFrom ==
  ASSUME jobs' \in Seq(JobType), sockets' \in Seq(SocketType), queue' \in Seq(Nat),
         captured' \in Nat, ui' \in {"stopped", "started", "cleanup"}, crashed' \in BOOLEAN,
         field' \in 0 .. Len(sockets'), handles' \in 0 .. Len(sockets'),
         \A i \in DOMAIN jobs' : jobs'[i].sock \in 0 .. Len(sockets')
  PROVE  Types'
<1>1. \A w \in SocketType : \A k \in Kinds : w.sender[k][1] \in SendPcs
  BY DEF SocketType, SenderStates, SendPcs, Off
<1>2. \A s \in DOMAIN sockets' : sockets'[s] \in SocketType
  OBVIOUS
<1> QED
  BY <1>1, <1>2 DEF Types, TypeOK

(* disconnect() writes its goodbye outside the mutex: what was on the wire  *)
(* no longer matters from there on.                                         *)
LEMMA OnStopCalm ==
  ASSUME Inv, OnStop
  PROVE  Calm
<1> USE DEF Inv
<1>1. CASE field # 0 /\ Writable(field)
  <2> DEFINE v == [Unread(sockets[field]) EXCEPT !.bye = TRUE]
  <2>1. field \in DOMAIN sockets
    BY <1>1, Domains DEF Types, TypeOK
  <2>2. sockets[field] \in SocketType /\ WireOK(sockets[field], field, mutex)
    BY <2>1, Domains DEF Wires
  <2>3. /\ v \in SocketType /\ v.half = None /\ v.last = 0 /\ ~IsHeard(v)
        /\ v.sender = sockets[field].sender /\ v.torn = sockets[field].torn
    <3> DEFINE u == Unread(sockets[field])
    <3>1. /\ u \in SocketType /\ u.half = None /\ u.last = 0
          /\ u.sender = sockets[field].sender /\ u.torn = sockets[field].torn
      BY <2>2, UnreadOK
    <3> HIDE DEF u
    <3>2. /\ v \in SocketType /\ v.half = u.half /\ v.last = u.last /\ v.bye = TRUE
          /\ v.sender = u.sender /\ v.torn = u.torn
      BY <3>1 DEF SocketType, u
    <3> QED
      BY <3>1, <3>2 DEF IsHeard
  <2>4. sockets' = [sockets EXCEPT ![field] = v]
    BY <1>1 DEF OnStop
  <2> HIDE DEF v
  <2>5. WireOK(v, field, mutex)
    BY <2>2, <2>3, WireShut
  <2> QED
    BY <2>1, <2>3, <2>4, <2>5, CalmAt
<1>2. CASE ~(field # 0 /\ Writable(field))
  BY <1>2, CalmSame DEF OnStop
<1> QED
  BY <1>1, <1>2

LEMMA UiStep ==
  ASSUME Inv, OnStart \/ OnStop \/ StopCleansUp \/ CapturePen
  PROVE  Inv' /\ SampleStep
<1> USE DEF Inv
<1>0. /\ field \in 0 .. Len(sockets) /\ handles \in 0 .. Len(sockets)
      /\ \A i \in DOMAIN jobs : jobs[i].sock \in 0 .. Len(sockets)
      /\ ui \in {"stopped", "started", "cleanup"} /\ crashed \in BOOLEAN
      /\ jobs \in Seq(JobType) /\ sockets \in Seq(SocketType)
      /\ queue \in Seq(Nat) /\ captured \in Nat
  BY DEF Types, TypeOK
<1>1. CASE OnStart
  <2> DEFINE job == [pc |-> "launch", cancelled |-> FALSE, sock |-> 0]
  <2>1. job \in JobType /\ job.sock = 0 /\ job.pc = "launch"
    BY DEF JobType, JobPcs
  <2>2. jobs' = Append(jobs, job) /\ sockets' = sockets
    BY <1>1 DEF OnStart
  <2> HIDE DEF job
  <2>3. /\ jobs' \in Seq(JobType) /\ DOMAIN jobs' = DOMAIN jobs \cup {Len(jobs) + 1}
        /\ jobs'[Len(jobs) + 1] = job /\ \A i \in DOMAIN jobs : jobs'[i] = jobs[i]
    BY <1>0, <2>1, <2>2
  <2>4. JobsOK'
    BY <2>1, <2>2, <2>3 DEF JobsOK
  <2>5. Calm
    BY <2>2, CalmSame
  <2>6. Wires' /\ QueueOK' /\ SampleStep
    BY <2>5, <1>1, CalmStep DEF OnStart
  <2>7. \A i \in DOMAIN jobs' : jobs'[i].sock \in 0 .. Len(sockets')
    BY <1>0, <2>1, <2>2, <2>3
  <2>8. Types'
    BY <1>0, <1>1, <2>2, <2>3, <2>7, TypesFrom DEF OnStart
  <2> QED
    BY <2>4, <2>6, <2>8
<1>2. CASE OnStop
  <2>1. Calm
    BY <1>2, OnStopCalm
  <2>2. Wires' /\ QueueOK' /\ SampleStep
    BY <1>2, <2>1, CalmStep DEF OnStop
  <2>3. /\ jobs' \in Seq(JobType) /\ DOMAIN jobs' = DOMAIN jobs
        /\ \A i \in DOMAIN jobs : jobs'[i].sock = jobs[i].sock /\ jobs'[i].pc = jobs[i].pc
    <3> DEFINE v == [jobs[Len(jobs)] EXCEPT !.cancelled = TRUE]
    <3>1. jobs' = [jobs EXCEPT ![Len(jobs)] = v]
      BY <1>2 DEF OnStop
    <3>2. \A i \in DOMAIN jobs : jobs[i] \in JobType
      BY Domains
    <3>3. Len(jobs) \in DOMAIN jobs => /\ v \in JobType /\ v.sock = jobs[Len(jobs)].sock
                                       /\ v.pc = jobs[Len(jobs)].pc
      BY <3>2 DEF JobType
    <3> HIDE DEF v
    <3>4. jobs' \in Seq(JobType) /\ DOMAIN jobs' = DOMAIN jobs
      <4>1. CASE Len(jobs) \in DOMAIN jobs
        BY <4>1, <3>1, <3>3, <1>0
      <4>2. CASE Len(jobs) \notin DOMAIN jobs
        <5>1. DOMAIN jobs' = DOMAIN jobs /\ \A i \in DOMAIN jobs : jobs'[i] = jobs[i]
          BY <4>2, <3>1
        <5>2. jobs \in [1 .. Len(jobs) -> JobType] /\ Len(jobs) \in Nat
          BY <1>0
        <5>3. jobs' \in [1 .. Len(jobs) -> JobType]
          BY <4>2, <3>1, <5>2
        <5> QED
          BY <5>1, <5>2, <5>3
      <4> QED
        BY <4>1, <4>2
    <3>5. \A i \in DOMAIN jobs :
            jobs'[i] = IF i = Len(jobs) THEN v ELSE jobs[i]
      BY <3>1
    <3> QED
      BY <3>3, <3>4, <3>5
  <2>4. \A i \in DOMAIN jobs : jobs[i].sock # 0 => jobs[i].sock \in DOMAIN sockets
    BY <1>0, Domains
  <2>5. JobsOK'
    <3>1. \A s \in DOMAIN sockets : sockets'[s].sender = sockets[s].sender
      BY <2>1 DEF Calm
    <3>2. \A i, j \in DOMAIN jobs' : jobs'[i].sock = jobs'[j].sock => i = j \/ jobs'[i].sock = 0
      BY <2>3 DEF JobsOK
    <3>3. ASSUME NEW j \in DOMAIN jobs', jobs'[j].pc \in {"handshake", "surface"}
          PROVE  jobs'[j].sock # 0 /\ sockets'[jobs'[j].sock].sender = [k \in Kinds |-> Off]
      BY <2>3, <2>4, <3>1, <3>3 DEF JobsOK
    <3> QED
      BY <3>2, <3>3 DEF JobsOK
  <2>6. \A i \in DOMAIN jobs' : jobs'[i].sock \in 0 .. Len(sockets')
    BY <1>0, <2>1, <2>3 DEF Calm
  <2>7. Types'
    BY <1>0, <1>2, <2>1, <2>3, <2>6, TypesFrom DEF OnStop, Calm
  <2> QED
    BY <2>2, <2>5, <2>7
<1>3. CASE StopCleansUp
  <2>1. Calm /\ field' = 0 /\ handles' = 0
    BY <1>3, CalmCleanup DEF StopCleansUp
  <2>2. Wires' /\ QueueOK' /\ SampleStep
    BY <1>3, <2>1, CalmStep DEF StopCleansUp
  <2>3. jobs' \in Seq(JobType) /\ JobsOK'
          /\ \A i \in DOMAIN jobs' : jobs'[i].sock \in 0 .. Len(sockets')
    BY <1>3, <2>1, JobsStay DEF StopCleansUp, Calm
  <2>4. Types'
    BY <1>0, <1>3, <2>1, <2>3, TypesFrom, Domains DEF StopCleansUp, Calm
  <2> QED
    BY <2>2, <2>3, <2>4
<1>4. CASE CapturePen
  <2> DEFINE new == [n \in 1 .. MaxSamples |-> captured + n]
  <2>1. queue = <<>> /\ captured = 0 /\ \A s \in DOMAIN sockets : sockets[s].last = 0
    BY <1>4 DEF CapturePen, QueueOK
  <2>2. new \in Seq(Nat) /\ Len(new) = MaxSamples /\ DOMAIN new = 1 .. MaxSamples
          /\ \A n \in 1 .. MaxSamples : new[n] = n
    BY <2>1, ClientAssumption
  <2> HIDE DEF new
  <2>3. queue' = new
    BY <1>4, <2>1, <2>2, ConcatEmptySeq DEF CapturePen, new
  <2>4. sockets' = sockets /\ jobs' = jobs /\ mutex' = mutex /\ captured' = MaxSamples
    BY <1>4 DEF CapturePen
  <2>5. QueueOK'
    <3>1. \A m, n \in DOMAIN new : m < n => new[m] < new[n]
      BY <2>2
    <3>2. \A s \in DOMAIN sockets : \A n \in DOMAIN new : sockets[s].last < new[n]
      BY <2>1, <2>2
    <3>3. MaxSamples = 0 => new = <<>>
      BY <2>2, EmptySeq
    <3>4. \A n \in DOMAIN new : 0 < new[n]
      BY <2>2, ClientAssumption
    <3> QED
      BY <2>1, <2>3, <2>4, <3>1, <3>2, <3>3, <3>4 DEF QueueOK
  <2>6. Wires' /\ SampleStep /\ JobsOK'
    BY <2>4 DEF Wires, SampleStep, JobsOK
  <2>7. Types'
    BY <1>0, <1>4, <2>2, <2>3, <2>4, ClientAssumption, TypesFrom DEF CapturePen
  <2> QED
    BY <2>5, <2>6, <2>7
<1> QED
  BY <1>1, <1>2, <1>3, <1>4

LEMMA JobStep ==
  ASSUME Inv, NEW j \in DOMAIN jobs, Job(j)
  PROVE  Inv' /\ SampleStep
<1> USE DEF Inv
<1>0. /\ field \in 0 .. Len(sockets) /\ handles \in 0 .. Len(sockets)
      /\ \A i \in DOMAIN jobs : jobs[i].sock \in 0 .. Len(sockets)
      /\ ui \in {"stopped", "started", "cleanup"} /\ crashed \in BOOLEAN
      /\ jobs \in Seq(JobType) /\ sockets \in Seq(SocketType)
      /\ queue \in Seq(Nat) /\ captured \in Nat
  BY DEF Types, TypeOK
<1>1. ASSUME NEW p \in JobPcs, Goto(j, p), p # "handshake",
             p = "surface" => jobs[j].pc = "handshake",
             UNCHANGED <<ui, sockets, field, handles, queue, captured, mutex, crashed>>
      PROVE  Inv' /\ SampleStep
  <2>1. Calm
    BY <1>1, CalmSame
  <2>2. Wires' /\ QueueOK' /\ SampleStep
    BY <1>1, <2>1, CalmStep
  <2>3. jobs' \in Seq(JobType) /\ JobsOK'
          /\ \A i \in DOMAIN jobs' : jobs'[i].sock \in 0 .. Len(sockets')
    BY <1>1, <2>1, GotoStep
  <2>4. Types'
    BY <1>0, <1>1, <2>3, TypesFrom
  <2> QED
    BY <2>2, <2>3, <2>4
<1>2. CASE JobLaunches(j) \/ JobDelays(j)
  <2>1. \E p \in {"done", "connecting"} : Goto(j, p)
    BY <1>2 DEF JobLaunches, JobDelays, AtLoopHead
  <2> QED
    BY <1>1, <1>2, <2>1 DEF JobLaunches, JobDelays, JobPcs
<1>3. CASE JobConnects(j)
  <2> DEFINE n == Len(sockets) + 1
             job == [jobs[j] EXCEPT !.pc = "handshake", !.sock = n]
  <2>1. jobs[j] \in JobType /\ n \in Nat
    BY Domains
  <2>2. job \in JobType /\ job.pc = "handshake" /\ job.sock = n
    BY <2>1 DEF JobType, JobPcs
  <2>3. jobs' = [jobs EXCEPT ![j] = job]
    BY <1>3, <2>1 DEF JobConnects, JobType
  <2> HIDE DEF job
  <2>4. /\ sockets' \in Seq(SocketType) /\ Len(sockets') = n
        /\ DOMAIN sockets' = DOMAIN sockets \cup {n} /\ n \notin DOMAIN sockets
        /\ sockets'[n] = NewSocket /\ \A s \in DOMAIN sockets : sockets'[s] = sockets[s]
    BY <1>0, <1>3, NewSocketOK DEF JobConnects
  <2>5. /\ jobs' \in Seq(JobType) /\ DOMAIN jobs' = DOMAIN jobs /\ jobs'[j] = job
        /\ \A i \in DOMAIN jobs : i # j => jobs'[i] = jobs[i]
    BY <1>0, <2>2, <2>3
  <2>6. field' = n /\ UNCHANGED <<ui, handles, queue, captured, mutex, crashed>>
    BY <1>3 DEF JobConnects
  <2>7. \A i \in DOMAIN jobs : jobs[i].sock # n /\ (jobs[i].sock # 0 => jobs[i].sock \in DOMAIN sockets)
    BY <1>0, Domains
  <2> HIDE DEF n
  <2>8. Wires'
    BY <2>4, <2>6, NewSocketOK DEF Wires
  <2>9. JobsOK'
    <3>1. ASSUME NEW i \in DOMAIN jobs, jobs'[i].pc \in {"handshake", "surface"}
          PROVE  jobs'[i].sock # 0 /\ sockets'[jobs'[i].sock].sender = [k \in Kinds |-> Off]
      <4>1. CASE i = j
        BY <4>1, <2>2, <2>4, <2>5, NewSocketOK, Domains DEF n
      <4>2. CASE i # j
        BY <3>1, <4>2, <2>4, <2>5, <2>7 DEF JobsOK
      <4> QED
        BY <4>1, <4>2
    <3>2. \A i, k \in DOMAIN jobs : jobs'[i].sock = jobs'[k].sock => i = k \/ jobs'[i].sock = 0
      BY <2>2, <2>5, <2>7 DEF JobsOK
    <3> QED
      BY <2>5, <3>1, <3>2 DEF JobsOK
  <2>10. QueueOK'
    <3>1. \A i \in DOMAIN queue : NewSocket.last < queue[i]
      BY NewSocketOK DEF QueueOK
    <3> QED
      BY <2>4, <2>6, <3>1, NewSocketOK DEF QueueOK
  <2>11. SampleStep
    BY <2>4 DEF SampleStep
  <2>12. Types'
    <3>1. \A i \in DOMAIN jobs' : jobs'[i].sock \in 0 .. Len(sockets')
      <4>1. \A i \in DOMAIN jobs : i # j => jobs'[i].sock \in 0 .. Len(sockets)
        BY <1>0, <2>5
      <4>2. jobs'[j].sock = n
        BY <2>2, <2>5
      <4>3. Len(sockets) \in Nat /\ n = Len(sockets) + 1
        BY Domains DEF n
      <4> QED
        BY <2>4, <2>5, <4>1, <4>2, <4>3
    <3>2. field' \in 0 .. Len(sockets') /\ handles' \in 0 .. Len(sockets')
      BY <1>0, <2>4, <2>6, Domains DEF n
    <3> QED
      BY <1>0, <2>4, <2>5, <2>6, <3>1, <3>2, TypesFrom
  <2> QED
    BY <2>8, <2>9, <2>10, <2>11, <2>12
<1>4. CASE JobConnectFails(j)
  BY <1>1, <1>4 DEF JobConnectFails, JobPcs
<1>5. CASE JobHandshake(j) \/ JobHandshakeThrows(j)
  <2>1. \E p \in {"surface", "caught"} : Goto(j, p)
    BY <1>5 DEF JobHandshake, JobHandshakeThrows
  <2> QED
    BY <1>1, <1>5, <2>1 DEF JobHandshake, JobHandshakeThrows, JobPcs
<1>6. CASE \E screen_off \in BOOLEAN : JobStartsSession(j, screen_off)
  <2> DEFINE s == jobs[j].sock
             v == [sockets[s] EXCEPT !.reader = "running",
                                     !.sender = [k \in Kinds |-> <<"idle", 0>>]]
  <2>1. s \in DOMAIN sockets /\ sockets[s].sender = NoSender
    BY <1>0, <1>6, Domains DEF JobStartsSession, JobsOK, NoSender
  <2>2. sockets[s] \in SocketType /\ WireOK(sockets[s], s, mutex)
    BY <2>1, Domains DEF Wires
  <2>3. v \in SocketType /\ v.sender = [k \in Kinds |-> <<"idle", 0>>] /\ v.half = sockets[s].half
          /\ v.torn = sockets[s].torn /\ v.last = sockets[s].last
    BY <2>2 DEF SocketType, SenderStates
  <2>4. sockets' = [sockets EXCEPT ![s] = v]
    BY <1>6, <2>2 DEF JobStartsSession, SocketType
  <2>5. handles' = s /\ Goto(j, "join") /\ UNCHANGED <<ui, field, queue, captured, mutex, crashed>>
    BY <1>6 DEF JobStartsSession
  <2>6. WireOK(v, s, mutex)
    <3>1. \A k \in Kinds : sockets[s].sender[k][1] # "payload"
      BY <2>1 DEF NoSender, Off
    <3>2. \A k \in Kinds : v.sender[k][1] # "payload"
      BY <2>3
    <3> QED
      BY <2>2, <2>3, <3>1, <3>2 DEF WireOK
  <2> HIDE DEF v, s
  <2>7. /\ sockets' \in Seq(SocketType) /\ Len(sockets') = Len(sockets)
        /\ DOMAIN sockets' = DOMAIN sockets
        /\ \A t \in DOMAIN sockets : sockets'[t] = IF t = s THEN v ELSE sockets[t]
    BY <1>0, <2>1, <2>3, <2>4
  <2>8. Wires'
    BY <2>5, <2>6, <2>7 DEF Wires
  <2>9. QueueOK' /\ SampleStep
    BY <2>3, <2>5, <2>7 DEF QueueOK, SampleStep
  <2>10. /\ jobs' \in Seq(JobType) /\ DOMAIN jobs' = DOMAIN jobs
         /\ \A i \in DOMAIN jobs : i # j => jobs'[i] = jobs[i]
         /\ jobs'[j].pc = "join" /\ jobs'[j].sock = s
    BY <2>5, GotoOK DEF JobPcs, s
  <2>11. JobsOK'
    <3>1. ASSUME NEW i \in DOMAIN jobs, jobs'[i].pc \in {"handshake", "surface"}
          PROVE  jobs'[i].sock # 0 /\ sockets'[jobs'[i].sock].sender = NoSender
      <4>1. i # j /\ jobs'[i] = jobs[i]
        BY <2>10, <3>1
      <4>2. jobs[i].sock # 0 /\ sockets[jobs[i].sock].sender = NoSender
        BY <3>1, <4>1 DEF JobsOK, NoSender
      <4>3. jobs[i].sock \in DOMAIN sockets /\ jobs[i].sock # s
        BY <1>0, <4>1, <4>2, Domains DEF JobsOK, s
      <4> QED
        BY <2>7, <4>1, <4>2, <4>3
    <3>2. \A i, k \in DOMAIN jobs : jobs'[i].sock = jobs'[k].sock => i = k \/ jobs'[i].sock = 0
      BY <2>10 DEF JobsOK, s
    <3> QED
      BY <2>10, <3>1, <3>2 DEF JobsOK, NoSender
  <2>12. Types'
    <3>1. \A i \in DOMAIN jobs' : jobs'[i].sock \in 0 .. Len(sockets')
      BY <1>0, <2>7, <2>10 DEF s
    <3> QED
      BY <1>0, <2>5, <2>7, <2>10, <3>1, TypesFrom DEF s
  <2> QED
    BY <2>8, <2>9, <2>11, <2>12
<1>7. CASE JobLacksSurface(j)
  <2>1. \E p \in {"done", "caught"} : Goto(j, p)
    BY <1>7 DEF JobLacksSurface
  <2> QED
    BY <1>1, <1>7, <2>1 DEF JobLacksSurface, JobPcs
<1>8. CASE JobJoins(j)
  <2>1. \E p \in {"done", "caught"} : Goto(j, p)
    BY <1>8 DEF JobJoins
  <2> QED
    BY <1>1, <1>8, <2>1 DEF JobJoins, JobPcs
<1>9. CASE JobCleansUp(j)
  <2>1. Calm /\ field' = 0 /\ handles' = 0
    BY <1>9, CalmCleanup DEF JobCleansUp
  <2>2. Wires' /\ QueueOK' /\ SampleStep
    BY <1>9, <2>1, CalmStep DEF JobCleansUp
  <2>3. \E p \in {"done", "delay"} : Goto(j, p)
    BY <1>9 DEF JobCleansUp
  <2>4. jobs' \in Seq(JobType) /\ JobsOK'
          /\ \A i \in DOMAIN jobs' : jobs'[i].sock \in 0 .. Len(sockets')
    BY <2>1, <2>3, GotoStep DEF JobPcs
  <2>5. Types'
    BY <1>0, <1>9, <2>1, <2>4, TypesFrom, Domains DEF JobCleansUp, Calm
  <2> QED
    BY <2>2, <2>4, <2>5
<1> QED
  BY <1>2, <1>3, <1>4, <1>5, <1>6, <1>7, <1>8, <1>9 DEF Job, JobMoves

(* The read loop and the server: they touch neither senders nor mutex.      *)
LEMMA PeerStep ==
  ASSUME Inv, NEW s \in DOMAIN sockets,
         ReaderReturns(s) \/ ReaderThrows(s) \/ PcGoodbye(s) \/ PcCloses(s)
  PROVE  Inv' /\ SampleStep
<1> USE DEF Inv
<1>0. /\ field \in 0 .. Len(sockets) /\ handles \in 0 .. Len(sockets)
      /\ ui \in {"stopped", "started", "cleanup"} /\ crashed \in BOOLEAN
      /\ sockets \in Seq(SocketType) /\ queue \in Seq(Nat) /\ captured \in Nat
  BY DEF Types, TypeOK
<1>1. sockets[s] \in SocketType /\ WireOK(sockets[s], s, mutex)
  BY Domains DEF Wires
<1>2. ASSUME Calm, UNCHANGED <<ui, jobs, field, handles, queue, captured, mutex, crashed>>
      PROVE  Inv' /\ SampleStep
  <2>1. Wires' /\ QueueOK' /\ SampleStep
    BY <1>2, CalmStep
  <2>2. jobs' \in Seq(JobType) /\ JobsOK'
          /\ \A i \in DOMAIN jobs' : jobs'[i].sock \in 0 .. Len(sockets')
    BY <1>2, JobsStay DEF Calm
  <2>3. Types'
    BY <1>0, <1>2, <2>2, TypesFrom DEF Calm
  <2> QED
    BY <2>1, <2>2, <2>3
<1>3. CASE ReaderReturns(s)
  <2> DEFINE v == [sockets[s] EXCEPT !.reader = "ended"]
  <2>1. /\ v \in SocketType /\ v.sender = sockets[s].sender /\ v.torn = sockets[s].torn
        /\ v.half = sockets[s].half /\ v.last = sockets[s].last
        /\ IsHeard(v) = IsHeard(sockets[s])
    BY <1>1 DEF SocketType, IsHeard
  <2>2. sockets' = [sockets EXCEPT ![s] = v]
    BY <1>3 DEF ReaderReturns
  <2> HIDE DEF v
  <2>3. Calm
    BY <1>1, <2>1, <2>2, WireSame, CalmAt
  <2> QED
    BY <1>2, <1>3, <2>3 DEF ReaderReturns
<1>4. CASE ReaderThrows(s)
  <2>1. /\ jobs' = <<>> /\ sockets' = <<>> /\ queue' = <<>> /\ field' = 0 /\ handles' = 0
        /\ crashed' = TRUE /\ ui' = ui /\ captured' = captured
    BY <1>4 DEF ReaderThrows
  <2>2. DOMAIN jobs' = {} /\ DOMAIN sockets' = {} /\ DOMAIN queue' = {} /\ Len(sockets') = 0
    BY <2>1
  <2>3. Wires' /\ JobsOK' /\ QueueOK' /\ SampleStep
    BY <2>1, <2>2 DEF Wires, JobsOK, QueueOK, SampleStep
  <2>4. jobs' \in Seq(JobType) /\ sockets' \in Seq(SocketType) /\ queue' \in Seq(Nat)
    BY <2>1
  <2>5. Types'
    BY <1>0, <2>1, <2>2, <2>4, TypesFrom
  <2> QED
    BY <2>3, <2>5
<1>5. CASE PcGoodbye(s)
  <2> DEFINE v == [sockets[s] EXCEPT !.peer = "bye"]
  <2>1. /\ v \in SocketType /\ v.sender = sockets[s].sender /\ v.torn = sockets[s].torn
        /\ v.half = sockets[s].half /\ v.last = sockets[s].last
        /\ v.open = sockets[s].open /\ v.bye = sockets[s].bye /\ v.peer = "bye"
    BY <1>1 DEF SocketType
  <2>2. sockets' = [sockets EXCEPT ![s] = v] /\ sockets[s].peer = "up"
    BY <1>5 DEF PcGoodbye
  <2> HIDE DEF v
  <2>3. IsHeard(v) = IsHeard(sockets[s])
    BY <2>1, <2>2 DEF IsHeard
  <2>4. Calm
    BY <1>1, <2>1, <2>2, <2>3, WireSame, CalmAt
  <2> QED
    BY <1>2, <1>5, <2>4 DEF PcGoodbye, ServerUnchanged
<1>6. CASE PcCloses(s)
  <2> DEFINE u == Unread(sockets[s])
             v == [u EXCEPT !.peer = "closed"]
  <2>1. /\ u \in SocketType /\ u.half = None /\ u.last = 0
        /\ u.sender = sockets[s].sender /\ u.torn = sockets[s].torn
    BY <1>1, UnreadOK
  <2>2. sockets' = [sockets EXCEPT ![s] = v]
    BY <1>6 DEF PcCloses
  <2> HIDE DEF u
  <2>3. /\ v \in SocketType /\ v.half = None /\ v.last = 0 /\ v.peer = "closed"
        /\ v.sender = sockets[s].sender /\ v.torn = sockets[s].torn
    BY <2>1 DEF SocketType
  <2> HIDE DEF v
  <2>4. ~IsHeard(v)
    BY <2>3 DEF IsHeard
  <2>5. Calm
    BY <1>1, <2>2, <2>3, <2>4, WireShut, CalmAt
  <2> QED
    BY <1>2, <1>6, <2>5 DEF PcCloses, ServerUnchanged
<1> QED
  BY <1>3, <1>4, <1>5, <1>6

(* The next message is a sample of the channel, older than all that stay in *)
(* it, or a ping that leaves the channel alone.                             *)
LEMMA NextOK ==
  ASSUME Inv, NEW k \in Kinds, k = "pen" => queue # <<>>
  PROVE  LET m == NextMessage(k)[1]
             q == NextMessage(k)[2]
         IN  /\ m \in Nat /\ q \in Seq(Nat)
             /\ \A n \in DOMAIN q : 0 < q[n] /\ \E i \in DOMAIN queue : q[n] = queue[i]
             /\ \A i, n \in DOMAIN q : i < n => q[i] < q[n]
             /\ k = "pen" => /\ \A n \in DOMAIN q : m < q[n]
                             /\ \E i \in DOMAIN queue : m = queue[i]
             /\ k # "pen" => q = queue
<1> USE DEF Inv
<1>1. CASE k # "pen"
  <2>1. NextMessage(k)[1] = 0 /\ NextMessage(k)[2] = queue
    BY <1>1 DEF NextMessage
  <2> QED
    BY <1>1, <2>1 DEF QueueOK, Types
<1>2. CASE k = "pen"
  <2> DEFINE q == Tail(queue)
  <2>1. NextMessage(k)[1] = Head(queue) /\ NextMessage(k)[2] = q
    BY <1>2 DEF NextMessage
  <2>2. queue \in Seq(Nat) /\ queue # <<>>
    BY <1>2 DEF Types
  <2>3. /\ Head(queue) = queue[1] /\ 1 \in DOMAIN queue /\ queue[1] \in Nat
        /\ q \in Seq(Nat) /\ DOMAIN q = 1 .. (Len(queue) - 1) /\ Len(queue) \in Nat
        /\ DOMAIN queue = 1 .. Len(queue)
        /\ \A n \in 1 .. (Len(queue) - 1) : q[n] = queue[n + 1]
    BY <2>2, HeadTailProperties
  <2> HIDE DEF q
  <2>4. \A n \in DOMAIN q : n + 1 \in DOMAIN queue /\ q[n] = queue[n + 1] /\ 1 < n + 1
    BY <2>3
  <2>5. \A n \in DOMAIN q : 0 < q[n] /\ queue[1] < q[n]
    BY <2>3, <2>4 DEF QueueOK
  <2>6. \A i, n \in DOMAIN q : i < n => q[i] < q[n]
    <3> SUFFICES ASSUME NEW i \in DOMAIN q, NEW n \in DOMAIN q, i < n
                 PROVE  queue[i + 1] < queue[n + 1]
      BY <2>4
    <3>1. i \in Nat /\ n \in Nat /\ i + 1 < n + 1
      BY <2>3
    <3> QED
      BY <2>4, <3>1 DEF QueueOK
  <2> QED
    BY <1>2, <2>1, <2>3, <2>4, <2>5, <2>6
<1> QED
  BY <1>1, <1>2

(* The first write: the mutex is free, so no header is in the air anywhere. *)
LEMMA WriteHeaderStep ==
  ASSUME Inv, NEW s \in DOMAIN sockets, NEW k \in Kinds, WriteHeader(s, k)
  PROVE  Inv' /\ SampleStep
<1> USE DEF Inv
<1> DEFINE w == sockets[s]
           m == NextMessage(k)[1]
           q == NextMessage(k)[2]
           then == IF Writable(s) THEN <<"payload", m>> ELSE <<"idle", 0>>
           h == HeaderOut(s, k, m)
           v == [h EXCEPT !.sender[k] = then]
<1>0. /\ field \in 0 .. Len(sockets) /\ handles \in 0 .. Len(sockets)
      /\ ui \in {"stopped", "started", "cleanup"} /\ crashed \in BOOLEAN
      /\ sockets \in Seq(SocketType) /\ queue \in Seq(Nat) /\ captured \in Nat
  BY DEF Types, TypeOK
<1>1. w \in SocketType /\ WireOK(w, s, None) /\ mutex = None
  BY Domains DEF Wires, WriteHeader
<1>2. w.half = None /\ ~w.torn /\ \A i \in Kinds : w.sender[i][1] # "payload"
  <2>1. \A i \in Kinds : <<i, s>> # None
    BY DEF Kinds, None
  <2> QED
    BY <1>1, <2>1 DEF WireOK
<1>3. /\ queue' = q /\ sockets' = [sockets EXCEPT ![s] = v]
      /\ mutex' = IF Writable(s) THEN <<k, s>> ELSE None
      /\ UNCHANGED <<ui, jobs, field, handles, captured, crashed>>
      /\ k = "pen" => queue # <<>>
      /\ w.sender[k] = <<"idle", 0>>
  BY <1>1 DEF WriteHeader, AtSend
<1>4. /\ m \in Nat /\ q \in Seq(Nat)
      /\ \A n \in DOMAIN q : 0 < q[n] /\ \E i \in DOMAIN queue : q[n] = queue[i]
      /\ \A i, n \in DOMAIN q : i < n => q[i] < q[n]
      /\ k = "pen" => /\ \A n \in DOMAIN q : m < q[n]
                      /\ \E i \in DOMAIN queue : m = queue[i]
      /\ k # "pen" => q = queue
  BY <1>3, NextOK
<1>5. then \in SenderStates /\ then[1] = (IF Writable(s) THEN "payload" ELSE "idle")
        /\ (Writable(s) => then = <<"payload", m>>)
  BY <1>4 DEF SenderStates
<1> HIDE DEF m, q, then
<1>6. /\ h \in SocketType /\ h.sender = w.sender /\ h.torn = FALSE
      /\ h.open = w.open /\ h.peer = w.peer /\ h.bye = w.bye
      /\ Heard(s) => h.half = <<k, m>> /\ h.last = IF k = "pen" THEN m ELSE w.last
      /\ ~Heard(s) => h.half = None /\ h.last = w.last
  <2>1. w.torn = FALSE
    BY <1>1, <1>2 DEF SocketType
  <2>2. <<k, m>> \in Kinds \X Nat
    BY <1>4
  <2>3. CASE Heard(s)
    <3> DEFINE x == [w EXCEPT !.torn = @ \/ w.half # None, !.half = <<k, m>>,
                              !.last = IF k = "pen" THEN m ELSE @]
    <3>1. h = x
      BY <2>3 DEF HeaderOut
    <3>2. x.half = <<k, m>> /\ x.last = (IF k = "pen" THEN m ELSE w.last)
            /\ x.sender = w.sender /\ x.open = w.open /\ x.peer = w.peer /\ x.bye = w.bye
      BY <1>1 DEF SocketType
    <3>3. x.torn = FALSE
      BY <1>1, <1>2, <2>1 DEF SocketType
    <3>4. x \in SocketType
      BY <1>1, <1>4, <2>2 DEF SocketType
    <3> QED
      BY <2>3, <3>1, <3>2, <3>3, <3>4
  <2>4. CASE ~Heard(s)
    BY <1>1, <1>2, <2>1, <2>4 DEF HeaderOut
  <2> QED
    BY <2>3, <2>4
<1> HIDE DEF h
<1>7. /\ v \in SocketType /\ v.sender = [w.sender EXCEPT ![k] = then] /\ v.torn = FALSE
      /\ v.half = h.half /\ v.last = h.last
      /\ v.open = w.open /\ v.peer = w.peer /\ v.bye = w.bye
  BY <1>5, <1>6 DEF SocketType
<1> HIDE DEF v
<1>8. IsHeard(v) = Heard(s) /\ (Heard(s) => Writable(s))
  BY <1>7 DEF IsHeard, Heard, Writable
<1>9. WireOK(v, s, mutex')
  <2>1. w.sender \in [Kinds -> SenderStates]
    BY <1>1 DEF SocketType
  <2>2. v.sender[k] = then /\ \A i \in Kinds : i # k => v.sender[i][1] # "payload"
    BY <1>2, <1>7, <2>1
  <2>3. \A i \in Kinds : v.sender[i][1] = "payload" => i = k /\ Writable(s)
    BY <1>5, <2>2
  <2>4. Heard(s) => v.half = <<k, v.sender[k][2]>>
    BY <1>5, <1>6, <1>7, <1>8, <2>2
  <2>5. v.half # None => Heard(s) /\ v.sender[k][1] = "payload"
    BY <1>5, <1>6, <1>7, <1>8, <2>2
  <2> QED
    BY <1>3, <1>7, <1>8, <2>3, <2>4, <2>5 DEF WireOK
<1>10. /\ sockets' \in Seq(SocketType) /\ Len(sockets') = Len(sockets)
       /\ DOMAIN sockets' = DOMAIN sockets
       /\ \A t \in DOMAIN sockets : sockets'[t] = IF t = s THEN v ELSE sockets[t]
  BY <1>0, <1>3, <1>7
<1>11. Wires'
  <2>1. \A t \in DOMAIN sockets : WireOK(sockets[t], t, mutex')
    BY <1>1, WireLock DEF Wires
  <2> QED
    BY <1>9, <1>10, <2>1 DEF Wires
<1>12. jobs' \in Seq(JobType) /\ JobsOK'
         /\ \A i \in DOMAIN jobs' : jobs'[i].sock \in 0 .. Len(sockets')
  <2>1. w.sender # NoSender
    BY <1>3 DEF NoSender, Off
  <2> QED
    BY <1>3, <1>10, <2>1, JobsStay
<1>13. Types'
  BY <1>0, <1>3, <1>4, <1>10, <1>12, TypesFrom
<1>14. QueueOK'
  <2>1. ASSUME NEW t \in DOMAIN sockets, NEW n \in DOMAIN q
        PROVE  sockets'[t].last < q[n]
    <3>1. sockets[t].last < q[n]
      BY <1>4 DEF QueueOK
    <3> QED
      BY <1>4, <1>6, <1>7, <1>10, <3>1
  <2>2. captured = 0 => q = <<>> /\ \A t \in DOMAIN sockets : sockets'[t].last = 0
    <3> SUFFICES ASSUME captured = 0
                 PROVE  q = <<>> /\ \A t \in DOMAIN sockets : sockets'[t].last = 0
      OBVIOUS
    <3>1. queue = <<>> /\ \A t \in DOMAIN sockets : sockets[t].last = 0
      BY DEF QueueOK
    <3>2. k # "pen"
      BY <1>3, <3>1
    <3> QED
      BY <1>4, <1>6, <1>7, <1>10, <3>1, <3>2
  <2> QED
    BY <1>3, <1>4, <1>10, <2>1, <2>2 DEF QueueOK
<1>15. SampleStep
  <2> SUFFICES ASSUME NEW t \in DOMAIN sockets, sockets'[t].half # sockets[t].half,
                      sockets'[t].half[1] = "pen"
               PROVE  sockets'[t].last > sockets[t].last
    BY DEF SampleStep
  <2>1. t = s /\ sockets'[t] = v
    BY <1>10
  <2>2. Heard(s) /\ v.half = <<k, m>>
    BY <1>2, <1>6, <1>7, <2>1
  <2>3. k = "pen"
    BY <2>1, <2>2
  <2>4. v.last = m
    BY <1>6, <1>7, <2>2, <2>3
  <2>5. w.last < m
    BY <1>4, <2>3 DEF QueueOK
  <2> QED
    BY <1>1, <1>4, <2>1, <2>4, <2>5 DEF SocketType
<1> QED
  BY <1>11, <1>12, <1>13, <1>14, <1>15

(* The second write: the header on the wire is the sender's own, and with   *)
(* the mutex it gives up the only open message.                             *)
LEMMA WritePayloadStep ==
  ASSUME Inv, NEW s \in DOMAIN sockets, NEW k \in Kinds, WritePayload(s, k)
  PROVE  Inv' /\ SampleStep
<1> USE DEF Inv
<1> DEFINE w == sockets[s]
           m == w.sender[k][2]
           h == PayloadOut(s, k, m)
           v == [h EXCEPT !.sender[k] = <<"idle", 0>>]
<1>0. /\ field \in 0 .. Len(sockets) /\ handles \in 0 .. Len(sockets)
      /\ ui \in {"stopped", "started", "cleanup"} /\ crashed \in BOOLEAN
      /\ sockets \in Seq(SocketType) /\ queue \in Seq(Nat) /\ captured \in Nat
  BY DEF Types, TypeOK
<1>1. w \in SocketType /\ WireOK(w, s, mutex) /\ w.sender[k][1] = "payload"
  BY Domains DEF Wires, WritePayload
<1>2. mutex = <<k, s>> /\ (Heard(s) => w.half = <<k, m>>) /\ ~w.torn
        /\ (~Heard(s) => w.half = None)
  BY <1>1 DEF WireOK, IsHeard, Heard, Writable
<1>3. /\ sockets' = [sockets EXCEPT ![s] = v] /\ mutex' = None
      /\ UNCHANGED <<ui, jobs, field, handles, queue, captured, crashed>>
  BY DEF WritePayload
<1>4. h \in SocketType /\ h.sender = w.sender /\ h.torn = FALSE /\ h.half = None
        /\ h.last = w.last
  <2>1. w.torn = FALSE
    BY <1>1, <1>2 DEF SocketType
  <2>2. CASE Heard(s)
    BY <1>1, <1>2, <2>1, <2>2 DEF PayloadOut, SocketType
  <2>3. CASE ~Heard(s)
    BY <1>1, <1>2, <2>1, <2>3 DEF PayloadOut
  <2> QED
    BY <2>2, <2>3
<1> HIDE DEF h
<1>5. /\ v \in SocketType /\ v.sender = [w.sender EXCEPT ![k] = <<"idle", 0>>]
      /\ v.torn = FALSE /\ v.half = None /\ v.last = w.last
  BY <1>4 DEF SocketType, SenderStates
<1> HIDE DEF v
<1>6. WireOK(v, s, None)
  <2>1. w.sender \in [Kinds -> SenderStates]
    BY <1>1 DEF SocketType
  <2>2. \A i \in Kinds : i # k => w.sender[i][1] # "payload"
    BY <1>1, <1>2 DEF WireOK
  <2>3. \A i \in Kinds : v.sender[i][1] # "payload"
    BY <1>5, <2>1, <2>2
  <2> QED
    BY <1>5, <2>3 DEF WireOK
<1>7. /\ sockets' \in Seq(SocketType) /\ Len(sockets') = Len(sockets)
      /\ DOMAIN sockets' = DOMAIN sockets
      /\ \A t \in DOMAIN sockets : sockets'[t] = IF t = s THEN v ELSE sockets[t]
  BY <1>0, <1>3, <1>5
<1>8. Wires'
  <2>1. DOMAIN sockets \subseteq Nat
    BY Domains
  <2>2. \A t \in DOMAIN sockets : t # s => WireOK(sockets[t], t, None)
    BY <1>2, <2>1, WireUnlock DEF Wires
  <2> QED
    BY <1>3, <1>6, <1>7, <2>2 DEF Wires
<1>9. jobs' \in Seq(JobType) /\ JobsOK'
        /\ \A i \in DOMAIN jobs' : jobs'[i].sock \in 0 .. Len(sockets')
  <2>1. w.sender # NoSender
    BY <1>1 DEF NoSender, Off
  <2> QED
    BY <1>3, <1>7, <2>1, JobsStay
<1>10. Types'
  BY <1>0, <1>3, <1>7, <1>9, TypesFrom
<1>11. QueueOK'
  BY <1>3, <1>5, <1>7 DEF QueueOK
<1>12. SampleStep
  BY <1>5, <1>7 DEF SampleStep, None
<1> QED
  BY <1>8, <1>9, <1>10, <1>11, <1>12

LEMMA SenderEndsStep ==
  ASSUME Inv, NEW s \in DOMAIN sockets, NEW k \in Kinds, SenderEnds(s, k)
  PROVE  Inv' /\ SampleStep
<1> USE DEF Inv
<1> DEFINE w == sockets[s]
           v == [w EXCEPT !.sender[k] = Off]
<1>0. /\ field \in 0 .. Len(sockets) /\ handles \in 0 .. Len(sockets)
      /\ ui \in {"stopped", "started", "cleanup"} /\ crashed \in BOOLEAN
      /\ sockets \in Seq(SocketType) /\ queue \in Seq(Nat) /\ captured \in Nat
  BY DEF Types, TypeOK
<1>1. w \in SocketType /\ WireOK(w, s, mutex) /\ w.sender[k][1] = "idle"
  BY Domains DEF Wires, SenderEnds
<1>2. /\ sockets' = [sockets EXCEPT ![s] = v]
      /\ UNCHANGED <<ui, jobs, field, handles, queue, captured, mutex, crashed>>
  BY DEF SenderEnds
<1>3. /\ v \in SocketType /\ v.sender = [w.sender EXCEPT ![k] = Off]
      /\ v.torn = w.torn /\ v.half = w.half /\ v.last = w.last
      /\ v.open = w.open /\ v.peer = w.peer /\ v.bye = w.bye
  BY <1>1 DEF SocketType, SenderStates
<1> HIDE DEF v
<1>4. IsHeard(v) = IsHeard(w)
  BY <1>3 DEF IsHeard
<1>5. \A i \in Kinds : /\ v.sender[i][1] = "payload" <=> w.sender[i][1] = "payload"
                       /\ v.sender[i][1] = "payload" => v.sender[i] = w.sender[i]
  <2>1. w.sender \in [Kinds -> SenderStates]
    BY <1>1 DEF SocketType
  <2> QED
    BY <1>1, <1>3, <2>1 DEF Off
<1>6. WireOK(v, s, mutex)
  BY <1>1, <1>3, <1>4, <1>5 DEF WireOK
<1>7. /\ sockets' \in Seq(SocketType) /\ Len(sockets') = Len(sockets)
      /\ DOMAIN sockets' = DOMAIN sockets
      /\ \A t \in DOMAIN sockets : sockets'[t] = IF t = s THEN v ELSE sockets[t]
  BY <1>0, <1>2, <1>3
<1>8. Wires'
  BY <1>2, <1>6, <1>7 DEF Wires
<1>9. jobs' \in Seq(JobType) /\ JobsOK'
        /\ \A i \in DOMAIN jobs' : jobs'[i].sock \in 0 .. Len(sockets')
  <2>1. w.sender # NoSender
    BY <1>1 DEF NoSender, Off
  <2> QED
    BY <1>2, <1>7, <2>1, JobsStay
<1>10. Types'
  BY <1>0, <1>2, <1>7, <1>9, TypesFrom
<1>11. QueueOK' /\ SampleStep
  BY <1>2, <1>3, <1>7 DEF QueueOK, SampleStep
<1> QED
  BY <1>8, <1>9, <1>10, <1>11

LEMMA SenderLosesSampleStep ==
  ASSUME Inv, NEW s \in DOMAIN sockets, SenderLosesSample(s)
  PROVE  Inv' /\ SampleStep
<1> USE DEF Inv
<1> DEFINE q == NextMessage("pen")[2]
<1>1. /\ queue' = q /\ queue # <<>>
      /\ UNCHANGED <<ui, jobs, sockets, field, handles, captured, mutex, crashed>>
  BY DEF SenderLosesSample, AtSend
<1>2. /\ q \in Seq(Nat)
      /\ \A n \in DOMAIN q : 0 < q[n] /\ \E i \in DOMAIN queue : q[n] = queue[i]
      /\ \A i, n \in DOMAIN q : i < n => q[i] < q[n]
  BY <1>1, NextOK DEF Kinds
<1> HIDE DEF q
<1>3. QueueOK'
  <2>1. \A t \in DOMAIN sockets : \A n \in DOMAIN q : sockets[t].last < q[n]
    BY <1>2 DEF QueueOK
  <2>2. captured # 0
    BY <1>1 DEF QueueOK
  <2> QED
    BY <1>1, <1>2, <2>1, <2>2 DEF QueueOK
<1>4. Wires' /\ JobsOK' /\ SampleStep
  BY <1>1 DEF Wires, JobsOK, SampleStep
<1>5. Types'
  BY <1>1, <1>2 DEF Types, TypeOK
<1> QED
  BY <1>3, <1>4, <1>5

-----------------------------------------------------------------------------
LEMMA Step == Inv /\ [Next]_vars => Inv' /\ (SampleStep \/ UNCHANGED vars)
<1> SUFFICES ASSUME Inv, [Next]_vars
             PROVE  Inv' /\ (SampleStep \/ UNCHANGED vars)
  OBVIOUS
<1>1. CASE OnStart \/ OnStop \/ StopCleansUp \/ CapturePen
  BY <1>1, UiStep
<1>2. ASSUME NEW j \in DOMAIN jobs, Job(j) PROVE Inv' /\ SampleStep
  BY <1>2, JobStep
<1>3. ASSUME NEW s \in DOMAIN sockets, Session(s) PROVE Inv' /\ SampleStep
  BY <1>3, PeerStep, SenderLosesSampleStep, WriteHeaderStep, WritePayloadStep, SenderEndsStep
     DEF Session
<1>4. CASE UNCHANGED vars
  BY <1>4 DEF vars, Inv, Types, TypeOK, Wires, JobsOK, QueueOK
<1> QED
  BY <1>1, <1>2, <1>3, <1>4 DEF Next

LEMMA Invariance == Spec => []Inv
<1>1. Init => Inv
  <2> SUFFICES ASSUME Init PROVE Inv
    OBVIOUS
  <2>1. jobs = <<>> /\ sockets = <<>> /\ queue = <<>>
    BY DEF Init
  <2>2. DOMAIN jobs = {} /\ DOMAIN sockets = {} /\ DOMAIN queue = {} /\ Len(sockets) = 0
    BY <2>1
  <2>3. Wires /\ JobsOK /\ QueueOK
    BY <2>1, <2>2 DEF Wires, JobsOK, QueueOK
  <2>4. jobs \in Seq(JobType) /\ sockets \in Seq(SocketType) /\ queue \in Seq(Nat)
    BY <2>1
  <2>5. ui \in {"stopped", "started", "cleanup"} /\ field \in 0 .. 0 /\ handles \in 0 .. 0
          /\ captured \in Nat
    BY DEF Init
  <2>6. crashed \in BOOLEAN
    BY DEF Init
  <2>7. Types
    BY <2>2, <2>4, <2>5, <2>6 DEF Types, TypeOK
  <2> QED
    BY <2>3, <2>7 DEF Inv
<1> QED
  BY <1>1, Step, PTL DEF Spec

(* In every state of the app the fields of PenflowClient refer to           *)
(* connections that were made, and every sender is at one of its steps.     *)
THEOREM TypeCorrect == Spec => []TypeOK
BY Invariance, PTL DEF Inv, Types

(* sendMsg under sendMutex: on every connection each header is followed by  *)
(* its own payload, whatever the senders of old and new sessions do, until  *)
(* disconnect() writes its goodbye.                                         *)
THEOREM FramesWholeHolds == Spec => []FramesWhole
<1>1. Inv => FramesWhole
  BY DEF Inv, Wires, WireOK, FramesWhole
<1> QED
  BY <1>1, Invariance, PTL

(* penSendLoop: each connection carries the pen samples in the order of     *)
(* their capture and none of them twice, however many sessions drain        *)
(* penChannel at a time.                                                    *)
THEOREM SamplesInOrderHolds == Spec => SamplesInOrder
<1>1. Inv /\ [Next]_vars => [SampleStep]_vars
  BY Step
<1> QED
  BY <1>1, Invariance, PTL DEF Spec, SamplesInOrder, SampleStep

-----------------------------------------------------------------------------
(* The clock offset: TimeSync.kt in the setting of ClockSync.               *)

(* What the quotient of two naturals is.                                    *)
LEMMA DivFacts ==
  ASSUME NEW a \in Nat, NEW d \in Nat \ {0}
  PROVE  /\ a \div d \in Nat
         /\ d * (a \div d) <= a
         /\ a < d * (a \div d) + d
  OBVIOUS

(* A positive factor can be cancelled.                                      *)
LEMMA TimesMonotone ==
  ASSUME NEW m \in Int, NEW n \in Int, NEW d \in Nat \ {0}, d * m < d * n
  PROVE  m < n
  OBVIOUS

(* Between two moments the clocks drift apart by what they do in the time   *)
(* between them, up to the unit that the rounding of each may hide.         *)
LEMMA DivDifference ==
  ASSUME NEW a \in Nat, NEW b \in Nat, NEW d \in Nat \ {0}, a <= b
  PROVE  /\ a \div d <= b \div d
         /\ b \div d <= a \div d + (b - a) \div d + 1
  <1> DEFINE p == a \div d
             q == b \div d
             r == (b - a) \div d
  <1>1. p \in Nat /\ d * p <= a /\ a < d * p + d
    BY DivFacts
  <1>2. q \in Nat /\ d * q <= b /\ b < d * q + d
    BY DivFacts
  <1>3. r \in Nat /\ d * r <= b - a /\ b - a < d * r + d
    <2>1. b - a \in Nat
      OBVIOUS
    <2> QED  BY <2>1, DivFacts
  <1> HIDE DEF p, q, r
  <1>4. p < q + 1
    <2>1. d * (q + 1) = d * q + d
      BY <1>2
    <2>2. d * p < d * (q + 1)
      BY <1>1, <1>2, <2>1
    <2> QED  BY <2>2, <1>1, <1>2, TimesMonotone
  <1>5. q < p + r + 2
    <2>1. d * (p + r + 2) = d * p + d * r + d + d
      BY <1>1, <1>3
    <2>2. d * q < d * (p + r + 2)
      BY <1>1, <1>2, <1>3, <2>1
    <2> QED  BY <2>2, <1>1, <1>2, <1>3, TimesMonotone
  <1> QED  BY <1>1, <1>2, <1>3, <1>4, <1>5 DEF p, q, r

(* Gaining or losing, a quotient counts for as much.                        *)
LEMMA RateTimes ==
  ASSUME NEW rate \in {-1, 1}, NEW p \in Nat
  PROVE  /\ rate * p \in Int
         /\ rate = 1 => rate * p = p
         /\ rate = -1 => rate * p = -p
  <1>1. CASE rate = 1
    BY <1>1
  <1>2. CASE rate = -1
    BY <1>2
  <1> QED  BY <1>1, <1>2

(* Min of a set of naturals that is not empty.                              *)
LEMMA LeastNatural ==
  ASSUME NEW T \in SUBSET Nat, T # {}
  PROVE  Min(T) \in T /\ \A y \in T : Min(T) <= y
  <1>1. PICK x \in T : \A y \in T : << y, x >> \notin OpToRel(<, Nat)
    BY NatLessThanWellFounded, WFMin
  <1>2. \A y \in T : ~(y < x)
    BY <1>1 DEF OpToRel
  <1>3. \A y \in T : x <= y
    BY <1>2
  <1> QED  BY <1>3 DEF Min

ClockType == [ahead : Int, drift : Nat \ {0}, rate : {-1, 1}]
LegType == [at : Nat, mutex : Nat, out : Nat, writer : Nat, back : Nat]
SampleType == [rtt : Nat, offset : Int, recv : Nat]

(* Samples in the order they were received: removeFirst while the oldest    *)
(* is too old leaves exactly the ones that are not.                         *)
LEMMA AgeOutFacts ==
  ASSUME NEW s \in Seq(SampleType), NEW cutoff \in Int, s # <<>>,
         \A i, j \in 1 .. Len(s) : i <= j => s[i].recv <= s[j].recv,
         s[Len(s)].recv >= cutoff
  PROVE  \E n \in 1 .. Len(s) : /\ AgeOut(s, cutoff) = SubSeq(s, n, Len(s))
                                /\ \A i \in 1 .. Len(s) : s[i].recv >= cutoff <=> i >= n
  <1> DEFINE Fresh == {i \in 1 .. Len(s) : s[i].recv >= cutoff}
  <1>1. Len(s) \in Nat /\ Len(s) # 0
    OBVIOUS
  <1>2. Len(s) \in Fresh
    BY <1>1
  <1>3. Fresh \in SUBSET Nat /\ Fresh # {}
    BY <1>1, <1>2
  <1>4. Min(Fresh) \in Fresh /\ \A i \in Fresh : Min(Fresh) <= i
    BY <1>3, LeastNatural
  <1>5. Min(Fresh) \in 1 .. Len(s)
    BY <1>4
  <1>6. Min(Fresh) # 0
    BY <1>5
  <1>7. AgeOut(s, cutoff) = SubSeq(s, Min(Fresh), Len(s))
    BY <1>3, <1>6 DEF AgeOut, SelectInSeq
  <1>8. ASSUME NEW i \in 1 .. Len(s)
        PROVE  s[i].recv >= cutoff <=> i >= Min(Fresh)
    <2>0. s[i] \in SampleType /\ s[Min(Fresh)] \in SampleType
      BY <1>5
    <2>1. s[i].recv \in Nat /\ s[Min(Fresh)].recv \in Nat
      BY <2>0 DEF SampleType
    <2>2. CASE s[i].recv >= cutoff
      BY <2>2, <1>4, <1>5
    <2>3. CASE i >= Min(Fresh)
      <3>1. s[Min(Fresh)].recv <= s[i].recv
        BY <2>3, <1>5
      <3>2. s[Min(Fresh)].recv >= cutoff
        BY <1>4
      <3> QED  BY <2>1, <2>3, <3>1, <3>2
    <2> QED  BY <2>2, <2>3
  <1> QED  BY <1>5, <1>7, <1>8

(* The loop over the samples finds one with the least round trip.           *)
LEMMA BestFacts ==
  ASSUME NEW s \in Seq(SampleType), s # <<>>
  PROVE  \E k \in 1 .. Len(s) : Best(s) = s[k] /\ \A i \in 1 .. Len(s) : s[k].rtt <= s[i].rtt
  <1> DEFINE Rtts == {s[i].rtt : i \in 1 .. Len(s)}
             Least == {i \in 1 .. Len(s) : \A j \in DOMAIN s : s[i].rtt <= s[j].rtt}
  <1>1. Len(s) \in Nat /\ Len(s) # 0 /\ DOMAIN s = 1 .. Len(s)
    OBVIOUS
  <1>2. Rtts \in SUBSET Nat
    <2>1. ASSUME NEW i \in 1 .. Len(s)
          PROVE  s[i].rtt \in Nat
      <3>1. s[i] \in SampleType
        OBVIOUS
      <3> QED  BY <3>1 DEF SampleType
    <2> QED  BY <2>1
  <1>3. s[1].rtt \in Rtts
    BY <1>1
  <1>4. Min(Rtts) \in Rtts /\ \A r \in Rtts : Min(Rtts) <= r
    BY <1>2, <1>3, LeastNatural
  <1>5. PICK k \in 1 .. Len(s) : s[k].rtt = Min(Rtts)
    BY <1>4
  <1>6. k \in Least
    BY <1>1, <1>4, <1>5
  <1>7. Least \in SUBSET Nat /\ Least # {}
    BY <1>1, <1>6
  <1>8. Min(Least) \in Least
    BY <1>7, LeastNatural
  <1>9. SelectInSeq(s, LAMBDA r : \A j \in DOMAIN s : r.rtt <= s[j].rtt) = Min(Least)
    BY <1>7 DEF SelectInSeq
  <1>10. Best(s) = s[Min(Least)]
    BY <1>9 DEF Best
  <1> QED  BY <1>1, <1>8, <1>10

(* What observe makes of one exchange: the round trip counts both waits.     *)
LEMMA SampleFacts ==
  ASSUME NEW c \in ClockType, NEW leg \in LegType
  PROVE  /\ Sample(Exchange(c, leg)) \in SampleType
         /\ Rtt(Exchange(c, leg)) = Trip(leg)
         /\ Exchange(c, leg).t4 = Received(leg)
         /\ Sample(Exchange(c, leg)).rtt = Trip(leg)
         /\ Sample(Exchange(c, leg)).recv = Received(leg)
         /\ Sample(Exchange(c, leg)).offset
              = PcClock(c, leg.at + leg.mutex + leg.out) - (leg.at + Trip(leg) \div 2)
         /\ Trip(leg) \in Nat /\ Received(leg) \in Nat
  <1> DEFINE arrives == leg.at + leg.mutex + leg.out
             stamp == PcClock(c, arrives)
             x == Exchange(c, leg)
  <1>1. /\ leg.at \in Nat /\ leg.mutex \in Nat /\ leg.out \in Nat /\ leg.writer \in Nat /\ leg.back \in Nat
        /\ c.ahead \in Int /\ c.drift \in Nat \ {0} /\ c.rate \in {-1, 1}
    BY DEF LegType, ClockType
  <1>2. arrives \in Nat
    BY <1>1
  <1>3. c.rate * (arrives \div c.drift) \in Int
    <2>1. arrives \div c.drift \in Nat
      BY <1>1, <1>2, DivFacts
    <2> QED  BY <1>1, <2>1, RateTimes
  <1>4. stamp \in Int
    BY <1>1, <1>2, <1>3 DEF PcClock
  <1>5. x = [t1 |-> leg.at, t2 |-> stamp, t3 |-> stamp, t4 |-> arrives + leg.writer + leg.back]
    BY DEF Exchange
  <1>6. x.t1 = leg.at /\ x.t2 = stamp /\ x.t3 = stamp /\ x.t4 = arrives + leg.writer + leg.back
    BY <1>5
  <1>7. Trip(leg) \in Nat /\ Received(leg) \in Nat
    BY <1>1 DEF Trip, Received
  <1> HIDE DEF stamp, x
  <1>8. x.t4 = Received(leg)
    BY <1>1, <1>6 DEF Trip, Received
  <1>9. Rtt(x) = Trip(leg)
    BY <1>1, <1>4, <1>6 DEF Rtt, Trip
  <1>10. Trip(leg) \div 2 \in Nat
    BY <1>7
  <1>11. Sample(x) = [rtt |-> Trip(leg), offset |-> stamp - (leg.at + Trip(leg) \div 2), recv |-> Received(leg)]
    BY <1>6, <1>8, <1>9 DEF Sample
  <1>12. stamp - (leg.at + Trip(leg) \div 2) \in Int
    BY <1>1, <1>4, <1>10
  <1>13. Sample(x) \in SampleType
    BY <1>7, <1>11, <1>12 DEF SampleType
  <1> QED  BY <1>7, <1>8, <1>9, <1>11, <1>13 DEF x, stamp

(* The error of the offset of one exchange that was received within the     *)
(* last window: half its round trip, wherever the time was spent, and the   *)
(* drift since the request arrived.                                         *)
LEMMA ErrorBound ==
  ASSUME NEW c \in ClockType, NEW leg \in LegType, NEW now \in Nat,
         Received(leg) <= now, Received(leg) >= now - Window
  PROVE  Abs(Sample(Exchange(c, leg)).offset - (PcClock(c, now) - now))
           <= Trip(leg) \div 2 + (Window + Trip(leg)) \div c.drift + 2
  <1> DEFINE arrives == leg.at + leg.mutex + leg.out
             trip == Trip(leg)
             half == trip \div 2
             p == arrives \div c.drift
             q == now \div c.drift
             gainP == c.rate * p
             gainQ == c.rate * q
             r == (now - arrives) \div c.drift
             w == (Window + trip) \div c.drift
             error == Sample(Exchange(c, leg)).offset - (PcClock(c, now) - now)
  <1>1. /\ leg.at \in Nat /\ leg.mutex \in Nat /\ leg.out \in Nat /\ leg.writer \in Nat /\ leg.back \in Nat
        /\ c.ahead \in Int /\ c.drift \in Nat \ {0} /\ c.rate \in {-1, 1} /\ Window \in Nat
    BY ClockAssumption DEF LegType, ClockType
  <1>2. /\ arrives \in Nat /\ trip \in Nat /\ leg.at <= arrives
        /\ arrives <= leg.at + trip /\ leg.at + trip <= now /\ leg.at + trip >= now - Window
    BY <1>1 DEF Trip, Received
  <1>3. half \in Nat /\ 2 * half <= trip /\ trip <= 2 * half + 1
    BY <1>2
  <1>4. now - arrives \in Nat /\ Window + trip \in Nat /\ now - arrives <= Window + trip /\ arrives <= now
    BY <1>1, <1>2
  <1>5. p \in Nat /\ q \in Nat /\ r \in Nat /\ w \in Nat
    BY <1>1, <1>2, <1>4, DivFacts
  <1>6. p <= q /\ q <= p + r + 1
    BY <1>1, <1>2, <1>4, DivDifference
  <1>7. r <= w
    BY <1>1, <1>4, DivDifference
  <1>0. Sample(Exchange(c, leg)).offset = PcClock(c, arrives) - (leg.at + half)
    BY SampleFacts
  <1>8. Sample(Exchange(c, leg)).offset = arrives + c.ahead + gainP - (leg.at + half)
    <2>1. PcClock(c, arrives) = arrives + c.ahead + gainP
      BY DEF PcClock
    <2> HIDE DEF p, half, arrives
    <2> QED  BY <1>0, <2>1, <1>1, <1>2, <1>3, <1>5
  <1>9. PcClock(c, now) = now + c.ahead + gainQ
    BY DEF PcClock
  <1> HIDE DEF p, q
  <1>10. /\ gainP \in Int /\ gainQ \in Int
         /\ gainP - gainQ <= r + 1 /\ gainQ - gainP <= r + 1
    <2>1. (gainP = p /\ gainQ = q) \/ (gainP = -p /\ gainQ = -q)
      BY <1>1, <1>5, RateTimes
    <2> HIDE DEF gainP, gainQ, r
    <2> QED  BY <1>5, <1>6, <2>1
  <1> HIDE DEF gainP, gainQ
  <1>11. error = (arrives - leg.at) - half + gainP - gainQ
    <2> HIDE DEF half, arrives
    <2> QED  BY <1>1, <1>2, <1>3, <1>8, <1>9, <1>10
  <1> HIDE DEF arrives, trip, half, r, w, error
  <1>13. error \in Int /\ error <= half + w + 2 /\ -error <= half + w + 2
    BY <1>1, <1>2, <1>3, <1>5, <1>7, <1>10, <1>11
  <1>12. Abs(error) <= half + w + 2
    BY <1>13 DEF Abs
  <1> QED  BY <1>12 DEF error, half, w, trip
(* The inductive invariant.  The samples are the last Kept exchanges heard;  *)
(* the Gone ones before them are those that fell out of the window.          *)
Kept == Len(est.samples)
Gone == Len(heard) - Kept

ClockTypes ==
  /\ pcClock \in ClockType /\ sent \in Nat /\ heard \in Seq(LegType)
  /\ est.samples \in Seq(SampleType) /\ Kept <= Len(heard)

InOrder == \A i, j \in DOMAIN heard : i <= j => Received(heard[i]) <= Received(heard[j])

WindowKept ==
  /\ \A i \in 1 .. Kept : est.samples[i] = Sample(Exchange(pcClock, heard[Gone + i]))
  /\ \A i \in 1 .. Len(heard) : Received(heard[i]) >= Now - Window <=> i > Gone

BestChosen ==
  heard # <<>> =>
    \E k \in 1 .. Kept :
      /\ est.bestRtt = est.samples[k].rtt /\ est.pcMinusAndroid = est.samples[k].offset
      /\ \A i \in 1 .. Kept : est.samples[k].rtt <= est.samples[i].rtt

ClockInv == ClockTypes /\ InOrder /\ WindowKept /\ BestChosen

(* reset() at the start of a connection.                                    *)
LEMMA FreshConnection ==
  ASSUME pcClock \in Clocks, sent \in Nat, heard = <<>>, est = Reset
  PROVE  ClockInv
  <1>1. est.samples = <<>> /\ Len(heard) = 0 /\ Kept = 0
    BY DEF Reset, Kept
  <1>2. ClockTypes
    BY <1>1, ClockAssumption DEF ClockTypes, ClockType
  <1>3. InOrder /\ WindowKept /\ BestChosen
    BY <1>1 DEF InOrder, WindowKept, BestChosen
  <1> QED  BY <1>2, <1>3 DEF ClockInv

LEMMA ReconnectKeeps ==
  ASSUME ClockInv, Reconnects
  PROVE  ClockInv'
  <1>1. pcClock' \in Clocks /\ sent' \in Nat /\ heard' = <<>> /\ est' = Reset
    BY DEF Reconnects, ClockInv, ClockTypes
  <1>2. est'.samples = <<>> /\ Len(heard') = 0 /\ Kept' = 0
    BY <1>1 DEF Reset, Kept
  <1>3. ClockTypes'
    BY <1>1, <1>2, ClockAssumption DEF ClockTypes, ClockType
  <1>4. InOrder' /\ WindowKept' /\ BestChosen'
    BY <1>1, <1>2 DEF InOrder, WindowKept, BestChosen
  <1> QED  BY <1>3, <1>4 DEF ClockInv

(* Positions behind the samples that are gone.                              *)
LEMMA BehindGone ==
  ASSUME NEW n \in Nat, NEW k \in Nat, NEW g \in Nat, g = n - k, NEW i \in 1 .. n + 1, i > g
  PROVE  i - g \in 1 .. k + 1 /\ g + (i - g) = i
  OBVIOUS

LEMMA StillBehind ==
  ASSUME NEW i \in Int, NEW g \in Nat, NEW f \in Int
  PROVE  i - g >= f <=> i > g + f - 1
  OBVIOUS

(* observe() of the next answer: the samples that stay are the exchanges of *)
(* the window that ends with it, and the best of them is chosen.            *)
LEMMA AnswerKeeps ==
  ASSUME ClockInv, NEW gap \in Gaps, NEW w \in Waits, HearsAnswer(gap, w)
  PROVE  ClockInv'
  <1> DEFINE leg == Leg(sent + gap, w)
             n == Len(heard)
             x == Exchange(pcClock, leg)
             cutoff == Received(leg) - Window
             all == Append(est.samples, Sample(x))
             kept == AgeOut(all, cutoff)
  <1>1. /\ sent' = leg.at /\ heard' = Append(heard, leg) /\ pcClock' = pcClock
        /\ est' = Observe(est, x, Window)
        /\ \A i \in DOMAIN heard : Received(heard[i]) <= Received(leg)
    BY DEF HearsAnswer
  <1>2. /\ pcClock \in ClockType /\ heard \in Seq(LegType) /\ n \in Nat
        /\ est.samples \in Seq(SampleType) /\ Kept \in Nat /\ Kept <= n
        /\ Gone \in Nat /\ Gone = n - Kept /\ Window \in Nat
    BY ClockAssumption DEF ClockInv, ClockTypes, Kept, Gone
  <1>3. leg \in LegType /\ leg.at \in Nat
    <2>1. sent + gap \in Nat /\ w \in [mutex : Nat, out : Nat, writer : Nat, back : Nat]
      BY ClockAssumption DEF ClockInv, ClockTypes
    <2> QED  BY <2>1 DEF Leg, LegType
  <1>4. /\ Sample(x) \in SampleType /\ Rtt(x) = Trip(leg) /\ x.t4 = Received(leg)
        /\ Sample(x).recv = Received(leg) /\ Trip(leg) \in Nat /\ Received(leg) \in Nat
    BY <1>2, <1>3, SampleFacts
  <1>5. /\ est'.samples = kept /\ est'.bestRtt = Best(kept).rtt /\ est'.pcMinusAndroid = Best(kept).offset
    <2>1. ~(Rtt(x) < 0)
      BY <1>4
    <2>2. Observe(est, x, Window) = [samples |-> kept, pcMinusAndroid |-> Best(kept).offset,
                                     bestRtt |-> Best(kept).rtt, total |-> est.total + 1]
      BY <2>1, <1>4 DEF Observe
    <2> QED  BY <1>1, <2>2
  <1>6. /\ heard' \in Seq(LegType) /\ Len(heard') = n + 1 /\ heard'[n + 1] = leg
        /\ \A i \in 1 .. n : heard'[i] = heard[i]
    BY <1>1, <1>2, <1>3
  <1>7. /\ all \in Seq(SampleType) /\ Len(all) = Kept + 1 /\ all[Kept + 1] = Sample(x) /\ all # <<>>
        /\ \A i \in 1 .. Kept : all[i] = est.samples[i]
    BY <1>2, <1>4 DEF Kept
  <1> HIDE DEF leg, x, all, kept
  <1>8. ASSUME NEW i \in 1 .. Kept + 1
        PROVE  /\ Gone + i \in 1 .. n + 1
               /\ heard'[Gone + i] \in LegType
               /\ all[i] = Sample(Exchange(pcClock, heard'[Gone + i]))
               /\ all[i].recv = Received(heard'[Gone + i])
    <2>1. Gone + i \in 1 .. n + 1
      BY <1>2
    <2>2. heard'[Gone + i] \in LegType
      BY <1>6, <2>1
    <2>3. all[i] = Sample(Exchange(pcClock, heard'[Gone + i]))
      <3>1. CASE i = Kept + 1
        BY <3>1, <1>2, <1>6, <1>7 DEF x
      <3>2. CASE i # Kept + 1
        <4>1. i \in 1 .. Kept /\ Gone + i \in 1 .. n
          BY <3>2, <1>2
        <4>2. est.samples[i] = Sample(Exchange(pcClock, heard[Gone + i]))
          BY <4>1 DEF ClockInv, WindowKept
        <4> QED  BY <4>1, <4>2, <1>6, <1>7
      <3> QED  BY <3>1, <3>2
    <2>4. all[i].recv = Received(heard'[Gone + i])
      BY <2>2, <2>3, <1>2, SampleFacts
    <2> QED  BY <2>1, <2>2, <2>3, <2>4
  <1>9. ASSUME NEW i \in 1 .. n + 1
        PROVE  heard'[i] \in LegType /\ Received(heard'[i]) \in Nat
    BY <1>2, <1>6, SampleFacts
  <1>10. InOrder'
    <2>1. ASSUME NEW i \in 1 .. n + 1, NEW j \in 1 .. n + 1, i <= j
          PROVE  Received(heard'[i]) <= Received(heard'[j])
      <3>1. CASE j = n + 1
        <4>1. CASE i = n + 1
          BY <3>1, <4>1, <1>9
        <4>2. CASE i # n + 1
          <5>1. i \in 1 .. n /\ i \in DOMAIN heard
            BY <4>2, <1>2
          <5> QED  BY <5>1, <3>1, <1>1, <1>6
        <4> QED  BY <4>1, <4>2
      <3>2. CASE j # n + 1
        <4>1. i \in 1 .. n /\ j \in 1 .. n
          BY <2>1, <3>2, <1>2
        <4> QED  BY <4>1, <2>1, <1>2, <1>6 DEF ClockInv, InOrder
      <3> QED  BY <3>1, <3>2
    <2>2. DOMAIN heard' = 1 .. n + 1
      BY <1>6
    <2> QED  BY <2>1, <2>2 DEF InOrder
  <1>11. PICK f \in 1 .. Len(all) : /\ kept = SubSeq(all, f, Len(all))
                                    /\ \A i \in 1 .. Len(all) : all[i].recv >= cutoff <=> i >= f
    <2>1. \A i, j \in 1 .. Len(all) : i <= j => all[i].recv <= all[j].recv
      <3>1. ASSUME NEW i \in 1 .. Kept + 1, NEW j \in 1 .. Kept + 1, i <= j
            PROVE  all[i].recv <= all[j].recv
        <4>1. Gone + i \in DOMAIN heard' /\ Gone + j \in DOMAIN heard' /\ Gone + i <= Gone + j
          BY <3>1, <1>2, <1>6, <1>8
        <4>2. Received(heard'[Gone + i]) <= Received(heard'[Gone + j])
          BY <4>1, <1>10 DEF InOrder
        <4> QED  BY <4>2, <1>8
      <3> QED  BY <3>1, <1>7
    <2>2. cutoff \in Int /\ all[Len(all)].recv >= cutoff
      BY <1>2, <1>4, <1>7
    <2> QED  BY <2>1, <2>2, <1>7, AgeOutFacts DEF kept
  <1>12. /\ kept \in Seq(SampleType) /\ Len(kept) = Kept + 2 - f /\ f \in 1 .. Kept + 1 /\ kept # <<>>
         /\ \A i \in 1 .. Kept + 2 - f : kept[i] = all[f + i - 1]
    <2>1. f \in 1 .. Kept + 1 /\ Len(all) = Kept + 1
      BY <1>7
    <2>2. kept \in Seq(SampleType) /\ Len(kept) = Kept + 2 - f
      BY <2>1, <1>2, <1>7, <1>11
    <2>3. \A i \in 1 .. Kept + 2 - f : kept[i] = all[f + i - 1]
      BY <2>1, <1>2, <1>7, <1>11
    <2> QED  BY <2>1, <2>2, <2>3, <1>2
  <1>13. Kept' = Kept + 2 - f /\ Gone' = Gone + f - 1
    BY <1>2, <1>5, <1>6, <1>12 DEF Kept, Gone
  <1>14. ClockTypes'
    BY <1>1, <1>2, <1>3, <1>5, <1>6, <1>12, <1>13 DEF ClockTypes
  <1>15. WindowKept'
    <2>1. ASSUME NEW i \in 1 .. Kept'
          PROVE  est'.samples[i] = Sample(Exchange(pcClock', heard'[Gone' + i]))
      <3>1. f + i - 1 \in 1 .. Kept + 1 /\ Gone + (f + i - 1) = Gone' + i
        BY <1>2, <1>12, <1>13
      <3> QED  BY <3>1, <1>1, <1>5, <1>8, <1>12, <1>13
    <2>2. ASSUME NEW i \in 1 .. Len(heard')
          PROVE  Received(heard'[i]) >= Now' - Window <=> i > Gone'
      <3>1. Now' - Window = cutoff /\ cutoff \in Int
        BY <1>2, <1>4, <1>6 DEF Now
      <3>2. CASE i > Gone
        <4>1. i - Gone \in 1 .. Kept + 1 /\ Gone + (i - Gone) = i
          <5>1. i \in 1 .. n + 1
            BY <1>6
          <5> QED  BY <3>2, <5>1, <1>2, BehindGone
        <4>2. all[i - Gone].recv = Received(heard'[i])
          BY <4>1, <1>8
        <4>3. all[i - Gone].recv >= cutoff <=> i - Gone >= f
          BY <4>1, <1>7, <1>11
        <4>4. i - Gone >= f <=> i > Gone'
          <5>1. i \in Int /\ f \in Int
            BY <1>6, <1>12
          <5> QED  BY <5>1, <1>2, <1>13, StillBehind
        <4>5. Received(heard'[i]) >= Now' - Window <=> i - Gone >= f
          BY <3>1, <4>2, <4>3, Zenon
        <4> QED  BY <4>4, <4>5, Zenon
      <3>3. CASE ~(i > Gone)
        <4>1. i \in 1 .. n /\ ~(i > Gone')
          BY <3>3, <1>2, <1>6, <1>12, <1>13
        <4>2. ~(Received(heard[i]) >= Now - Window)
          BY <3>3, <4>1 DEF ClockInv, WindowKept
        <4>3. n \in 1 .. n /\ heard[n] \in LegType /\ Received(heard[n]) \in Nat /\ Received(heard[i]) \in Nat
          <5>1. n \in 1 .. n
            BY <4>1, <1>2
          <5>2. heard[n] \in LegType /\ heard[i] \in LegType
            BY <4>1, <5>1, <1>2
          <5> QED  BY <5>1, <5>2, <1>2, SampleFacts
        <4>4. Now \in Nat /\ Now <= Received(leg)
          BY <4>3, <1>1, <1>2 DEF Now, leg
        <4>5. heard'[i] = heard[i]
          BY <4>1, <1>6
        <4>6. ~(Received(heard[i]) >= cutoff)
          BY <4>2, <4>3, <4>4, <1>2, <1>4
        <4>7. ~(Received(heard'[i]) >= Now' - Window)
          BY <3>1, <4>5, <4>6, Zenon
        <4> QED  BY <4>1, <4>7
      <3> QED  BY <3>2, <3>3
    <2> QED  BY <2>1, <2>2 DEF WindowKept
  <1>16. BestChosen'
    <2>1. PICK k \in 1 .. Len(kept) : Best(kept) = kept[k] /\ \A i \in 1 .. Len(kept) : kept[k].rtt <= kept[i].rtt
      BY <1>12, BestFacts
    <2> QED  BY <2>1, <1>5, <1>12, <1>13 DEF BestChosen
  <1> QED  BY <1>10, <1>14, <1>15, <1>16 DEF ClockInv
LEMMA ClockStep == ClockInv /\ [ClockNext]_clockVars => ClockInv'
  <1> SUFFICES ASSUME ClockInv, [ClockNext]_clockVars PROVE ClockInv'
    OBVIOUS
  <1>1. ASSUME NEW gap \in Gaps, NEW w \in Waits, HearsAnswer(gap, w)
        PROVE  ClockInv'
    BY <1>1, AnswerKeeps
  <1>2. CASE Reconnects
    BY <1>2, ReconnectKeeps
  <1>3. CASE UNCHANGED clockVars
    BY <1>3 DEF clockVars, ClockInv, ClockTypes, InOrder, WindowKept, BestChosen, Kept, Gone, Now
  <1> QED  BY <1>1, <1>2, <1>3 DEF ClockNext

(* The estimator holds exactly the exchanges of the last window, with the   *)
(* offset of one that has the shortest round trip, on every connection.     *)
THEOREM ClockInvariance == ClockSpec => []ClockInv
  <1>1. ClockInit => ClockInv
    <2>1. 0 \in Nat
      OBVIOUS
    <2> QED  BY <2>1, FreshConnection DEF ClockInit
  <1> QED  BY <1>1, ClockStep, PTL DEF ClockSpec

(* The chosen sample is the best of the recent exchanges, so ErrorBound     *)
(* applies to it.                                                           *)
LEMMA InvGivesOffset == ClockInv => OffsetWithinTrip
  <1> SUFFICES ASSUME ClockInv, heard # <<>>
               PROVE  /\ est.bestRtt = Shortest
                      /\ Abs(est.pcMinusAndroid - (PcClock(pcClock, Now) - Now))
                           <= Shortest \div 2 + (Window + Shortest) \div pcClock.drift + 2
    BY DEF OffsetWithinTrip
  <1> DEFINE n == Len(heard)
             Trips == {Trip(heard[i]) : i \in Recent}
  <1>1. /\ pcClock \in ClockType /\ heard \in Seq(LegType) /\ n \in Nat /\ n # 0 /\ DOMAIN heard = 1 .. n
        /\ Kept \in Nat /\ Kept <= n /\ Gone \in Nat /\ Gone = n - Kept /\ Window \in Nat
    BY ClockAssumption DEF ClockInv, ClockTypes, Kept, Gone
  <1>2. ASSUME NEW i \in 1 .. n
        PROVE  heard[i] \in LegType /\ Trip(heard[i]) \in Nat /\ Received(heard[i]) \in Nat
    BY <1>1, SampleFacts
  <1>3. PICK k \in 1 .. Kept :
          /\ est.bestRtt = est.samples[k].rtt /\ est.pcMinusAndroid = est.samples[k].offset
          /\ \A i \in 1 .. Kept : est.samples[k].rtt <= est.samples[i].rtt
    BY DEF ClockInv, BestChosen
  <1>4. ASSUME NEW i \in 1 .. Kept
        PROVE  /\ Gone + i \in 1 .. n /\ est.samples[i].rtt = Trip(heard[Gone + i])
               /\ est.samples[i] = Sample(Exchange(pcClock, heard[Gone + i]))
    <2>1. Gone + i \in 1 .. n
      BY <1>1
    <2>2. est.samples[i] = Sample(Exchange(pcClock, heard[Gone + i]))
      BY DEF ClockInv, WindowKept
    <2>3. heard[Gone + i] \in LegType
      BY <2>1, <1>2
    <2>4. pcClock \in ClockType
      BY <1>1
    <2>5. Sample(Exchange(pcClock, heard[Gone + i])).rtt = Trip(heard[Gone + i])
      BY <2>3, <2>4, SampleFacts
    <2>6. est.samples[i].rtt = Trip(heard[Gone + i])
      BY <2>2, <2>5, Zenon
    <2> QED  BY <2>1, <2>2, <2>6
  <1>5. Recent = {i \in 1 .. n : i > Gone}
    BY <1>1 DEF Recent, ClockInv, WindowKept
  <1>6. Trips \in SUBSET Nat
    BY <1>2, <1>5
  <1>7. Gone + k \in Recent
    BY <1>1, <1>4, <1>5
  <1>8. Shortest \in Trips /\ \A t \in Trips : Shortest <= t
    <2>1. Trips # {} /\ Shortest = Min(Trips)
      BY <1>7 DEF Shortest
    <2> HIDE DEF Trips
    <2> QED  BY <2>1, <1>6, LeastNatural
  <1>9. est.bestRtt = Trip(heard[Gone + k]) /\ est.bestRtt \in Trips
    BY <1>3, <1>4, <1>7
  <1>10. ASSUME NEW i \in Recent
         PROVE  est.bestRtt <= Trip(heard[i])
    <2>1. i - Gone \in 1 .. Kept /\ Gone + (i - Gone) = i
      BY <1>1, <1>5
    <2>2. est.samples[i - Gone].rtt = Trip(heard[i])
      BY <2>1, <1>4
    <2> QED  BY <2>1, <2>2, <1>3
  <1>11. est.bestRtt = Shortest
    <2>1. est.bestRtt <= Shortest
      BY <1>8, <1>10
    <2>2. Shortest <= est.bestRtt
      BY <1>8, <1>9
    <2>3. Shortest \in Nat /\ est.bestRtt \in Nat
      BY <1>6, <1>8, <1>9
    <2> QED  BY <2>1, <2>2, <2>3
  <1>12. Now \in Nat /\ Received(heard[Gone + k]) <= Now /\ Received(heard[Gone + k]) >= Now - Window
    <2>1. n \in 1 .. n /\ Gone + k \in 1 .. n
      BY <1>1, <1>4
    <2>2. Received(heard[Gone + k]) <= Received(heard[n])
      BY <2>1, <1>1 DEF ClockInv, InOrder
    <2>3. Received(heard[n]) \in Nat
      BY <2>1, <1>2
    <2>4. Received(heard[Gone + k]) >= Now - Window
      BY <1>7 DEF Recent
    <2> QED  BY <2>2, <2>3, <2>4 DEF Now
  <1>13. Abs(est.pcMinusAndroid - (PcClock(pcClock, Now) - Now))
           <= Trip(heard[Gone + k]) \div 2 + (Window + Trip(heard[Gone + k])) \div pcClock.drift + 2
    <2>1. heard[Gone + k] \in LegType
      BY <1>2, <1>4
    <2>2. est.pcMinusAndroid = Sample(Exchange(pcClock, heard[Gone + k])).offset
      BY <1>3, <1>4
    <2> QED  BY <2>1, <2>2, <1>1, <1>12, ErrorBound
  <1> QED  BY <1>9, <1>11, <1>13

(* TimeSync.observe: after every answer the offset the HUD subtracts is off *)
(* by at most half the shortest round trip of the window plus the drift     *)
(* within it, for every drift, every window and every pattern of waits.     *)
THEOREM OffsetHolds == ClockSpec => []OffsetWithinTrip
  BY ClockInvariance, InvGivesOffset, PTL

-----------------------------------------------------------------------------
(* The frames of module Framing.                                            *)

\* The bytes b hold `frame' from behind position a on, as far as they reach.
Holds(b, a, frame) == \A i \in 1 .. Len(frame) : a + i <= Len(b) => b[a + i] = frame[i]

MessageType == [id : Byte, payload : Seq(Byte)]
FrameLen(m) == 5 + Len(m.payload)
FrameOf(m) == Frame(m.id, m.payload)

WireTypes ==
  /\ bye \in Goodbyes /\ wire \in Seq(Byte) /\ owed \in Seq(Byte)
  /\ written \in Seq(MessageType) /\ \A k \in DOMAIN written : written[k] \in Messages
  /\ got \in Seq(MessageType)
  /\ tail \in {"none", "goodbye", "part"} /\ conn \in {"open", "closed", "broken"}
  /\ taken \in 0 .. Len(wire)
  /\ ended \in {"no", "goodbye", "refused", "malformed", "eof"}

\* The k-th frame begins behind byte st[k], and the last entry is where the
\* frames that were written whole end.
Placed(st) ==
  /\ st \in Seq(Nat) /\ Len(st) = Len(written) + 1 /\ st[1] = 0
  /\ \A k \in 1 .. Len(written) : /\ st[k + 1] = st[k] + FrameLen(written[k])
                                  /\ Holds(wire, st[k], FrameOf(written[k]))
  /\ conn # "broken" => \A k \in 1 .. Len(written) + 1 : st[k] <= Len(wire)

\* What is behind the whole frames.
Behind(st) ==
  LET z == st[Len(written) + 1] IN
  /\ tail = "none" => Len(wire) <= z
  /\ tail = "goodbye" => Holds(wire, z, Frame(bye, <<>>)) /\ (conn # "broken" => z + 5 <= Len(wire))

\* The reader is at the beginning of the frame that it has to read next.
InStep(st) == ended # "goodbye" /\ Len(got) <= Len(written) => taken = st[Len(got) + 1]

WireInv ==
  /\ WireTypes /\ StaysInSync
  /\ tail = "none" => owed = <<>> /\ ended # "goodbye"
  /\ ended = "eof" => conn # "open"
  /\ \E st \in Seq(Nat) : Placed(st) /\ Behind(st) /\ InStep(st)

(* 64 MiB.                                                                  *)
LEMMA MaxPayloadIs == MaxPayload = 67108864
  BY SMT DEF MaxPayload

(* A length up to the limit is read back as it was written, and accepted.   *)
LEMMA LengthRoundTrip ==
  ASSUME NEW n \in Nat, n <= MaxPayload
  PROVE  /\ LengthBytes(n) \in Seq(Byte) /\ Len(LengthBytes(n)) = 4
         /\ LengthOf(LengthBytes(n)) = n /\ ~TooLarge(LengthBytes(n))
  <1> DEFINE a == n \div 16777216
             b == (n \div 65536) % 256
             c == (n \div 256) % 256
             d == n % 256
  <1>1. n \in Nat /\ n <= 67108864
    BY MaxPayloadIs, SMT
  <1>2. a \in 0 .. 4 /\ b \in Byte /\ c \in Byte /\ d \in Byte
    BY <1>1, SMT DEF Byte
  <1>3. n = 16777216 * a + 65536 * b + 256 * c + d
    BY <1>1, SMT
  <1>4. LengthBytes(n) = <<a, b, c, d>>
    BY SMT DEF LengthBytes
  <1> HIDE DEF a, b, c, d
  <1>5. a \in Byte
    BY <1>2 DEF Byte
  <1>6. <<a, b, c, d>> \in Seq(Byte) /\ Len(<<a, b, c, d>>) = 4
    BY <1>2, <1>5
  <1>7. LengthOf(<<a, b, c, d>>) = n
    BY <1>3, SMT DEF LengthOf
  <1>8. ~TooLarge(<<a, b, c, d>>)
    BY <1>1, <1>2, <1>3, SMT DEF TooLarge, Byte
  <1> QED BY <1>4, <1>6, <1>7, <1>8

(* The bytes of a frame.                                                    *)
LEMMA FrameFacts ==
  ASSUME NEW id \in Byte, NEW p \in Seq(Byte), Len(p) <= MaxPayload
  PROVE  /\ Frame(id, p) \in Seq(Byte) /\ Len(Frame(id, p)) = 5 + Len(p)
         /\ Frame(id, p)[1] = id
         /\ \A i \in 1 .. 4 : Frame(id, p)[1 + i] = LengthBytes(Len(p))[i]
         /\ \A i \in 1 .. Len(p) : Frame(id, p)[5 + i] = p[i]
  <1> DEFINE L == LengthBytes(Len(p))
  <1>1. L \in Seq(Byte) /\ Len(L) = 4 /\ Len(p) \in Nat
    <2>1. Len(p) \in Nat
      OBVIOUS
    <2> QED BY <2>1, LengthRoundTrip
  <1>2. <<id>> \in Seq(Byte) /\ Len(<<id>>) = 1 /\ <<id>>[1] = id
    OBVIOUS
  <1> HIDE DEF L
  <1>3. /\ <<id>> \o L \in Seq(Byte) /\ Len(<<id>> \o L) = 5 /\ (<<id>> \o L)[1] = id
        /\ \A i \in 1 .. 4 : (<<id>> \o L)[1 + i] = L[i]
    <2> DEFINE one == <<id>>
    <2>1. one \in Seq(Byte) /\ Len(one) = 1 /\ one[1] = id
      BY <1>2
    <2> HIDE DEF one
    <2>2. /\ one \o L \in Seq(Byte) /\ Len(one \o L) = 1 + 4
          /\ \A i \in 1 .. 5 : (one \o L)[i] = IF i <= 1 THEN one[i] ELSE L[i - 1]
      <3>1. /\ one \o L \in Seq(Byte) /\ Len(one \o L) = Len(one) + Len(L)
            /\ \A i \in 1 .. Len(one) + Len(L) :
                  (one \o L)[i] = IF i <= Len(one) THEN one[i] ELSE L[i - Len(one)]
        BY <1>1, <2>1, ConcatProperties
      <3> QED BY <1>1, <2>1, <3>1
    <2>3. ASSUME NEW i \in 1 .. 4 PROVE (one \o L)[1 + i] = L[i]
      <3>1. 1 + i \in 1 .. 5 /\ ~(1 + i <= 1) /\ (1 + i) - 1 = i
        OBVIOUS
      <3> QED BY <2>2, <3>1
    <2> QED BY <2>1, <2>2, <2>3 DEF one
  <1> DEFINE H == <<id>> \o L
  <1>4. Frame(id, p) = H \o p
    BY DEF Frame, L
  <1> HIDE DEF H
  <1>5. /\ H \o p \in Seq(Byte) /\ Len(H \o p) = 5 + Len(p)
        /\ \A i \in 1 .. 5 : (H \o p)[i] = H[i]
        /\ \A i \in 1 .. Len(p) : (H \o p)[5 + i] = p[i]
    BY <1>1, <1>3 DEF H
  <1>6. (H \o p)[1] = id /\ \A i \in 1 .. 4 : (H \o p)[1 + i] = L[i]
    BY <1>3, <1>5 DEF H
  <1> QED BY <1>4, <1>5, <1>6 DEF L

(* A reader that is where a frame begins gets that frame, waits for the     *)
(* rest of it, or finds the stream cut off: it never refuses it.            *)
LEMMA ReadsWhatIsThere ==
  ASSUME NEW b \in Seq(Byte), NEW a \in 0 .. Len(b), NEW id \in Byte, NEW p \in Seq(Byte),
         Len(p) <= MaxPayload, Holds(b, a, Frame(id, p))
  PROVE  LET f == ReadFrame(SubSeq(b, a + 1, Len(b))) IN
         /\ f.end = IF a + 5 + Len(p) <= Len(b) THEN "no" ELSE "eof"
         /\ f.end = "no" => f.id = id /\ f.payload = p
  <1> DEFINE u == SubSeq(b, a + 1, Len(b))
             len == SubSeq(u, 2, 5)
             F == Frame(id, p)
             L == LengthBytes(Len(p))
  <1>1. Len(b) \in Nat /\ a \in Nat /\ a <= Len(b) /\ Len(p) \in Nat
    OBVIOUS
  <1>2. u \in Seq(Byte) /\ Len(u) = Len(b) - a /\ \A i \in 1 .. Len(b) - a : u[i] = b[a + i]
    BY <1>1
  <1>3. /\ F \in Seq(Byte) /\ Len(F) = 5 + Len(p) /\ F[1] = id
        /\ \A i \in 1 .. 4 : F[1 + i] = L[i]
        /\ \A i \in 1 .. Len(p) : F[5 + i] = p[i]
    BY FrameFacts
  <1>4. L \in Seq(Byte) /\ Len(L) = 4 /\ LengthOf(L) = Len(p) /\ ~TooLarge(L)
    BY <1>1, LengthRoundTrip
  <1> HIDE DEF u, F, L
  <1>5. \A i \in 1 .. 5 + Len(p) : i <= Len(u) => u[i] = F[i]
    <2> SUFFICES ASSUME NEW i \in 1 .. 5 + Len(p), i <= Len(u) PROVE u[i] = F[i]
      OBVIOUS
    <2>1. i \in 1 .. Len(F) /\ a + i <= Len(b) /\ i \in 1 .. Len(b) - a
      BY <1>1, <1>2, <1>3
    <2>2. b[a + i] = F[i]
      BY <2>1 DEF Holds, F
    <2> QED BY <1>2, <2>1, <2>2
  <1>6. CASE Len(u) < 5
    <2>1. ReadFrame(u) = [end |-> "eof"]
      BY <1>6 DEF ReadFrame
    <2> QED BY <1>1, <1>2, <1>6, <2>1 DEF u
  <1>7. CASE Len(u) >= 5
    <2>1. len = L
      <3>1. len \in Seq(Byte) /\ Len(len) = 4 /\ \A i \in 1 .. 4 : len[i] = u[1 + i]
        BY <1>2, <1>7
      <3>2. \A i \in 1 .. 4 : u[1 + i] = F[1 + i]
        BY <1>1, <1>2, <1>5, <1>7
      <3>3. \A i \in 1 .. 4 : len[i] = L[i]
        BY <1>3, <3>1, <3>2
      <3> HIDE DEF len
      <3> QED BY <1>4, <3>1, <3>3, SeqEqual
    <2>2. ReadFrame(u) = IF Len(u) < 5 + Len(p) THEN [end |-> "eof"]
                         ELSE [end |-> "no", id |-> u[1], payload |-> SubSeq(u, 6, 5 + Len(p))]
      <3>1. ~(Len(u) < 5) /\ Len(u) \in Nat
        BY <1>2, <1>7
      <3>2. ~TooLarge(len) /\ LengthOf(len) = Len(p)
        BY <1>4, <2>1
      <3> QED BY <3>1, <3>2 DEF ReadFrame
    <2>3. CASE Len(u) < 5 + Len(p)
      BY <1>1, <1>2, <2>2, <2>3 DEF u
    <2>4. CASE ~(Len(u) < 5 + Len(p))
      <3>1. /\ SubSeq(u, 6, 5 + Len(p)) \in Seq(Byte) /\ Len(SubSeq(u, 6, 5 + Len(p))) = Len(p)
            /\ \A i \in 1 .. Len(p) : SubSeq(u, 6, 5 + Len(p))[i] = u[5 + i]
        BY <1>1, <1>2, <2>4
      <3>2. \A i \in 1 .. Len(p) : SubSeq(u, 6, 5 + Len(p))[i] = p[i]
        <4> SUFFICES ASSUME NEW i \in 1 .. Len(p) PROVE SubSeq(u, 6, 5 + Len(p))[i] = p[i]
          OBVIOUS
        <4>1. 5 + i \in 1 .. 5 + Len(p) /\ 5 + i <= Len(u)
          BY <1>1, <1>2, <2>4
        <4> QED BY <1>3, <1>5, <3>1, <4>1
      <3>3. SubSeq(u, 6, 5 + Len(p)) = p
        BY <3>1, <3>2, SeqEqual
      <3>4. u[1] = id
        BY <1>1, <1>2, <1>3, <1>5, <1>7
      <3>5. ReadFrame(u) = [end |-> "no", id |-> id, payload |-> p]
        BY <2>2, <2>4, <3>3, <3>4
      <3> QED BY <1>1, <1>2, <2>4, <3>5 DEF u
    <2> QED BY <2>3, <2>4
  <1> QED BY <1>1, <1>2, <1>6, <1>7

(* Every message that is sent can be framed and is no goodbye.              *)
LEMMA MessageFacts ==
  ASSUME NEW m \in Messages
  PROVE  /\ m \in MessageType /\ m = [id |-> m.id, payload |-> m.payload]
         /\ m.id \in Byte /\ m.id \notin Goodbyes
         /\ m.payload \in Seq(Byte) /\ Len(m.payload) \in Nat /\ Len(m.payload) <= MaxPayload
         /\ FrameOf(m) \in Seq(Byte) /\ Len(FrameOf(m)) = FrameLen(m)
  <1>1. m \in [id : Byte \ Goodbyes, payload : Seq(Byte)] /\ Len(m.payload) <= MaxPayload
    BY MessagesAssumption
  <1>2. /\ m.id \in Byte /\ m.id \notin Goodbyes /\ m.payload \in Seq(Byte)
        /\ m = [id |-> m.id, payload |-> m.payload] /\ m \in MessageType
    BY <1>1 DEF MessageType
  <1>3. FrameOf(m) \in Seq(Byte) /\ Len(FrameOf(m)) = FrameLen(m)
    BY <1>1, <1>2, FrameFacts DEF FrameOf, FrameLen
  <1> QED BY <1>1, <1>2, <1>3

(* The goodbye is a frame without a payload.                                *)
LEMMA GoodbyeFrame ==
  ASSUME NEW id \in Goodbyes
  PROVE  /\ id \in Byte /\ <<>> \in Seq(Byte) /\ Len(<<>>) = 0 /\ 0 <= MaxPayload
         /\ Frame(id, <<>>) \in Seq(Byte) /\ Len(Frame(id, <<>>)) = 5
  <1>1. id \in Byte
    BY DEF Goodbyes, Byte
  <1>2. <<>> \in Seq(Byte) /\ Len(<<>>) = 0
    OBVIOUS
  <1>3. 0 <= MaxPayload
    BY MaxPayloadIs, SMT
  <1>4. Frame(id, <<>>) \in Seq(Byte) /\ Len(Frame(id, <<>>)) = 5 + Len(<<>>)
    BY <1>1, <1>2, <1>3, FrameFacts
  <1> QED BY <1>1, <1>2, <1>3, <1>4

(* What is written later disturbs no frame that is there in full.           *)
LEMMA HoldsWithMore ==
  ASSUME NEW b \in Seq(Byte), NEW c \in Seq(Byte), NEW a \in Nat, NEW f \in Seq(Byte),
         Holds(b, a, f), a + Len(f) <= Len(b)
  PROVE  Holds(b \o c, a, f)
  <1>1. Len(b) \in Nat /\ Len(f) \in Nat
    OBVIOUS
  <1>2. \A i \in 1 .. Len(b) : (b \o c)[i] = b[i]
    OBVIOUS
  <1> SUFFICES ASSUME NEW i \in 1 .. Len(f) PROVE (b \o c)[a + i] = f[i]
    BY DEF Holds
  <1>3. a + i \in 1 .. Len(b) /\ a + i <= Len(b)
    BY <1>1
  <1> QED BY <1>2, <1>3 DEF Holds

(* A frame is where it was written.                                         *)
LEMMA HoldsWritten ==
  ASSUME NEW b \in Seq(Byte), NEW f \in Seq(Byte)
  PROVE  Holds(b \o f, Len(b), f)
  <1>1. \A i \in 1 .. Len(f) : (b \o f)[Len(b) + i] = f[i]
    OBVIOUS
  <1> QED BY <1>1 DEF Holds

(* Losing the end of the stream disturbs nothing that is left.              *)
LEMMA HoldsWithLess ==
  ASSUME NEW b \in Seq(Byte), NEW a \in Nat, NEW f \in Seq(Byte), NEW n \in 0 .. Len(b),
         Holds(b, a, f)
  PROVE  Holds(SubSeq(b, 1, n), a, f)
  <1>1. n \in Nat /\ Len(b) \in Nat /\ n <= Len(b) /\ Len(f) \in Nat
    OBVIOUS
  <1>2. Len(SubSeq(b, 1, n)) = n /\ \A i \in 1 .. n : SubSeq(b, 1, n)[i] = b[i]
    BY <1>1
  <1> SUFFICES ASSUME NEW i \in 1 .. Len(f), a + i <= n PROVE SubSeq(b, 1, n)[a + i] = f[i]
    BY <1>2 DEF Holds
  <1>3. a + i \in 1 .. n /\ a + i <= Len(b)
    BY <1>1
  <1>4. b[a + i] = f[i]
    BY <1>3 DEF Holds
  <1> QED BY <1>2, <1>3, <1>4

(* Whatever the reader takes for a message is made of bytes that are there. *)
LEMMA ArrivingFacts ==
  ASSUME NEW b \in Seq(Byte), NEW a \in 0 .. Len(b), NEW f,
         f = ReadFrame(SubSeq(b, a + 1, Len(b))), f.end = "no"
  PROVE  /\ f.id \in Byte /\ f.payload \in Seq(Byte)
         /\ a + 5 + Len(f.payload) \in 0 .. Len(b)
  <1> DEFINE u == SubSeq(b, a + 1, Len(b))
             len == SubSeq(u, 2, 5)
             n == LengthOf(len)
  <1>1. Len(b) \in Nat /\ a \in Nat /\ a <= Len(b)
    OBVIOUS
  <1>2. u \in Seq(Byte) /\ Len(u) = Len(b) - a
    BY <1>1
  <1> HIDE DEF u
  <1>3. CASE Len(u) < 5
    <2>1. f = [end |-> "eof"]
      BY <1>3 DEF ReadFrame, u
    <2> QED BY <2>1
  <1>4. CASE ~(Len(u) < 5)
    <2>1. len \in Seq(Byte) /\ Len(len) = 4
      BY <1>1, <1>2, <1>4
    <2>2. len[1] \in Byte /\ len[2] \in Byte /\ len[3] \in Byte /\ len[4] \in Byte
      BY <2>1
    <2> HIDE DEF len
    <2>3. n \in Nat
      <3>1. \A x \in Byte : x \in Nat
        BY DEF Byte
      <3>2. len[1] \in Nat /\ len[2] \in Nat /\ len[3] \in Nat /\ len[4] \in Nat
        BY <2>2, <3>1
      <3> DEFINE w == len[1]
                 x == len[2]
                 y == len[3]
                 z == len[4]
      <3>3. n = 16777216 * w + 65536 * x + 256 * y + z
        BY SMT DEF LengthOf
      <3>4. w \in Nat /\ x \in Nat /\ y \in Nat /\ z \in Nat
        BY <3>2
      <3> HIDE DEF n, w, x, y, z
      <3> QED BY <3>3, <3>4, SMT
    <2> HIDE DEF n
    <2>4. f = [end |-> "no", id |-> u[1], payload |-> SubSeq(u, 6, 5 + n)] /\ ~(Len(u) < 5 + n)
      <3>1. f = IF TooLarge(len) THEN [end |-> "refused"]
                ELSE IF Len(u) < 5 + n THEN [end |-> "eof"]
                ELSE [end |-> "no", id |-> u[1], payload |-> SubSeq(u, 6, 5 + n)]
        BY <1>4 DEF ReadFrame, u, len, n
      <3>2. CASE TooLarge(len)
        BY <3>1, <3>2
      <3>3. CASE Len(u) < 5 + n /\ ~TooLarge(len)
        BY <3>1, <3>3
      <3>4. CASE ~(Len(u) < 5 + n) /\ ~TooLarge(len)
        BY <3>1, <3>4
      <3> QED BY <3>2, <3>3, <3>4
    <2>5. u[1] \in Byte /\ SubSeq(u, 6, 5 + n) \in Seq(Byte) /\ Len(SubSeq(u, 6, 5 + n)) = n
      BY <1>1, <1>2, <2>3, <2>4
    <2>6. f.id = u[1] /\ f.payload = SubSeq(u, 6, 5 + n)
      BY <2>4
    <2>7. Len(f.payload) = n /\ 5 + n <= Len(b) - a
      BY <1>1, <1>2, <2>3, <2>4, <2>5, <2>6
    <2>8. a + 5 + Len(f.payload) \in 0 .. Len(b)
      <3>1. a + 5 + n \in 0 .. Len(b)
        BY <1>1, <2>3, <2>7
      <3> QED BY <2>7, <3>1
    <2> QED BY <2>5, <2>6, <2>8
  <1> QED BY <1>3, <1>4

(* Where a frame ends.                                                      *)
LEMMA FrameEnd ==
  ASSUME NEW a \in Nat, NEW m, Len(m.payload) \in Nat
  PROVE  a + 5 + Len(m.payload) = a + FrameLen(m)
  <1>1. PICK n \in Nat : n = Len(m.payload)
    OBVIOUS
  <1>2. FrameLen(m) = 5 + n
    BY <1>1, Zenon DEF FrameLen
  <1>3. a + 5 + n = a + (5 + n)
    OBVIOUS
  <1> QED BY <1>1, <1>2, <1>3, Zenon

(* The next message for a reader in step is the one that was written next.  *)
LEMMA NextIsWritten ==
  ASSUME WireTypes, NEW st \in Seq(Nat), Placed(st), InStep(st), ended = "no",
         Len(got) < Len(written)
  PROVE  LET m == written[Len(got) + 1] IN
         /\ m \in Messages /\ taken + FrameLen(m) = st[Len(got) + 2]
         /\ Arriving.end = IF taken + FrameLen(m) <= Len(wire) THEN "no" ELSE "eof"
         /\ Arriving.end = "no" =>
              /\ Arriving.id # bye /\ Len(Arriving.payload) = Len(m.payload)
              /\ [id |-> Arriving.id, payload |-> Arriving.payload] = m
  <1> DEFINE k == Len(got) + 1
             m == written[k]
  <1>1. /\ Len(got) \in Nat /\ Len(written) \in Nat /\ k \in 1 .. Len(written)
        /\ k + 1 = Len(got) + 2 /\ wire \in Seq(Byte) /\ taken \in 0 .. Len(wire)
    BY DEF WireTypes
  <1>2. m \in Messages
    BY <1>1 DEF WireTypes
  <1>3. /\ m = [id |-> m.id, payload |-> m.payload]
        /\ m.id \in Byte /\ m.id \notin Goodbyes
        /\ m.payload \in Seq(Byte) /\ Len(m.payload) \in Nat /\ Len(m.payload) <= MaxPayload
    BY <1>2, MessageFacts
  <1>4. taken = st[k] /\ st[k + 1] = st[k] + FrameLen(m) /\ Holds(wire, st[k], FrameOf(m))
    BY <1>1 DEF Placed, InStep
  <1> HIDE DEF m, k
  <1>5. Holds(wire, taken, Frame(m.id, m.payload))
    BY <1>4 DEF FrameOf
  <1>6. /\ Arriving.end = IF taken + 5 + Len(m.payload) <= Len(wire) THEN "no" ELSE "eof"
        /\ Arriving.end = "no" => Arriving.id = m.id /\ Arriving.payload = m.payload
    BY <1>1, <1>3, <1>5, ReadsWhatIsThere DEF Arriving
  <1>7. taken + 5 + Len(m.payload) = taken + FrameLen(m) /\ taken + FrameLen(m) = st[Len(got) + 2]
    <2>1. taken \in Nat
      BY <1>1
    <2>2. taken + 5 + Len(m.payload) = taken + FrameLen(m)
      BY <1>3, <2>1 DEF FrameLen
    <2>3. taken + FrameLen(m) = st[k + 1]
      BY <1>4
    <2> QED BY <1>1, <2>2, <2>3, Zenon
  <1>8. Arriving.end = "no" => Arriving.id # bye
    BY <1>3, <1>6 DEF WireTypes
  <1>9. Arriving.end = "no" => [id |-> Arriving.id, payload |-> Arriving.payload] = m
    BY <1>3, <1>6
  <1>10. Arriving.end = IF taken + FrameLen(m) <= Len(wire) THEN "no" ELSE "eof"
    BY <1>6, <1>7
  <1> QED BY <1>2, <1>6, <1>7, <1>8, <1>9, <1>10 DEF m, k

(* Behind the last message there is nothing, the goodbye, or a torn frame.  *)
LEMMA NextIsGoodbye ==
  ASSUME WireTypes, NEW st \in Seq(Nat), Placed(st), Behind(st), InStep(st),
         ended = "no", Len(got) = Len(written), tail # "part"
  PROVE  /\ tail = "none" => Arriving.end = "eof"
         /\ tail = "goodbye" =>
              /\ Arriving.end \in {"no", "eof"}
              /\ conn # "broken" => Arriving.end = "no"
              /\ Arriving.end = "no" => Arriving.id = bye
  <1> DEFINE z == st[Len(written) + 1]
  <1>1. /\ Len(written) \in Nat /\ taken = z /\ wire \in Seq(Byte) /\ taken \in 0 .. Len(wire)
        /\ bye \in Goodbyes /\ Len(wire) \in Nat /\ taken \in Nat
    BY DEF InStep, WireTypes
  <1>2. CASE tail = "none"
    <2>1. Len(wire) <= z
      BY <1>2 DEF Behind
    <2>2. taken = Len(wire)
      BY <1>1, <2>1
    <2>3. Len(SubSeq(wire, taken + 1, Len(wire))) < 5
      BY <1>1, <2>2
    <2>4. Arriving = [end |-> "eof"]
      BY <2>3 DEF Arriving, ReadFrame
    <2> QED BY <1>2, <2>4
  <1>3. CASE tail = "goodbye"
    <2>1. Holds(wire, taken, Frame(bye, <<>>)) /\ (conn # "broken" => taken + 5 <= Len(wire))
      BY <1>1, <1>3 DEF Behind
    <2>2. /\ bye \in Byte /\ <<>> \in Seq(Byte) /\ Len(<<>>) = 0 /\ Len(<<>>) <= MaxPayload
      BY <1>1, GoodbyeFrame
    <2> HIDE DEF z
    <2>3. /\ Arriving.end = IF taken + 5 + Len(<<>>) <= Len(wire) THEN "no" ELSE "eof"
          /\ Arriving.end = "no" => Arriving.id = bye
      BY <1>1, <2>1, <2>2, ReadsWhatIsThere DEF Arriving
    <2> QED BY <1>1, <1>3, <2>1, <2>2, <2>3
  <1> QED BY <1>2, <1>3 DEF WireTypes

(* A new message begins where the last one ended.                           *)
LEMMA WriteKeeps ==
  ASSUME WireInv, NEW m \in Messages, Writes(m)
  PROVE  WireInv'
  <1> DEFINE n == Len(written)
             f == FrameOf(m)
  <1>1. PICK st \in Seq(Nat) : Placed(st) /\ Behind(st) /\ InStep(st)
    BY DEF WireInv
  <1>2. /\ conn = "open" /\ tail = "none" /\ wire' = wire \o f /\ written' = Append(written, m)
        /\ UNCHANGED <<bye, tail, owed, conn, taken, got, ended>>
    BY DEF Writes, readerVars, FrameOf
  <1>3. /\ WireTypes /\ StaysInSync /\ n \in Nat /\ Len(got) \in Nat /\ wire \in Seq(Byte)
        /\ Len(wire) \in Nat /\ written \in Seq(MessageType) /\ got \in Seq(MessageType)
    BY DEF WireInv, WireTypes
  <1>4. /\ m \in MessageType /\ f \in Seq(Byte) /\ Len(f) = FrameLen(m) /\ FrameLen(m) \in Nat
    BY MessageFacts DEF FrameLen
  <1> HIDE DEF f
  <1>5. /\ wire' \in Seq(Byte) /\ Len(wire') = Len(wire) + FrameLen(m)
        /\ written' \in Seq(MessageType) /\ Len(written') = n + 1
        /\ \A k \in 1 .. n : written'[k] = written[k]
        /\ written'[n + 1] = m
    BY <1>2, <1>3, <1>4
  <1>6. /\ Len(st) = n + 1 /\ \A k \in 1 .. n + 1 : st[k] \in Nat /\ st[k] <= Len(wire)
        /\ st[n + 1] = Len(wire)
    <2>1. Len(st) = n + 1 /\ \A k \in 1 .. n + 1 : st[k] <= Len(wire)
      BY <1>1, <1>2 DEF Placed
    <2>2. \A k \in 1 .. n + 1 : st[k] \in Nat
      BY <1>3, <2>1
    <2>3. n + 1 \in 1 .. n + 1 /\ Len(wire) <= st[n + 1]
      BY <1>1, <1>2, <1>3 DEF Behind
    <2> QED BY <1>3, <2>1, <2>2, <2>3
  <1>7. PICK ts \in Seq(Nat) : /\ Len(ts) = n + 2 /\ ts[n + 2] = Len(wire')
                              /\ \A k \in 1 .. n + 1 : ts[k] = st[k]
    <2>1. Len(wire') \in Nat
      BY <1>5
    <2>2. PICK z \in Nat : z = Len(wire')
      BY <2>1
    <2>3. /\ Append(st, z) \in Seq(Nat) /\ Len(Append(st, z)) = n + 2 /\ Append(st, z)[n + 2] = z
          /\ \A k \in 1 .. n + 1 : Append(st, z)[k] = st[k]
      BY <1>1, <1>3, <1>6, <2>2
    <2> QED BY <2>2, <2>3
  <1>8. WireTypes'
    <2>1. \A k \in DOMAIN written' : written'[k] \in Messages
      <3>1. DOMAIN written' = 1 .. n + 1 /\ DOMAIN written = 1 .. n
        BY <1>3, <1>5
      <3>2. \A k \in 1 .. n + 1 : k \in 1 .. n \/ k = n + 1
        BY <1>3
      <3> QED BY <1>3, <1>5, <3>1, <3>2 DEF WireTypes
    <2>2. taken' \in 0 .. Len(wire')
      BY <1>2, <1>3, <1>4, <1>5 DEF WireTypes
    <2> QED BY <1>2, <1>3, <1>5, <2>1, <2>2 DEF WireTypes
  <1>9. ended \notin {"goodbye", "refused", "eof"} /\ Len(got) <= n
    BY <1>2, <1>3 DEF WireInv, StaysInSync
  <1>10. StaysInSync'
    <2>1. ASSUME NEW k \in DOMAIN got, k <= n + 1 PROVE got[k] = written'[k]
      <3>1. k \in 1 .. n
        BY <1>3, <1>9
      <3> QED BY <1>3, <1>5, <3>1 DEF StaysInSync
    <2> QED BY <1>2, <1>3, <1>5, <1>9, <2>1 DEF StaysInSync
  <1>11. Placed(ts)'
    <2>1. ts[1] = 0
      <3>1. 1 \in 1 .. n + 1
        BY <1>3
      <3> QED BY <1>1, <1>7, <3>1 DEF Placed
    <2>2. ASSUME NEW k \in 1 .. n + 1
          PROVE  ts[k + 1] = ts[k] + FrameLen(written'[k]) /\ Holds(wire', ts[k], FrameOf(written'[k]))
      <3>1. CASE k = n + 1
        <4>0. k + 1 = n + 2 /\ n + 1 \in 1 .. n + 1
          BY <1>3, <3>1
        <4>1. written'[k] = m /\ ts[k] = Len(wire) /\ ts[k + 1] = Len(wire) + FrameLen(m)
          BY <1>5, <1>6, <1>7, <3>1, <4>0
        <4>2. Holds(wire', Len(wire), f)
          BY <1>2, <1>3, <1>4, HoldsWritten
        <4> QED BY <4>1, <4>2 DEF f
      <3>2. CASE k # n + 1
        <4>1. k \in 1 .. n /\ k + 1 \in 1 .. n + 1
          BY <1>3, <3>2
        <4>2. /\ ts[k] = st[k] /\ ts[k + 1] = st[k + 1] /\ written'[k] = written[k]
              /\ st[k] \in Nat /\ st[k + 1] <= Len(wire)
          BY <1>5, <1>6, <1>7, <2>2, <4>1
        <4>3. st[k + 1] = st[k] + FrameLen(written[k]) /\ Holds(wire, st[k], FrameOf(written[k]))
          BY <1>1, <4>1 DEF Placed
        <4>4. FrameOf(written[k]) \in Seq(Byte) /\ Len(FrameOf(written[k])) = FrameLen(written[k])
          <5>1. written[k] \in Messages
            BY <1>3, <4>1 DEF WireTypes
          <5> QED BY <5>1, MessageFacts
        <4>5. Holds(wire \o f, st[k], FrameOf(written[k]))
          BY <1>3, <1>4, <4>2, <4>3, <4>4, HoldsWithMore
        <4> QED BY <1>2, <4>2, <4>3, <4>5
      <3> QED BY <3>1, <3>2
    <2>3. \A k \in 1 .. n + 2 : ts[k] <= Len(wire')
      <3> SUFFICES ASSUME NEW k \in 1 .. n + 2 PROVE ts[k] <= Len(wire')
        OBVIOUS
      <3>1. CASE k = n + 2
        BY <1>3, <1>4, <1>5, <1>7, <3>1
      <3>2. CASE k # n + 2
        <4>1. k \in 1 .. n + 1
          BY <1>3, <3>2
        <4> QED BY <1>3, <1>4, <1>5, <1>6, <1>7, <4>1
      <3> QED BY <3>1, <3>2
    <2>4. Len(written') + 1 = n + 2
      BY <1>3, <1>5
    <2> QED BY <1>5, <1>7, <2>1, <2>2, <2>3, <2>4 DEF Placed
  <1>12. Behind(ts)' /\ InStep(ts)'
    <2>1. Len(written') + 1 = n + 2
      BY <1>3, <1>5
    <2>2. tail' = "none" /\ Len(wire') <= ts[n + 2]
      BY <1>2, <1>3, <1>4, <1>5, <1>7
    <2>3. Len(got) + 1 \in 1 .. n + 1
      BY <1>3, <1>9
    <2>4. taken' = ts[Len(got') + 1]
      BY <1>1, <1>2, <1>7, <1>9, <2>3 DEF InStep
    <2> QED BY <2>1, <2>2, <2>4 DEF Behind, InStep
  <1>13. /\ tail' = "none" => owed' = <<>> /\ ended' # "goodbye"
         /\ ended' = "eof" => conn' # "open"
    BY <1>2, <1>9 DEF WireInv
  <1> QED BY <1>7, <1>8, <1>10, <1>11, <1>12, <1>13 DEF WireInv

(* The sender goes on behind the whole frames.                              *)
LEMMA MoreKeepsPlaces ==
  ASSUME WireTypes, NEW st \in Seq(Nat), Placed(st), conn = "open", conn' = conn,
         NEW c \in Seq(Byte), wire' = wire \o c, written' = written
  PROVE  Placed(st)' /\ wire' \in Seq(Byte) /\ Len(wire') = Len(wire) + Len(c) /\ taken \in 0 .. Len(wire')
  <1> DEFINE n == Len(written)
  <1>1. n \in Nat /\ wire \in Seq(Byte) /\ Len(wire) \in Nat /\ Len(c) \in Nat
    BY DEF WireTypes
  <1>2. wire \o c \in Seq(Byte) /\ Len(wire \o c) = Len(wire) + Len(c)
    BY <1>1
  <1>3. taken \in 0 .. Len(wire')
    BY <1>1, <1>2 DEF WireTypes
  <1>4. \A k \in 1 .. n + 1 : st[k] \in Nat /\ st[k] <= Len(wire)
    BY <1>1 DEF Placed
  <1>5. ASSUME NEW k \in 1 .. n
        PROVE  Holds(wire \o c, st[k], FrameOf(written[k]))
    <2>1. k \in 1 .. n + 1 /\ k + 1 \in 1 .. n + 1 /\ written[k] \in Messages
      BY <1>1 DEF WireTypes
    <2>2. FrameOf(written[k]) \in Seq(Byte) /\ Len(FrameOf(written[k])) = FrameLen(written[k])
      BY <2>1, MessageFacts
    <2>3. st[k + 1] = st[k] + FrameLen(written[k]) /\ Holds(wire, st[k], FrameOf(written[k]))
      BY DEF Placed
    <2> QED BY <1>1, <1>4, <2>1, <2>2, <2>3, HoldsWithMore
  <1>6. \A k \in 1 .. n + 1 : st[k] <= Len(wire \o c)
    BY <1>1, <1>2, <1>4
  <1> QED BY <1>2, <1>3, <1>5, <1>6 DEF Placed

(* Behind the whole frames is the end of what was written, as long as       *)
(* nothing else was.                                                        *)
LEMMA EndOfFrames ==
  ASSUME WireTypes, NEW st \in Seq(Nat), Placed(st), Behind(st), conn = "open", tail = "none"
  PROVE  st[Len(written) + 1] = Len(wire)
  <1>1. Len(written) \in Nat /\ Len(wire) \in Nat /\ Len(st) = Len(written) + 1
    BY DEF WireTypes, Placed
  <1>2. Len(written) + 1 \in 1 .. Len(written) + 1
    BY <1>1
  <1>3. st[Len(written) + 1] \in Nat
    BY <1>1, <1>2
  <1>4. Len(wire) <= st[Len(written) + 1] /\ st[Len(written) + 1] <= Len(wire)
    BY <1>2 DEF Placed, Behind
  <1> QED BY <1>1, <1>3, <1>4

(* Part of a frame comes behind the whole ones.                             *)
LEMMA TearKeeps ==
  ASSUME WireInv, NEW m \in Messages, NEW cut \in 1 .. 4 + Len(m.payload), Tears(m, cut)
  PROVE  WireInv'
  <1> DEFINE f == FrameOf(m)
             part == SubSeq(f, 1, cut)
  <1>1. PICK st \in Seq(Nat) : Placed(st) /\ Behind(st) /\ InStep(st)
    BY DEF WireInv
  <1>2. /\ conn = "open" /\ tail = "none" /\ tail' = "part" /\ wire' = wire \o part
        /\ owed' = SubSeq(f, cut + 1, 5 + Len(m.payload))
        /\ UNCHANGED <<bye, written, conn, taken, got, ended>>
    BY DEF Tears, readerVars, FrameOf
  <1>3. WireTypes /\ StaysInSync /\ wire \in Seq(Byte) /\ Len(written) \in Nat
    BY DEF WireInv, WireTypes
  <1>4. f \in Seq(Byte) /\ Len(f) = 5 + Len(m.payload) /\ Len(m.payload) \in Nat
    BY MessageFacts DEF FrameLen
  <1> HIDE DEF f
  <1>5. cut \in Nat /\ cut <= Len(f)
    BY <1>4
  <1>6. part \in Seq(Byte) /\ owed' \in Seq(Byte)
    BY <1>2, <1>4, <1>5
  <1> HIDE DEF part
  <1>7. Placed(st)' /\ wire' \in Seq(Byte) /\ taken \in 0 .. Len(wire')
    BY <1>1, <1>2, <1>3, <1>6, MoreKeepsPlaces
  <1>8. WireTypes'
    BY <1>2, <1>3, <1>6, <1>7 DEF WireTypes
  <1>9. Behind(st)' /\ InStep(st)'
    BY <1>1, <1>2 DEF Behind, InStep
  <1>10. ended # "refused" /\ ended # "eof" /\ ended # "goodbye"
    BY <1>2 DEF WireInv, StaysInSync
  <1>11. StaysInSync'
    BY <1>2, <1>3, <1>10 DEF StaysInSync
  <1> QED BY <1>1, <1>2, <1>7, <1>8, <1>9, <1>10, <1>11 DEF WireInv

(* What comes behind the goodbye or the torn frame changes nothing for the  *)
(* reader's account of the whole frames.                                    *)
LEMMA MoreKeeps ==
  ASSUME WireInv, conn = "open", tail # "none", NEW c \in Seq(Byte), wire' = wire \o c,
         owed' \in Seq(Byte), UNCHANGED <<bye, written, tail, conn, taken, got, ended>>
  PROVE  WireInv'
  <1>1. PICK st \in Seq(Nat) : Placed(st) /\ Behind(st) /\ InStep(st)
    BY DEF WireInv
  <1>2. WireTypes /\ StaysInSync /\ wire \in Seq(Byte) /\ bye \in Goodbyes /\ Len(wire) \in Nat
    BY DEF WireInv, WireTypes
  <1>3. Placed(st)' /\ wire' \in Seq(Byte) /\ Len(wire') = Len(wire) + Len(c) /\ taken \in 0 .. Len(wire')
    BY <1>1, <1>2, MoreKeepsPlaces
  <1>4. WireTypes'
    BY <1>2, <1>3 DEF WireTypes
  <1>5. Behind(st)'
    <2>1. CASE tail = "goodbye"
      <3> DEFINE e == st[Len(written) + 1]
                 g == Frame(bye, <<>>)
      <3>1. Holds(wire, e, g) /\ e + 5 <= Len(wire)
        BY <1>1, <2>1 DEF Behind
      <3>2. e \in Nat /\ g \in Seq(Byte) /\ Len(g) = 5
        <4>1. Len(written) + 1 \in 1 .. Len(st)
          BY <1>1, <1>2 DEF Placed, WireTypes
        <4> QED BY <1>1, <1>2, <4>1, GoodbyeFrame
      <3> HIDE DEF e, g
      <3>3. Holds(wire', e, g)
        BY <1>2, <3>1, <3>2, HoldsWithMore
      <3>4. e + 5 <= Len(wire')
        BY <1>2, <1>3, <3>1, <3>2
      <3> QED BY <2>1, <3>3, <3>4 DEF Behind, e, g
    <2>2. CASE tail # "goodbye"
      BY <2>2 DEF Behind
    <2> QED BY <2>1, <2>2
  <1>6. InStep(st)' /\ StaysInSync'
    BY <1>1, <1>2 DEF InStep, StaysInSync
  <1>7. ended' = "eof" => conn' # "open"
    BY DEF WireInv
  <1> QED BY <1>1, <1>3, <1>4, <1>5, <1>6, <1>7 DEF WireInv

(* The goodbye comes behind the whole frames, or behind a torn one.         *)
LEMMA GoodbyeKeeps == WireInv /\ SaysGoodbye => WireInv'
  <1> SUFFICES ASSUME WireInv, SaysGoodbye PROVE WireInv'
    OBVIOUS
  <1> DEFINE g == Frame(bye, <<>>)
  <1>1. /\ conn = "open" /\ wire' = wire \o g /\ tail' = IF tail = "none" THEN "goodbye" ELSE tail
        /\ UNCHANGED <<bye, written, owed, conn, taken, got, ended>>
    BY DEF SaysGoodbye, readerVars
  <1>2. /\ WireTypes /\ StaysInSync /\ wire \in Seq(Byte) /\ owed \in Seq(Byte)
        /\ Len(wire) \in Nat /\ bye \in Goodbyes
    BY DEF WireInv, WireTypes
  <1>3. g \in Seq(Byte) /\ Len(g) = 5
    BY <1>2, GoodbyeFrame
  <1> HIDE DEF g
  <1>4. CASE tail # "none"
    BY <1>1, <1>2, <1>3, <1>4, MoreKeeps
  <1>5. CASE tail = "none"
    <2>1. PICK st \in Seq(Nat) : Placed(st) /\ Behind(st) /\ InStep(st)
      BY DEF WireInv
    <2>2. Placed(st)' /\ wire' \in Seq(Byte) /\ Len(wire') = Len(wire) + 5 /\ taken \in 0 .. Len(wire')
      BY <1>1, <1>2, <1>3, <2>1, MoreKeepsPlaces
    <2>3. tail' = "goodbye" /\ WireTypes'
      BY <1>1, <1>2, <1>5, <2>2 DEF WireTypes
    <2>4. st[Len(written) + 1] = Len(wire)
      BY <1>1, <1>2, <1>5, <2>1, EndOfFrames
    <2>5. Holds(wire', Len(wire), g)
      BY <1>1, <1>2, <1>3, HoldsWritten
    <2>6. Holds(wire', st[Len(written) + 1], g) /\ st[Len(written) + 1] + 5 <= Len(wire')
      BY <1>2, <2>2, <2>4, <2>5
    <2>7. Behind(st)' /\ InStep(st)'
      BY <1>1, <2>1, <2>3, <2>6 DEF Behind, InStep, g
    <2>8. ended # "refused" /\ ended # "eof" /\ ended # "goodbye" /\ Len(got) <= Len(written)
      BY <1>1, <1>2, <1>5 DEF WireInv, StaysInSync, WireTypes
    <2>9. StaysInSync'
      BY <1>1, <1>2, <2>3, <2>8 DEF StaysInSync, WireTypes
    <2> QED BY <1>1, <2>1, <2>2, <2>3, <2>7, <2>8, <2>9 DEF WireInv
  <1> QED BY <1>4, <1>5

(* A sender that was waiting writes behind a goodbye or a torn frame.       *)
LEMMA LateKeeps ==
  ASSUME WireInv, NEW m \in Messages, WritesLate(m)
  PROVE  WireInv'
  <1>1. FrameOf(m) \in Seq(Byte) /\ owed \in Seq(Byte)
    BY MessageFacts DEF WireInv, WireTypes
  <1>2. /\ conn = "open" /\ tail # "none" /\ wire' = wire \o FrameOf(m)
        /\ UNCHANGED <<bye, written, tail, owed, conn, taken, got, ended>>
    BY DEF WritesLate, readerVars, FrameOf
  <1> QED BY <1>1, <1>2, MoreKeeps

(* What a writer still had to write comes behind its torn frame.            *)
LEMMA ResumeKeeps == WireInv /\ Resumes => WireInv'
  <1> SUFFICES ASSUME WireInv, Resumes PROVE WireInv'
    OBVIOUS
  <1>1. owed \in Seq(Byte) /\ <<>> \in Seq(Byte)
    BY DEF WireInv, WireTypes
  <1>2. /\ conn = "open" /\ tail # "none" /\ wire' = wire \o owed /\ owed' = <<>>
        /\ UNCHANGED <<bye, written, tail, conn, taken, got, ended>>
    BY DEF Resumes, readerVars, WireInv
  <1> QED BY <1>1, <1>2, MoreKeeps

(* Closing leaves what was written.                                         *)
LEMMA CloseKeeps == WireInv /\ Closes => WireInv'
  <1> SUFFICES ASSUME WireInv, Closes PROVE WireInv'
    OBVIOUS
  <1>1. PICK st \in Seq(Nat) : Placed(st) /\ Behind(st) /\ InStep(st)
    BY DEF WireInv
  <1>2. /\ conn = "open" /\ conn' = "closed"
        /\ UNCHANGED <<bye, wire, written, tail, owed, taken, got, ended>>
    BY DEF Closes, senderVars, readerVars
  <1>3. ended # "eof"
    BY <1>2 DEF WireInv
  <1>4. Placed(st)' /\ Behind(st)' /\ InStep(st)'
    BY <1>1, <1>2 DEF Placed, Behind, InStep
  <1>5. WireTypes' /\ StaysInSync'
    BY <1>2, <1>3 DEF WireInv, WireTypes, StaysInSync
  <1> QED BY <1>2, <1>3, <1>4, <1>5 DEF WireInv

(* A connection that breaks loses bytes the reader had not read.            *)
LEMMA BreakKeeps ==
  ASSUME WireInv, NEW n \in taken .. Len(wire), Breaks(n)
  PROVE  WireInv'
  <1>1. PICK st \in Seq(Nat) : Placed(st) /\ Behind(st) /\ InStep(st)
    BY DEF WireInv
  <1>2. /\ conn = "open" /\ conn' = "broken" /\ wire' = SubSeq(wire, 1, n)
        /\ UNCHANGED <<bye, written, tail, owed, taken, got, ended>>
    BY DEF Breaks, readerVars
  <1>3. /\ WireTypes /\ StaysInSync /\ wire \in Seq(Byte) /\ Len(wire) \in Nat /\ taken \in Nat
        /\ bye \in Goodbyes /\ Len(written) \in Nat
    BY DEF WireInv, WireTypes
  <1>4. n \in 0 .. Len(wire) /\ n \in Nat /\ taken <= n
    BY <1>3
  <1>5. wire' \in Seq(Byte) /\ Len(wire') = n
    BY <1>2, <1>3, <1>4
  <1>6. taken' \in 0 .. Len(wire')
    BY <1>2, <1>3, <1>4, <1>5
  <1>7. WireTypes'
    BY <1>2, <1>3, <1>5, <1>6 DEF WireTypes
  <1>8. \A k \in 1 .. Len(written) + 1 : st[k] \in Nat
    BY <1>1, <1>3 DEF Placed
  <1>9. Placed(st)'
    <2>1. ASSUME NEW k \in 1 .. Len(written)
          PROVE  Holds(wire', st[k], FrameOf(written[k]))
      <3>1. k \in 1 .. Len(written) + 1 /\ written[k] \in Messages
        BY <1>3 DEF WireTypes
      <3>2. FrameOf(written[k]) \in Seq(Byte) /\ st[k] \in Nat
        BY <1>8, <3>1, MessageFacts
      <3>3. Holds(wire, st[k], FrameOf(written[k]))
        BY <1>1 DEF Placed
      <3> QED BY <1>2, <1>3, <1>4, <3>2, <3>3, HoldsWithLess
    <2> QED BY <1>1, <1>2, <2>1 DEF Placed
  <1>10. Behind(st)'
    <2> DEFINE z == st[Len(written) + 1]
               g == Frame(bye, <<>>)
    <2>1. z \in Nat /\ g \in Seq(Byte)
      <3>1. Len(written) + 1 \in 1 .. Len(written) + 1
        BY <1>3
      <3> QED BY <1>3, <1>8, <3>1, GoodbyeFrame
    <2>2. tail = "none" => Len(wire) <= z
      BY <1>1 DEF Behind
    <2>3. tail = "goodbye" => Holds(wire, z, g)
      BY <1>1 DEF Behind
    <2> HIDE DEF z, g
    <2>4. tail = "goodbye" => Holds(wire', z, g)
      BY <1>2, <1>3, <1>4, <2>1, <2>3, HoldsWithLess
    <2>5. tail = "none" => Len(wire') <= z
      BY <1>3, <1>4, <1>5, <2>1, <2>2
    <2> QED BY <1>2, <2>4, <2>5 DEF Behind, z, g
  <1>11. InStep(st)' /\ StaysInSync'
    BY <1>1, <1>2, <1>3 DEF InStep, StaysInSync
  <1> QED BY <1>2, <1>7, <1>9, <1>10, <1>11 DEF WireInv

(* The reader changes nothing but its own position.                         *)
LEMMA ReadingKeepsPlaces ==
  ASSUME NEW st \in Seq(Nat), Placed(st), Behind(st), UNCHANGED <<bye, senderVars, conn>>
  PROVE  Placed(st)' /\ Behind(st)'
  BY DEF Placed, Behind, senderVars

(* A reader in step reads what was written and is in step behind it; one    *)
(* that is not was led astray by a torn frame.                              *)
LEMMA ReadKeeps ==
  ASSUME WireInv, NEW decodes \in BOOLEAN, Reads(decodes)
  PROVE  WireInv'
  <1> DEFINE n == Len(got)
             m == [id |-> Arriving.id, payload |-> Arriving.payload]
  <1>1. PICK st \in Seq(Nat) : Placed(st) /\ Behind(st) /\ InStep(st)
    BY DEF WireInv
  <1>2. /\ ended = "no" /\ Arriving.end = "no" /\ Arriving.id # bye
        /\ got' = Append(got, m) /\ taken' = taken + 5 + Len(Arriving.payload)
        /\ ended' \in {"no", "malformed"}
        /\ UNCHANGED <<bye, senderVars, conn>>
    BY DEF Reads
  <1>3. UNCHANGED <<wire, written, tail, owed>>
    BY <1>2 DEF senderVars
  <1>4. /\ WireTypes /\ StaysInSync /\ wire \in Seq(Byte) /\ taken \in 0 .. Len(wire)
        /\ got \in Seq(MessageType) /\ n \in Nat /\ Len(written) \in Nat
    BY DEF WireInv, WireTypes
  <1>5. Placed(st)' /\ Behind(st)'
    BY <1>1, <1>2, ReadingKeepsPlaces
  <1>6. /\ Arriving.id \in Byte /\ Arriving.payload \in Seq(Byte)
        /\ taken + 5 + Len(Arriving.payload) \in 0 .. Len(wire)
    BY <1>2, <1>4, ArrivingFacts DEF Arriving
  <1>7. m \in MessageType
    BY <1>6 DEF MessageType
  <1> HIDE DEF m
  <1>8. /\ got' \in Seq(MessageType) /\ Len(got') = n + 1 /\ got'[n + 1] = m
        /\ \A k \in 1 .. n : got'[k] = got[k]
        /\ DOMAIN got' = 1 .. n + 1 /\ DOMAIN got = 1 .. n
    BY <1>2, <1>4, <1>7
  <1>9. WireTypes'
    BY <1>2, <1>3, <1>4, <1>6, <1>8 DEF WireTypes
  <1>10. CASE n < Len(written)
    <2>1. /\ m = written[n + 1] /\ taken' = st[n + 2]
      <3> DEFINE w == written[n + 1]
      <3>1. /\ w \in Messages /\ taken + FrameLen(w) = st[n + 2]
            /\ Len(Arriving.payload) = Len(w.payload) /\ m = w
        BY <1>1, <1>2, <1>4, <1>10, NextIsWritten DEF m
      <3>2. Len(w.payload) \in Nat
        BY <3>1, MessageFacts
      <3> HIDE DEF w
      <3>3. taken \in Nat
        BY <1>4
      <3>4. taken + 5 + Len(w.payload) = taken + FrameLen(w)
        BY <3>2, <3>3, FrameEnd
      <3> QED BY <1>2, <3>1, <3>4 DEF w
    <2>2. InStep(st)'
      <3>1. Len(got') + 1 = n + 2
        BY <1>4, <1>8
      <3> QED BY <2>1, <3>1 DEF InStep
    <2>3. \A k \in DOMAIN got' : k <= Len(written) => got'[k] = written[k]
      <3> SUFFICES ASSUME NEW k \in 1 .. n + 1, k <= Len(written) PROVE got'[k] = written[k]
        BY <1>8
      <3>1. CASE k = n + 1
        BY <1>8, <2>1, <3>1
      <3>2. CASE k # n + 1
        <4>1. k \in 1 .. n
          BY <1>4, <3>2
        <4> QED BY <1>4, <1>8, <4>1 DEF StaysInSync
      <3> QED BY <3>1, <3>2
    <2>4. StaysInSync'
      BY <1>2, <1>3, <1>4, <1>8, <1>10, <2>3 DEF StaysInSync
    <2> QED BY <1>2, <1>3, <1>5, <1>9, <2>2, <2>4 DEF WireInv
  <1>11. CASE ~(n < Len(written))
    <2>1. tail = "part"
      <3>1. CASE n > Len(written)
        BY <1>4, <3>1 DEF StaysInSync
      <3>2. CASE n = Len(written)
        BY <1>1, <1>2, <1>4, <3>2, NextIsGoodbye DEF WireTypes
      <3> QED BY <1>4, <1>11, <3>1, <3>2
    <2>2. InStep(st)'
      BY <1>3, <1>4, <1>8, <1>11 DEF InStep
    <2>3. \A k \in DOMAIN got' : k <= Len(written) => got'[k] = written[k]
      <3> SUFFICES ASSUME NEW k \in 1 .. n + 1, k <= Len(written) PROVE got'[k] = written[k]
        BY <1>8
      <3>1. k \in 1 .. n
        BY <1>4, <1>11
      <3> QED BY <1>4, <1>8, <3>1 DEF StaysInSync
    <2>4. StaysInSync'
      BY <1>2, <1>3, <2>1, <2>3 DEF StaysInSync
    <2> QED BY <1>2, <1>3, <1>5, <1>9, <2>1, <2>2, <2>4 DEF WireInv
  <1> QED BY <1>10, <1>11

(* The loop ends with a goodbye, a refusal or the end of the stream only    *)
(* when it has read every message, or the stream was cut off.               *)
LEMMA EndKeeps == WireInv /\ (ReadsGoodbye \/ RefusesLength \/ ReachesEof) => WireInv'
  <1> SUFFICES ASSUME WireInv, ReadsGoodbye \/ RefusesLength \/ ReachesEof PROVE WireInv'
    OBVIOUS
  <1>1. PICK st \in Seq(Nat) : Placed(st) /\ Behind(st) /\ InStep(st)
    BY DEF WireInv
  <1>2. /\ ended = "no" /\ got' = got /\ UNCHANGED <<bye, senderVars, conn>>
        /\ \/ /\ Arriving.end = "no" /\ Arriving.id = bye /\ ended' = "goodbye"
              /\ taken' = taken + 5 + Len(Arriving.payload)
           \/ Arriving.end = "refused" /\ ended' = "refused" /\ taken' = taken
           \/ Arriving.end = "eof" /\ conn # "open" /\ ended' = "eof" /\ taken' = taken
    BY DEF ReadsGoodbye, RefusesLength, ReachesEof
  <1>3. UNCHANGED <<wire, written, tail, owed>>
    BY <1>2 DEF senderVars
  <1>4. /\ WireTypes /\ StaysInSync /\ wire \in Seq(Byte) /\ taken \in 0 .. Len(wire)
        /\ Len(got) \in Nat /\ Len(written) \in Nat
    BY DEF WireInv, WireTypes
  <1>5. Placed(st)' /\ Behind(st)'
    BY <1>1, <1>2, ReadingKeepsPlaces
  <1>6. Arriving.end = "no" => taken + 5 + Len(Arriving.payload) \in 0 .. Len(wire)
    BY <1>4, ArrivingFacts DEF Arriving
  <1>7. WireTypes'
    BY <1>2, <1>3, <1>4, <1>6 DEF WireTypes
  <1>8. CASE Len(got) < Len(written)
    <2> DEFINE w == written[Len(got) + 1]
    <2>1. /\ w \in Messages /\ taken + FrameLen(w) = st[Len(got) + 2]
          /\ Arriving.end = IF taken + FrameLen(w) <= Len(wire) THEN "no" ELSE "eof"
          /\ Arriving.end = "no" => Arriving.id # bye
      BY <1>1, <1>2, <1>4, <1>8, NextIsWritten
    <2>2. ended' = "eof" /\ taken' = taken /\ conn # "open" /\ Arriving.end = "eof"
      BY <1>2, <2>1
    <2>3. conn = "broken"
      <3>1. Len(got) + 2 \in 1 .. Len(written) + 1
        BY <1>4, <1>8
      <3>2. conn # "broken" => st[Len(got) + 2] <= Len(wire)
        BY <1>1, <3>1 DEF Placed
      <3> QED BY <2>1, <2>2, <3>2
    <2>4. InStep(st)' /\ StaysInSync'
      BY <1>1, <1>2, <1>3, <1>4, <2>2, <2>3 DEF InStep, StaysInSync
    <2> QED BY <1>2, <1>3, <1>5, <1>7, <2>2, <2>3, <2>4 DEF WireInv
  <1>9. CASE Len(got) = Len(written) /\ tail # "part"
    <2>1. /\ tail = "none" => Arriving.end = "eof"
          /\ tail = "goodbye" =>
               /\ Arriving.end \in {"no", "eof"}
               /\ conn # "broken" => Arriving.end = "no"
      BY <1>1, <1>2, <1>4, <1>9, NextIsGoodbye
    <2>2. tail \in {"none", "goodbye"}
      BY <1>4, <1>9 DEF WireTypes
    <2>3. CASE ended' = "eof"
      BY <1>1, <1>2, <1>3, <1>4, <1>5, <1>7, <1>9, <2>1, <2>2, <2>3
         DEF WireInv, StaysInSync, InStep
    <2>4. CASE ended' = "goodbye"
      <3>1. InStep(st)' /\ tail # "none"
        BY <1>2, <2>1, <2>4 DEF InStep
      <3>2. StaysInSync'
        BY <1>2, <1>3, <1>4, <1>9, <2>4 DEF StaysInSync
      <3> QED BY <1>1, <1>3, <1>5, <1>7, <2>4, <3>1, <3>2 DEF WireInv
    <2>5. ended' # "refused"
      BY <1>2, <2>1, <2>2
    <2> QED BY <1>2, <2>3, <2>4, <2>5
  <1>10. CASE tail = "part" /\ ~(Len(got) < Len(written))
    <2>1. InStep(st)'
      BY <1>1, <1>2, <1>3 DEF InStep
    <2>2. StaysInSync'
      BY <1>2, <1>3, <1>4, <1>10 DEF StaysInSync
    <2>3. ended' = "eof" => conn' # "open"
      BY <1>2
    <2> QED BY <1>1, <1>3, <1>5, <1>7, <1>10, <2>1, <2>2, <2>3 DEF WireInv
  <1>11. Len(got) > Len(written) => tail = "part"
    BY <1>4 DEF StaysInSync
  <1> QED BY <1>4, <1>8, <1>9, <1>10, <1>11

(* Nothing is written yet.                                                  *)
LEMMA WireInitInv == WireInit => WireInv
  <1> SUFFICES ASSUME WireInit PROVE WireInv
    OBVIOUS
  <1>1. <<>> \in Seq(Byte) /\ <<>> \in Seq(MessageType) /\ Len(<<>>) = 0 /\ DOMAIN <<>> = {}
    OBVIOUS
  <1>2. WireTypes /\ StaysInSync
    BY <1>1 DEF WireInit, WireTypes, StaysInSync
  <1>3. <<0>> \in Seq(Nat) /\ Len(<<0>>) = 1 /\ <<0>>[1] = 0
    OBVIOUS
  <1>4. Placed(<<0>>)
    BY <1>1, <1>3 DEF Placed, WireInit
  <1>5. Behind(<<0>>) /\ InStep(<<0>>)
    BY <1>1, <1>3 DEF Behind, InStep, WireInit
  <1> QED BY <1>2, <1>3, <1>4, <1>5 DEF WireInv, WireInit

(* Every step of the sender and of the reader.                              *)
LEMMA WireStep == WireInv /\ [WireNext]_wireVars => WireInv'
  <1> SUFFICES ASSUME WireInv, [WireNext]_wireVars PROVE WireInv'
    OBVIOUS
  <1>1. CASE Sends
    BY <1>1, WriteKeeps, LateKeeps, TearKeeps, GoodbyeKeeps, ResumeKeeps, CloseKeeps, BreakKeeps
       DEF Sends
  <1>2. CASE Receives
    BY <1>2, ReadKeeps, EndKeeps DEF Receives
  <1>3. CASE UNCHANGED wireVars
    BY <1>3 DEF wireVars, senderVars, readerVars, WireInv, WireTypes, StaysInSync,
                Placed, Behind, InStep
  <1> QED BY <1>1, <1>2, <1>3 DEF WireNext

(* Where the frames are, and where the reader is among them.                *)
THEOREM WireInvariance == WireSpec => []WireInv
  BY WireInitInv, WireStep, PTL DEF WireSpec

(* Whatever is sent, wherever a frame is torn and the connection breaks,    *)
(* and whatever the pumps and the goodbye put behind the torn frame,        *)
(* read_frame and recvMsg give back the messages that were written whole    *)
(* before it, in order and byte for byte, before anything else.             *)
THEOREM ReaderStaysInSync == WireSpec => []StaysInSync
  <1>1. WireInv => StaysInSync
    BY DEF WireInv
  <1> QED BY <1>1, WireInvariance, PTL
=============================================================================
