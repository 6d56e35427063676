------------------------------ MODULE ClockSync ------------------------------
(***************************************************************************)
(* The estimator of TimeSync at work: the tablet asks, the PC answers, and *)
(* every answer is observed when it is read.  A request waits for the      *)
(* mutex of the senders and on the way, its answer for the writer of the   *)
(* session and on the way back.  Time is the tablet's clock.  A connection *)
(* begins with reset(): its PC may have another clock.  The read loop of   *)
(* the connection before has ended by then, so no answer of it is left.    *)
(***************************************************************************)
EXTENDS TimeSync, FiniteSetsExt

CONSTANTS
  Clocks,     \* the PC's clocks: [ahead, drift, rate]
  Gaps,       \* time from one request to the next
  Waits,      \* [mutex, out, writer, back]: where an exchange spends its time
  Window,     \* windowMs
  MaxHeard,   \* bound: answers on one connection
  MaxSent     \* bound: time of the last request

ASSUME ClockAssumption ==
  /\ Clocks \subseteq [ahead : Int, drift : Nat \ {0}, rate : {-1, 1}]
  /\ Gaps \subseteq Nat
  /\ Waits \subseteq [mutex : Nat, out : Nat, writer : Nat, back : Nat]
  /\ Window \in Nat /\ MaxHeard \in Nat /\ MaxSent \in Nat

VARIABLES
  pcClock,    \* the clock at the other end of the connection
  sent,       \* when the last request was stamped
  heard,      \* history: the exchanges of this connection, as their answers were read
  est         \* the estimator

clockVars == <<pcClock, sent, heard, est>>

ClockInit == pcClock \in Clocks /\ sent = 0 /\ heard = <<>> /\ est = Reset

Leg(at, w) == [at |-> at, mutex |-> w.mutex, out |-> w.out, writer |-> w.writer, back |-> w.back]
Trip(leg) == leg.mutex + leg.out + leg.writer + leg.back
Received(leg) == leg.at + Trip(leg)

\* One exchange.  timeSyncLoop does not wait for answers, so requests overlap;
\* the answers come in the order of the requests.
HearsAnswer(gap, w) ==
  LET leg == Leg(sent + gap, w) IN
  /\ Len(heard) < MaxHeard /\ leg.at <= MaxSent
  /\ \A i \in DOMAIN heard : Received(heard[i]) <= Received(leg)
  /\ sent' = leg.at
  /\ heard' = Append(heard, leg)
  /\ est' = Observe(est, Exchange(pcClock, leg), Window)
  /\ UNCHANGED pcClock

\* handshakeAndPump of the next connection.
Reconnects ==
  /\ pcClock' \in Clocks
  /\ heard' = <<>> /\ est' = Reset
  /\ UNCHANGED sent

ClockNext == (\E gap \in Gaps, w \in Waits : HearsAnswer(gap, w)) \/ Reconnects

ClockSpec == ClockInit /\ [][ClockNext]_clockVars

-----------------------------------------------------------------------------
Abs(n) == IF n < 0 THEN -n ELSE n

Now == Received(heard[Len(heard)])

\* The exchanges of the last window.
Recent == {i \in DOMAIN heard : Received(heard[i]) >= Now - Window}
Shortest == Min({Trip(heard[i]) : i \in Recent})

\* After every exchange the estimated offset is off by at most half the
\* shortest round trip of the last window plus what the clocks drift apart
\* within it, whichever exchanges were slow and wherever they waited: stamping
\* t3 before the wait for the writer, and t1 before the wait for the mutex,
\* lengthens the round trip and so cannot pass for a better sample
\* (TimeSync.observe, session.rs:1122).
OffsetWithinTrip ==
  heard # <<>> =>
    /\ est.bestRtt = Shortest
    /\ Abs(est.pcMinusAndroid - (PcClock(pcClock, Now) - Now))
         <= Shortest \div 2 + (Window + Shortest) \div pcClock.drift + 2
=============================================================================
