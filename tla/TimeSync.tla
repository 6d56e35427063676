------------------------------- MODULE TimeSync -------------------------------
(***************************************************************************)
(* The clock-offset estimator of the tablet (TimeSync.kt): the offset of   *)
(* the exchange with the shortest round trip among those received within   *)
(* the last `window'.  An exchange is [t1, t2, t3, t4]: request sent and   *)
(* answer received by the tablet's clock, request received and answer      *)
(* stamped by the PC's.                                                    *)
(***************************************************************************)
EXTENDS Integers, Sequences, SequencesExt

\* reset(): the estimator at the start of a connection.
Reset == [samples |-> <<>>, pcMinusAndroid |-> 0, bestRtt |-> -1, total |-> 0]

Rtt(x) == (x.t4 - x.t1) - (x.t3 - x.t2)

Sample(x) == [rtt |-> Rtt(x), offset |-> x.t2 - (x.t1 + Rtt(x) \div 2), recv |-> x.t4]

\* removeFirst while the oldest sample is older than the window.
AgeOut(samples, cutoff) ==
  LET fresh == SelectInSeq(samples, LAMBDA s : s.recv >= cutoff)
  IN  IF fresh = 0 THEN <<>> ELSE SubSeq(samples, fresh, Len(samples))

\* The first of the samples with the least round trip.
Best(samples) == samples[SelectInSeq(samples, LAMBDA s : \A i \in DOMAIN samples : s.rtt <= samples[i].rtt)]

\* Fault: the sample with the least round trip is kept for ever.
ObserveForever(est, x, window) ==
  LET samples == Append(est.samples, Sample(x))
      best == Best(samples)
  IN  [samples |-> samples, pcMinusAndroid |-> best.offset, bestRtt |-> best.rtt,
       total |-> est.total + 1]

\* observe(): a negative round trip is rejected.
Observe(est, x, window) ==
  IF Rtt(x) < 0 THEN est
  ELSE LET samples == AgeOut(Append(est.samples, Sample(x)), x.t4 - window)
           best == Best(samples)
       IN  [samples |-> samples, pcMinusAndroid |-> best.offset, bestRtt |-> best.rtt,
            total |-> est.total + 1]

-----------------------------------------------------------------------------
(* One exchange, leg by leg: sendOneSync stamps t1 before it waits for the   *)
(* mutex of the senders, read_loop takes t2 and t3 together before it waits  *)
(* for the writer.  The PC's clock is `ahead' and gains (rate 1) or loses    *)
(* (rate -1) one unit every `drift' units of the tablet's.                   *)

PcClock(clock, t) == t + clock.ahead + clock.rate * (t \div clock.drift)

Exchange(clock, leg) ==
  LET arrives == leg.at + leg.mutex + leg.out
      stamp == PcClock(clock, arrives)
  IN  [t1 |-> leg.at, t2 |-> stamp, t3 |-> stamp, t4 |-> arrives + leg.writer + leg.back]
=============================================================================
