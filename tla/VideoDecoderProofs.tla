------------------------- MODULE VideoDecoderProofs -------------------------
(***************************************************************************)
(* Proofs about VideoDecoder, for any number of codec buffers and any      *)
(* stream.  Inv is the inductive invariant: types, what the lock           *)
(* guarantees once it is released (LockInv), where each frame is           *)
(* (PlaceInv), where its keyframe flag is (FlagInv) and whose samples the  *)
(* client keeps (SampleInv).  BufferInv says where each codec buffer is.   *)
(***************************************************************************)
EXTENDS VideoDecoder, FiniteSetTheorems, TLAPS

USE DEF vars, readerVars, cbVars, lockVars, codecVars, hudVars

(* A frame of the stream has a time stamp and a keyframe flag.              *)
LEMMA StreamType ==
    /\ Len(Stream) \in Nat /\ Frames = 1 .. Len(Stream)
    /\ \A f \in Frames : Stream[f].pts \in Nat /\ Stream[f].key \in BOOLEAN
<1>1. Stream \in Seq(Frame)
  BY StreamAssumption
<1>2. Len(Stream) \in Nat /\ Frames = 1 .. Len(Stream)
  BY <1>1 DEF Frames
<1>3. ASSUME NEW f \in Frames
      PROVE  Stream[f] \in Frame
  BY <1>1, <1>2
<1>4. ASSUME NEW f \in Frames
      PROVE  Stream[f].pts \in Nat /\ Stream[f].key \in BOOLEAN
  BY <1>3 DEF Frame
<1> QED BY <1>2, <1>4

(* Later frames are at least a microsecond younger.                         *)
LEMMA PtsSpaced ==
    \A f, g \in Frames : f < g => Stream[f].pts + 1000 <= Stream[g].pts
BY StreamAssumption DEF NsPerUs

(* No two frames have the same time stamp.                                  *)
LEMMA PtsDistinct ==
    \A f, g \in Frames : f # g => Stream[f].pts # Stream[g].pts
<1> SUFFICES ASSUME NEW f \in Frames, NEW g \in Frames, f # g
             PROVE  Stream[f].pts # Stream[g].pts
  OBVIOUS
<1>1. f \in Nat /\ g \in Nat /\ Stream[f].pts \in Nat /\ Stream[g].pts \in Nat
  BY StreamType
<1>2. CASE f < g
  BY <1>1, <1>2, PtsSpaced
<1>3. CASE g < f
  BY <1>1, <1>3, PtsSpaced
<1> QED BY <1>1, <1>2, <1>3

(* Rounding down to a microsecond never turns one frame's time stamp into   *)
(* another's.                                                               *)
LEMMA TruncationInjective ==
    \A f, g \in Frames :
        (Stream[f].pts \div NsPerUs) * NsPerUs = Stream[g].pts => f = g
<1> SUFFICES ASSUME NEW f \in Frames, NEW g \in Frames, f # g
             PROVE  (Stream[f].pts \div NsPerUs) * NsPerUs # Stream[g].pts
  OBVIOUS
<1>1. f \in Nat /\ g \in Nat /\ Stream[f].pts \in Nat /\ Stream[g].pts \in Nat
  BY StreamType
<1>2. \A n \in Nat : /\ (n \div 1000) * 1000 <= n
                     /\ n < (n \div 1000) * 1000 + 1000
  OBVIOUS
<1>3. CASE f < g
  <2>1. Stream[f].pts + 1000 <= Stream[g].pts
    BY <1>3, PtsSpaced
  <2> QED BY <1>1, <1>2, <2>1 DEF NsPerUs
<1>4. CASE g < f
  <2>1. Stream[g].pts + 1000 <= Stream[f].pts
    BY <1>4, PtsSpaced
  <2> QED BY <1>1, <1>2, <2>1 DEF NsPerUs
<1> QED BY <1>1, <1>3, <1>4

-----------------------------------------------------------------------------
(* Who is in feedBuffer, or about to be, has a frame and a buffer.          *)
HandsInv ==
    /\ reader # "recv" => received \in Frames
    /\ reader \in Busy => reader_index \in Indices
    /\ cb \in Busy => cb_index \in Indices /\ cb_frame \in Frames

(* What the two threads found under the lock still holds when they have     *)
(* released it: no frame waits while a buffer does, and each thread's       *)
(* presence in feedBuffer rules out what would let the other one in.        *)
LockInv ==
    /\ pendingData # << >> => parkedIndices = << >>
    /\ cb \in Busy => parkedIndices = << >>
    /\ reader \in Busy => pendingData = << >>
    /\ OneFeeder

InCb == IF cb \in Busy THEN 1 ELSE 0
InReader == IF reader \in Busy \cup {"feed"} THEN 1 ELSE 0

(* While the codec runs the received frames are, in order: those queued,    *)
(* the one in the callback's hands, the pending ones, the reader's.         *)
PlaceInv ==
    /\ FedInOrder
    /\ ~stopped =>
        /\ received = Len(queued) + InCb + Len(pendingData) + InReader
        /\ cb \in Busy => cb_frame = Len(queued) + 1
        /\ \A k \in DOMAIN pendingData : pendingData[k] = Len(queued) + InCb + k

Waits(f) ==
    \/ \E k \in DOMAIN pendingData : pendingData[k] = f
    \/ reader = "fill" /\ f = received
    \/ cb = "fill" /\ f = cb_frame

(* The map holds the right flag for every frame that has yet to take it.    *)
FlagInv ==
    /\ KeyFlagFollowsFrame
    /\ \A f \in Frames : Waits(f) => (FlagOf(f) <=> Stream[f].key)
    /\ reader = "queue" => isKey["reader"] = Stream[received].key
    /\ cb = "queue" => isKey["cb"] = Stream[cb_frame].key

(* Samples are those of frames of the stream, and the HUD used them right.  *)
SampleInv ==
    /\ SampleIsOwn
    /\ \A p \in pendingFrameSamples : \E f \in Frames : p = Stream[f].pts

(* Where a codec buffer may be, other than on offer or in a thread's hands. *)
Parked(i) == \E k \in DOMAIN parkedIndices : parkedIndices[k] = i
InCodec(i) == \E k \in decoded + 1 .. Len(queued) : queued[k].index = i

(* It is in one of the five places, and in no other.                        *)
InOnePlace(i) ==
    /\ i \in free \/ Parked(i) \/ InCodec(i) \/ reader_index = i \/ cb_index = i
    /\ i \in free => ~Parked(i) /\ ~InCodec(i) /\ reader_index # i /\ cb_index # i
    /\ Parked(i) => ~InCodec(i) /\ reader_index # i /\ cb_index # i
    /\ InCodec(i) => reader_index # i /\ cb_index # i
    /\ reader_index = i => cb_index # i

(* A thread that is not in feedBuffer holds no buffer; none is parked, and  *)
(* none queued, twice.                                                      *)
BufferInv ==
    /\ reader \in {"recv", "feed"} => reader_index = NoIndex
    /\ cb = "idle" => cb_index = NoIndex
    /\ \A j, k \in DOMAIN parkedIndices : parkedIndices[j] = parkedIndices[k] => j = k
    /\ \A j, k \in decoded + 1 .. Len(queued) : queued[j].index = queued[k].index => j = k
    /\ \A i \in Indices : InOnePlace(i)

Inv == TypeOK /\ HandsInv /\ LockInv /\ PlaceInv /\ FlagInv /\ SampleInv /\ BufferInv

-----------------------------------------------------------------------------
(* Every step keeps the types.                                              *)
LEMMA TypeNext == TypeOK /\ HandsInv /\ [Next]_vars => TypeOK'
<1> SUFFICES ASSUME TypeOK, HandsInv, [Next]_vars PROVE TypeOK'
  OBVIOUS
<1> USE StreamType DEF TypeOK, HandsInv, Busy, Threads, Input
<1>1. CASE Receive
  <2>0. received + 1 \in Frames /\ received' = received + 1
    BY <1>1 DEF Receive
  <2>1. received' \in Frames /\ Stream[received'].pts \in Nat
    BY <2>0
  <2>2. pendingFrameSamples' \subseteq Nat
    BY <1>1, <2>1 DEF Receive
  <2> QED BY <1>1, <2>1, <2>2 DEF Receive
<1>2. CASE Feed
  <2>1. Flag(received) \in Frame
    BY <1>2 DEF Feed, Flag, Frame
  <2>2. pendingKeyframeFlags' \subseteq Frame
    BY <1>2, <2>1 DEF Feed, StashFlag
  <2>3. CASE parkedIndices # << >>
    <3>1. /\ Head(parkedIndices) \in Indices
          /\ Tail(parkedIndices) \in Seq(Indices)
      BY <2>3
    <3> QED BY <1>2, <2>2, <2>3, <3>1 DEF Feed
  <2>4. CASE parkedIndices = << >>
    <3>1. Append(pendingData, received) \in Seq(Frames)
      BY <1>2 DEF Feed
    <3> QED BY <1>2, <2>2, <2>4, <3>1 DEF Feed
  <2> QED BY <2>3, <2>4
<1>3. CASE ReaderTakesFlag
  <2>1. isKey' \in [Threads -> BOOLEAN]
    BY <1>3, Zenon DEF ReaderTakesFlag, TakesFlag, FlagOf
  <2> QED BY <1>3, <2>1 DEF ReaderTakesFlag, TakesFlag
<1>4. CASE ReaderQueues
  <2>1. Stream[received].pts \div NsPerUs \in Nat
    BY <1>4 DEF ReaderQueues, NsPerUs
  <2> QED BY <1>4, <2>1 DEF ReaderQueues, QueueInputBuffer
<1>5. CASE CbTakesFlag
  <2>1. isKey' \in [Threads -> BOOLEAN]
    BY <1>5, Zenon DEF CbTakesFlag, TakesFlag, FlagOf
  <2> QED BY <1>5, <2>1 DEF CbTakesFlag, TakesFlag
<1>6. CASE CbQueues
  <2>1. Stream[cb_frame].pts \div NsPerUs \in Nat
    BY <1>6 DEF CbQueues, NsPerUs
  <2> QED BY <1>6, <2>1 DEF CbQueues, QueueInputBuffer
<1>7. CASE FeedBufferThrows
  BY <1>7 DEF FeedBufferThrows
<1>8. CASE \E i \in Indices : OnInputBufferAvailable(i)
  <2> PICK i \in Indices : OnInputBufferAvailable(i)
    BY <1>8
  <2>1. CASE pendingData # << >>
    <3>1. Head(pendingData) \in Frames /\ Tail(pendingData) \in Seq(Frames)
      BY <2>1
    <3> QED BY <2>1, <3>1 DEF OnInputBufferAvailable
  <2>2. CASE pendingData = << >>
    <3>1. Append(parkedIndices, i) \in Seq(Indices)
      OBVIOUS
    <3> QED BY <2>2, <3>1 DEF OnInputBufferAvailable
  <2> QED BY <2>1, <2>2
<1>9. CASE OnOutputBufferAvailable
  <2>1. Head(outputs) \in Frames /\ Tail(outputs) \in Seq(Frames)
    BY <1>9 DEF OnOutputBufferAvailable
  <2> DEFINE f == Head(outputs)
             pts == (Stream[f].pts \div NsPerUs) * NsPerUs
  <2>2. /\ pendingFrameSamples' = pendingFrameSamples \ {pts}
        /\ recorded' = recorded \cup
               {[frame |-> f, sample |-> p] : p \in pendingFrameSamples \cap {pts}}
        /\ missed' = missed \cup
               (IF Stream[f].pts \in pendingFrameSamples' THEN {f} ELSE {})
    BY <1>9 DEF OnOutputBufferAvailable, OnDecoderFrameDone
  <2> HIDE DEF f, pts
  <2>3. pendingFrameSamples' \subseteq Nat
    BY <2>2
  <2>4. recorded' \subseteq [frame : Frames, sample : Nat]
    BY <2>1, <2>2 DEF f
  <2>5. missed' \subseteq Frames
    BY <2>1, <2>2 DEF f
  <2> QED BY <1>9, <2>1, <2>3, <2>4, <2>5 DEF OnOutputBufferAvailable
<1>10. CASE \E shown \in BOOLEAN : Decode(shown)
  <2> PICK shown \in BOOLEAN : Decode(shown)
    BY <1>10
  <2> HIDE DEF Input
  <2>1. decoded' \in DOMAIN queued /\ Len(queued) \in Nat
    BY DEF Decode
  <2>2. queued[decoded'] \in Input
    BY <2>1
  <2>3. queued[decoded'].frame \in Frames /\ queued[decoded'].index \in Indices
    BY <2>2 DEF Input
  <2>4. free' \subseteq Indices
    BY <2>3 DEF Decode
  <2>5. Append(outputs, queued[decoded'].frame) \in Seq(Frames)
    BY <2>3
  <2>6. outputs' \in Seq(Frames)
    BY <2>5 DEF Decode
  <2> QED BY <2>1, <2>4, <2>6 DEF Decode
<1>11. CASE StopDecoder
  BY <1>11 DEF StopDecoder
<1>12. CASE Over
  BY <1>12 DEF Over
<1>13. CASE UNCHANGED vars
  BY <1>13
<1> QED BY <1>1, <1>2, <1>3, <1>4, <1>5, <1>6, <1>7, <1>8, <1>9, <1>10, <1>11, <1>12, <1>13 DEF Next

(* No thread enters feedBuffer empty-handed.                                *)
LEMMA HandsNext == TypeOK /\ HandsInv /\ [Next]_vars => HandsInv'
<1> SUFFICES ASSUME TypeOK, HandsInv, [Next]_vars PROVE HandsInv'
  OBVIOUS
<1> USE StreamType DEF TypeOK, HandsInv, Busy
<1>1. CASE Receive
  BY <1>1 DEF Receive
<1>2. CASE Feed
  BY <1>2 DEF Feed, StashFlag, Flag
<1>3. CASE ReaderTakesFlag
  BY <1>3 DEF ReaderTakesFlag, TakesFlag
<1>4. CASE ReaderQueues
  BY <1>4 DEF ReaderQueues, QueueInputBuffer
<1>5. CASE CbTakesFlag
  BY <1>5 DEF CbTakesFlag, TakesFlag
<1>6. CASE CbQueues
  BY <1>6 DEF CbQueues, QueueInputBuffer
<1>7. CASE FeedBufferThrows
  BY <1>7 DEF FeedBufferThrows
<1>8. CASE \E i \in Indices : OnInputBufferAvailable(i)
  BY <1>8 DEF OnInputBufferAvailable
<1>9. CASE OnOutputBufferAvailable
  BY <1>9 DEF OnOutputBufferAvailable, OnDecoderFrameDone
<1>10. CASE \E shown \in BOOLEAN : Decode(shown)
  BY <1>10 DEF Decode
<1>11. CASE StopDecoder
  BY <1>11 DEF StopDecoder
<1>12. CASE Over
  BY <1>12 DEF Over
<1>13. CASE UNCHANGED vars
  BY <1>13
<1> QED BY <1>1, <1>2, <1>3, <1>4, <1>5, <1>6, <1>7, <1>8, <1>9, <1>10, <1>11, <1>12, <1>13 DEF Next

(* The lock's promise survives its release.                                 *)
LEMMA LockNext == TypeOK /\ LockInv /\ [Next]_vars => LockInv'
<1> SUFFICES ASSUME TypeOK, LockInv, [Next]_vars PROVE LockInv'
  OBVIOUS
<1> USE DEF TypeOK, LockInv, OneFeeder, Busy
<1>1. CASE Receive
  BY <1>1 DEF Receive
<1>2. CASE Feed
  BY <1>2 DEF Feed, StashFlag, Flag
<1>3. CASE ReaderTakesFlag
  BY <1>3 DEF ReaderTakesFlag, TakesFlag
<1>4. CASE ReaderQueues
  BY <1>4 DEF ReaderQueues, QueueInputBuffer
<1>5. CASE CbTakesFlag
  BY <1>5 DEF CbTakesFlag, TakesFlag
<1>6. CASE CbQueues
  BY <1>6 DEF CbQueues, QueueInputBuffer
<1>7. CASE FeedBufferThrows
  BY <1>7 DEF FeedBufferThrows
<1>8. CASE \E i \in Indices : OnInputBufferAvailable(i)
  BY <1>8 DEF OnInputBufferAvailable
<1>9. CASE OnOutputBufferAvailable
  BY <1>9 DEF OnOutputBufferAvailable, OnDecoderFrameDone
<1>10. CASE \E shown \in BOOLEAN : Decode(shown)
  BY <1>10 DEF Decode
<1>11. CASE StopDecoder
  BY <1>11 DEF StopDecoder
<1>12. CASE Over
  BY <1>12 DEF Over
<1>13. CASE UNCHANGED vars
  BY <1>13
<1> QED BY <1>1, <1>2, <1>3, <1>4, <1>5, <1>6, <1>7, <1>8, <1>9, <1>10, <1>11, <1>12, <1>13 DEF Next

(* Every frame stays in its place in the order.                             *)
LEMMA PlaceNext == TypeOK /\ HandsInv /\ LockInv /\ PlaceInv /\ [Next]_vars => PlaceInv'
<1> SUFFICES ASSUME TypeOK, HandsInv, LockInv, PlaceInv, [Next]_vars PROVE PlaceInv'
  OBVIOUS
<1> USE DEF LockInv, OneFeeder, PlaceInv, FedInOrder, InCb, InReader, Busy
<1>t. /\ received \in Nat /\ Len(queued) \in Nat /\ Len(pendingData) \in Nat
      /\ pendingData \in Seq(Frames) /\ queued \in Seq(Input)
  BY StreamType DEF TypeOK
<1>1. CASE Receive
  <2>1. reader = "recv" /\ reader' = "feed" /\ received' = received + 1
    BY <1>1 DEF Receive
  <2>2. UNCHANGED << queued, cb, cb_frame, pendingData, stopped >>
    BY <1>1 DEF Receive
  <2>3. InCb' = InCb /\ InCb \in Nat /\ InReader' = 1 /\ InReader = 0
    BY <2>1, <2>2
  <2> HIDE DEF InCb, InReader
  <2> QED BY <1>t, <2>1, <2>2, <2>3
<1>2. CASE Feed
  <2>1. /\ reader = "feed" /\ UNCHANGED << received, queued, cb, cb_frame, stopped >>
    BY <1>2 DEF Feed
  <2>2. CASE parkedIndices # << >>
    <3>1. reader' = "fill" /\ pendingData' = pendingData
      BY <1>2, <2>2 DEF Feed
    <3> QED BY <1>t, <2>1, <3>1
  <2>3. CASE parkedIndices = << >>
    <3>1. reader' = "recv" /\ pendingData' = Append(pendingData, received)
      BY <1>2, <2>3 DEF Feed
    <3>2. /\ Len(pendingData') = Len(pendingData) + 1
          /\ \A k \in 1 .. Len(pendingData) : pendingData'[k] = pendingData[k]
          /\ pendingData'[Len(pendingData) + 1] = received
          /\ DOMAIN pendingData' = 1 .. Len(pendingData) + 1
      BY <1>t, <2>1, <3>1, StreamType DEF HandsInv
    <3>3. DOMAIN pendingData = 1 .. Len(pendingData)
      BY <1>t
    <3>4. InCb' = InCb /\ InCb \in Nat /\ InReader' = 0 /\ InReader = 1
      BY <2>1, <3>1
    <3> HIDE DEF InCb, InReader
    <3>5. ASSUME ~stopped, NEW k \in DOMAIN pendingData'
          PROVE  pendingData'[k] = Len(queued) + InCb + k
      <4>1. CASE k = Len(pendingData) + 1
        BY <1>t, <3>2, <3>4, <3>5, <4>1
      <4>2. CASE k \in 1 .. Len(pendingData)
        BY <1>t, <3>2, <3>3, <3>5, <4>2
      <4> QED BY <1>t, <3>2, <4>1, <4>2
    <3> QED BY <1>t, <2>1, <3>1, <3>2, <3>4, <3>5
  <2> QED BY <2>2, <2>3
<1>3. CASE ReaderTakesFlag
  BY <1>t, <1>3 DEF ReaderTakesFlag, TakesFlag
<1>4. CASE ReaderQueues
  BY <1>t, <1>4 DEF ReaderQueues, QueueInputBuffer
<1>5. CASE CbTakesFlag
  BY <1>t, <1>5 DEF CbTakesFlag, TakesFlag
<1>6. CASE CbQueues
  BY <1>t, <1>6 DEF CbQueues, QueueInputBuffer
<1>7. CASE FeedBufferThrows
  BY <1>t, <1>7 DEF FeedBufferThrows
<1>8. CASE \E i \in Indices : OnInputBufferAvailable(i)
  <2> PICK i \in Indices : OnInputBufferAvailable(i)
    BY <1>8
  <2>1. cb = "idle" /\ UNCHANGED << received, reader, queued, stopped >>
    BY DEF OnInputBufferAvailable
  <2>2. CASE pendingData # << >>
    <3>1. /\ cb' = "fill" /\ cb_frame' = Head(pendingData)
          /\ pendingData' = Tail(pendingData)
      BY <2>2 DEF OnInputBufferAvailable
    <3>2. /\ Len(pendingData) \in Nat \ {0} /\ Len(queued) \in Nat
          /\ DOMAIN pendingData = 1 .. Len(pendingData)
          /\ Head(pendingData) = pendingData[1]
      BY <1>t, <2>2
    <3>3. /\ Len(pendingData') = Len(pendingData) - 1
          /\ DOMAIN pendingData' = 1 .. Len(pendingData) - 1
          /\ \A k \in 1 .. Len(pendingData) - 1 : pendingData'[k] = pendingData[k + 1]
      BY <1>t, <2>2, <3>1
    <3>4. InCb' = 1 /\ InCb = 0 /\ InReader' = InReader /\ InReader \in Nat
      BY <2>1, <3>1
    <3> HIDE DEF InCb, InReader
    <3>5. ASSUME ~stopped, NEW k \in DOMAIN pendingData'
          PROVE  pendingData'[k] = Len(queued) + 1 + k
      <4>1. k \in Nat /\ k + 1 \in DOMAIN pendingData /\ k \in 1 .. Len(pendingData) - 1
        BY <3>2, <3>3
      <4> QED BY <1>t, <3>3, <3>4, <3>5, <4>1
    <3>6. ASSUME ~stopped
          PROVE  cb_frame' = Len(queued) + 1
      <4>1. 1 \in DOMAIN pendingData
        BY <3>2
      <4>2. pendingData[1] = Len(queued) + InCb + 1
        BY <3>6, <4>1
      <4>3. cb_frame' = pendingData[1]
        BY <3>1, <3>2, Zenon
      <4>4. InCb = 0 /\ Len(queued) \in Nat
        BY <1>t, <3>4
      <4> HIDE DEF PlaceInv, LockInv, FedInOrder, OneFeeder
      <4> QED BY <4>2, <4>3, <4>4
    <3>7. ~stopped => received = Len(queued) + 1 + Len(pendingData') + InReader
      BY <1>t, <3>2, <3>3, <3>4
    <3> QED BY <2>1, <3>1, <3>4, <3>5, <3>6, <3>7
  <2>3. CASE pendingData = << >>
    <3>1. UNCHANGED << cb, cb_frame, pendingData >>
      BY <2>3 DEF OnInputBufferAvailable
    <3> QED BY <2>1, <3>1
  <2> QED BY <2>2, <2>3
<1>9. CASE OnOutputBufferAvailable
  BY <1>t, <1>9 DEF OnOutputBufferAvailable, OnDecoderFrameDone
<1>10. CASE \E shown \in BOOLEAN : Decode(shown)
  BY <1>t, <1>10 DEF Decode
<1>11. CASE StopDecoder
  BY <1>t, <1>11 DEF StopDecoder
<1>12. CASE Over
  BY <1>t, <1>12 DEF Over
<1>13. CASE UNCHANGED vars
  BY <1>13
<1> QED BY <1>1, <1>2, <1>3, <1>4, <1>5, <1>6, <1>7, <1>8, <1>9, <1>10, <1>11, <1>12, <1>13 DEF Next

(* Every frame keeps its flag.                                              *)
LEMMA FlagNext == TypeOK /\ HandsInv /\ LockInv /\ PlaceInv /\ FlagInv /\ [Next]_vars => FlagInv'
<1> SUFFICES ASSUME TypeOK, HandsInv, LockInv, PlaceInv, FlagInv, [Next]_vars PROVE FlagInv'
  OBVIOUS
<1> USE StreamType
    DEF TypeOK, HandsInv, FlagInv, KeyFlagFollowsFrame, FlagOf, Waits, Busy, Threads
<1>1. CASE Receive
  BY <1>1 DEF Receive
<1>2. CASE Feed
  <2>1. /\ received \in Frames /\ reader = "feed"
        /\ UNCHANGED << received, cb, cb_frame, isKey, queued >>
    BY <1>2 DEF Feed
  <2>2. FlagOf(received)' <=> Stream[received].key
    <3> DEFINE F == Flag(received)
    <3>1. F.pts = Stream[received].pts /\ F.key = Stream[received].key
      BY DEF Flag
    <3>2. pendingKeyframeFlags' =
              {e \in pendingKeyframeFlags : e.pts # Stream[received].pts} \cup {F}
      BY <1>2 DEF Feed, StashFlag
    <3>3. FlagOf(received)' <=> \E e \in pendingKeyframeFlags' :
                                   e.pts = Stream[received].pts /\ e.key
      BY <2>1
    <3> HIDE DEF F, FlagOf
    <3>4. \A e \in pendingKeyframeFlags' : e.pts = Stream[received].pts => e = F
      BY <3>2
    <3>5. F \in pendingKeyframeFlags'
      BY <3>2
    <3> QED BY <3>1, <3>3, <3>4, <3>5
  <2>3. ASSUME NEW f \in Frames, f # received
        PROVE  FlagOf(f)' <=> FlagOf(f)
    <3>1. Stream[f].pts # Stream[received].pts
      BY <2>1, <2>3, PtsDistinct
    <3> DEFINE F == Flag(received)
    <3>2. F.pts = Stream[received].pts
      BY DEF Flag
    <3>3. pendingKeyframeFlags' =
              {e \in pendingKeyframeFlags : e.pts # Stream[received].pts} \cup {F}
      BY <1>2 DEF Feed, StashFlag
    <3> HIDE DEF F
    <3> QED BY <3>1, <3>2, <3>3
  <2>4. ASSUME NEW f \in Frames, Waits(f)', f # received
        PROVE  Waits(f)
    <3>1. CASE parkedIndices # << >>
      <4>1. pendingData' = pendingData
        BY <1>2, <3>1 DEF Feed
      <4> QED BY <2>1, <2>4, <4>1
    <3>2. CASE parkedIndices = << >>
      <4>1. pendingData' = Append(pendingData, received) /\ reader' = "recv"
        BY <1>2, <3>2 DEF Feed
      <4>2. /\ pendingData \in Seq(Frames)
            /\ \A k \in DOMAIN pendingData' :
                  \/ k \in DOMAIN pendingData /\ pendingData'[k] = pendingData[k]
                  \/ pendingData'[k] = received
        BY <2>1, <4>1
      <4> QED BY <2>1, <2>4, <4>1, <4>2
    <3> QED BY <3>1, <3>2
  <2>5. reader' # "queue"
    BY <1>2 DEF Feed
  <2> HIDE DEF FlagOf, Waits
  <2>6. \A f \in Frames : Waits(f)' => (FlagOf(f)' <=> Stream[f].key)
    BY <2>1, <2>2, <2>3, <2>4
  <2> QED BY <2>1, <2>5, <2>6
<1>3. CASE ReaderTakesFlag
  <2>1. /\ received \in Frames /\ reader = "fill" /\ reader' = "queue" /\ ~stopped
        /\ TakesFlag("reader", received)
        /\ UNCHANGED << received, cb_frame, queued, pendingData, cb >>
    BY <1>3 DEF ReaderTakesFlag
  <2>2. isKey'["reader"] = Stream[received].key
    <3>1. isKey'["reader"] = FlagOf(received)
      BY <2>1 DEF TakesFlag
    <3>2. FlagOf(received) <=> Stream[received].key
      BY <2>1
    <3> QED BY <2>1, <3>1, <3>2
  <2>3. ASSUME NEW g \in Frames, Waits(g)'
        PROVE  Waits(g) /\ g # received
    BY <2>1, <2>3 DEF LockInv, OneFeeder, PlaceInv, InCb, InReader
  <2>4. ASSUME NEW g \in Frames, g # received
        PROVE  FlagOf(g)' <=> FlagOf(g)
    <3>1. Stream[g].pts # Stream[received].pts
      BY <2>1, <2>4, PtsDistinct
    <3> QED BY <2>1, <3>1 DEF TakesFlag
  <2>5. cb # "queue"
    BY <2>1 DEF LockInv, OneFeeder
  <2> HIDE DEF FlagOf, Waits
  <2>6. \A g \in Frames : Waits(g)' => (FlagOf(g)' <=> Stream[g].key)
    BY <2>3, <2>4
  <2> QED BY <2>1, <2>2, <2>5, <2>6
<1>4. CASE ReaderQueues
  BY <1>4 DEF ReaderQueues, QueueInputBuffer
<1>5. CASE CbTakesFlag
  <2>1. /\ cb_frame \in Frames /\ cb = "fill" /\ cb' = "queue" /\ ~stopped
        /\ TakesFlag("cb", cb_frame)
        /\ UNCHANGED << received, cb_frame, queued, pendingData, reader >>
    BY <1>5 DEF CbTakesFlag
  <2>2. isKey'["cb"] = Stream[cb_frame].key
    <3>1. isKey'["cb"] = FlagOf(cb_frame)
      BY <2>1 DEF TakesFlag
    <3>2. FlagOf(cb_frame) <=> Stream[cb_frame].key
      BY <2>1
    <3> QED BY <2>1, <3>1, <3>2
  <2>3. ASSUME NEW g \in Frames, Waits(g)'
        PROVE  Waits(g) /\ g # cb_frame
    BY <2>1, <2>3 DEF LockInv, OneFeeder, PlaceInv, InCb, InReader
  <2>4. ASSUME NEW g \in Frames, g # cb_frame
        PROVE  FlagOf(g)' <=> FlagOf(g)
    <3>1. Stream[g].pts # Stream[cb_frame].pts
      BY <2>1, <2>4, PtsDistinct
    <3> QED BY <2>1, <3>1 DEF TakesFlag
  <2>5. reader # "queue"
    BY <2>1 DEF LockInv, OneFeeder
  <2> HIDE DEF FlagOf, Waits
  <2>6. \A g \in Frames : Waits(g)' => (FlagOf(g)' <=> Stream[g].key)
    BY <2>3, <2>4
  <2> QED BY <2>1, <2>2, <2>5, <2>6
<1>6. CASE CbQueues
  BY <1>6 DEF CbQueues, QueueInputBuffer
<1>7. CASE FeedBufferThrows
  BY <1>7 DEF FeedBufferThrows
<1>8. CASE \E i \in Indices : OnInputBufferAvailable(i)
  <2> PICK i \in Indices : OnInputBufferAvailable(i)
    BY <1>8
  <2>1. /\ UNCHANGED << received, reader, isKey, queued, pendingKeyframeFlags >>
        /\ cb = "idle" /\ cb' # "queue"
    BY DEF OnInputBufferAvailable
  <2>2. ASSUME NEW f \in Frames, Waits(f)'
        PROVE  Waits(f)
    <3>1. CASE pendingData # << >>
      <4>1. /\ cb' = "fill" /\ cb_frame' = Head(pendingData)
            /\ pendingData' = Tail(pendingData)
        BY <3>1 DEF OnInputBufferAvailable
      <4>2. /\ 1 \in DOMAIN pendingData /\ Head(pendingData) = pendingData[1]
            /\ \A k \in DOMAIN Tail(pendingData) :
                  k + 1 \in DOMAIN pendingData /\ Tail(pendingData)[k] = pendingData[k + 1]
        BY <3>1
      <4> QED BY <2>1, <2>2, <4>1, <4>2
    <3>2. CASE pendingData = << >>
      BY <2>1, <2>2, <3>2 DEF OnInputBufferAvailable
    <3> QED BY <3>1, <3>2
  <2>3. \A f \in Frames : FlagOf(f)' <=> FlagOf(f)
    BY <2>1
  <2> HIDE DEF FlagOf, Waits
  <2> QED BY <2>1, <2>2, <2>3
<1>9. CASE OnOutputBufferAvailable
  BY <1>9 DEF OnOutputBufferAvailable, OnDecoderFrameDone
<1>10. CASE \E shown \in BOOLEAN : Decode(shown)
  BY <1>10 DEF Decode
<1>11. CASE StopDecoder
  BY <1>11 DEF StopDecoder
<1>12. CASE Over
  BY <1>12 DEF Over
<1>13. CASE UNCHANGED vars
  BY <1>13
<1> QED BY <1>1, <1>2, <1>3, <1>4, <1>5, <1>6, <1>7, <1>8, <1>9, <1>10, <1>11, <1>12, <1>13 DEF Next

(* Samples stay with their frames.                                          *)
LEMMA SampleNext == TypeOK /\ HandsInv /\ SampleInv /\ [Next]_vars => SampleInv'
<1> SUFFICES ASSUME TypeOK, HandsInv, SampleInv, [Next]_vars PROVE SampleInv'
  OBVIOUS
<1> USE StreamType DEF TypeOK, SampleInv, SampleIsOwn
<1>1. CASE Receive
  <2>1. received + 1 \in Frames /\ received' = received + 1
    BY <1>1 DEF Receive
  <2>2. \A p \in pendingFrameSamples' :
            p \in pendingFrameSamples \/ p = Stream[received + 1].pts
    BY <1>1, <2>1 DEF Receive
  <2>3. recorded' = recorded
    BY <1>1 DEF Receive
  <2> QED BY <2>1, <2>2, <2>3
<1>2. CASE Feed
  BY <1>2 DEF Feed, StashFlag, Flag
<1>3. CASE ReaderTakesFlag
  BY <1>3 DEF ReaderTakesFlag, TakesFlag
<1>4. CASE ReaderQueues
  BY <1>4 DEF ReaderQueues, QueueInputBuffer
<1>5. CASE CbTakesFlag
  BY <1>5 DEF CbTakesFlag, TakesFlag
<1>6. CASE CbQueues
  BY <1>6 DEF CbQueues, QueueInputBuffer
<1>7. CASE FeedBufferThrows
  BY <1>7 DEF FeedBufferThrows
<1>8. CASE \E i \in Indices : OnInputBufferAvailable(i)
  BY <1>8 DEF OnInputBufferAvailable
<1>9. CASE OnOutputBufferAvailable
  <2> DEFINE f == Head(outputs)
             pts == (Stream[f].pts \div NsPerUs) * NsPerUs
  <2>1. f \in Frames
    BY <1>9 DEF OnOutputBufferAvailable
  <2>2. /\ pendingFrameSamples' = pendingFrameSamples \ {pts}
        /\ recorded' = recorded \cup
               {[frame |-> f, sample |-> p] : p \in pendingFrameSamples \cap {pts}}
    BY <1>9 DEF OnOutputBufferAvailable, OnDecoderFrameDone
  <2>3. pts \in pendingFrameSamples => pts = Stream[f].pts
    <3>1. pts \in pendingFrameSamples => \E g \in Frames : pts = Stream[g].pts
      BY Zenon DEF SampleInv
    <3>2. ASSUME NEW g \in Frames, pts = Stream[g].pts
          PROVE  f = g
      BY <2>1, <3>2, TruncationInjective
    <3> HIDE DEF f, pts
    <3> QED BY <3>1, <3>2
  <2> HIDE DEF f, pts
  <2>4. ASSUME NEW r \in recorded'
        PROVE  r.sample = Stream[r.frame].pts
    <3>1. CASE r \in recorded
      BY <3>1
    <3>2. CASE r \notin recorded
      <4>1. pts \in pendingFrameSamples /\ r = [frame |-> f, sample |-> pts]
        BY <2>2, <2>4, <3>2
      <4> QED BY <2>3, <4>1
    <3> QED BY <3>1, <3>2
  <2>5. \A p \in pendingFrameSamples' : p \in pendingFrameSamples
    BY <2>2
  <2> QED BY <2>4, <2>5
<1>10. CASE \E shown \in BOOLEAN : Decode(shown)
  BY <1>10 DEF Decode
<1>11. CASE StopDecoder
  BY <1>11 DEF StopDecoder
<1>12. CASE Over
  BY <1>12 DEF Over
<1>13. CASE UNCHANGED vars
  BY <1>13
<1> QED BY <1>1, <1>2, <1>3, <1>4, <1>5, <1>6, <1>7, <1>8, <1>9, <1>10, <1>11, <1>12, <1>13 DEF Next

(* A buffer stays in one place, or moves to one other.                      *)
LEMMA BufferNext == TypeOK /\ HandsInv /\ BufferInv /\ [Next]_vars => BufferInv'
<1> SUFFICES ASSUME TypeOK, HandsInv, BufferInv, [Next]_vars PROVE BufferInv'
  OBVIOUS
<1>t. /\ parkedIndices \in Seq(Indices) /\ queued \in Seq(Input)
      /\ decoded \in Nat /\ Len(queued) \in Nat /\ decoded <= Len(queued)
      /\ reader_index \in Indices \cup {NoIndex} /\ cb_index \in Indices \cup {NoIndex}
      /\ NoIndex \notin Indices
  BY StreamAssumption DEF TypeOK
<1>q. \A k \in 1 .. Len(queued) : queued[k].index \in Indices
  <2>1. \A k \in 1 .. Len(queued) : queued[k] \in Input
    BY <1>t
  <2> QED BY <2>1 DEF Input
<1>1. ASSUME UNCHANGED << reader_index, cb_index, parkedIndices, free, queued, decoded >>,
             reader' \in {"recv", "feed"} => reader \in {"recv", "feed"},
             cb' = "idle" => cb = "idle"
      PROVE  BufferInv'
  BY <1>1 DEF BufferInv, InOnePlace, Parked, InCodec
<1>2. CASE Receive
  BY <1>1, <1>2 DEF Receive
<1>3. CASE ReaderTakesFlag \/ CbTakesFlag \/ FeedBufferThrows
  BY <1>1, <1>3 DEF ReaderTakesFlag, CbTakesFlag, FeedBufferThrows, TakesFlag
<1>4. CASE OnOutputBufferAvailable \/ StopDecoder \/ Over \/ UNCHANGED vars
  BY <1>1, <1>4 DEF OnOutputBufferAvailable, StopDecoder, Over
<1>5. CASE Feed
  <2>1. UNCHANGED << cb, cb_index, free, queued, decoded >> /\ reader = "feed"
    BY <1>5 DEF Feed
  <2>2. CASE parkedIndices = << >>
    BY <1>1, <1>5, <2>1, <2>2 DEF Feed
  <2>3. CASE parkedIndices # << >>
    <3> DEFINE b == Head(parkedIndices)
    <3>1. reader' = "fill" /\ reader_index' = b /\ parkedIndices' = Tail(parkedIndices)
      BY <1>5, <2>3 DEF Feed
    <3>2. /\ b = parkedIndices[1] /\ 1 \in DOMAIN parkedIndices
          /\ \A k \in DOMAIN parkedIndices' :
                /\ k \in Nat \ {0} /\ k + 1 \in DOMAIN parkedIndices
                /\ parkedIndices'[k] = parkedIndices[k + 1]
          /\ \A k \in DOMAIN parkedIndices :
                k \in Nat /\ (k # 1 => k - 1 \in DOMAIN parkedIndices')
      BY <1>t, <2>3, <3>1
    <3>3. b \in Indices
      BY <1>t, <2>3
    <3> HIDE DEF b
    <3>4. \A j, k \in DOMAIN parkedIndices' : parkedIndices'[j] = parkedIndices'[k] => j = k
      BY <3>2 DEF BufferInv
    <3>5. \A i \in Indices : Parked(i)' <=> Parked(i) /\ i # b
      <4> SUFFICES ASSUME NEW i \in Indices PROVE Parked(i)' <=> Parked(i) /\ i # b
        OBVIOUS
      <4>1. ASSUME Parked(i)' PROVE Parked(i) /\ i # b
        <5>1. PICK k \in DOMAIN parkedIndices' : parkedIndices'[k] = i
          BY <4>1 DEF Parked
        <5>2. k + 1 # 1 /\ k + 1 \in DOMAIN parkedIndices /\ parkedIndices[k + 1] = i
          BY <3>2, <5>1
        <5> QED BY <3>2, <5>2 DEF Parked, BufferInv
      <4>2. ASSUME Parked(i), i # b PROVE Parked(i)'
        <5>1. PICK k \in DOMAIN parkedIndices : parkedIndices[k] = i
          BY <4>2 DEF Parked
        <5>2. k # 1
          BY <3>2, <4>2, <5>1
        <5>3. k - 1 \in DOMAIN parkedIndices' /\ (k - 1) + 1 = k
          BY <3>2, <5>2
        <5>4. parkedIndices'[k - 1] = i
          BY <3>2, <5>1, <5>3
        <5> QED BY <5>3, <5>4 DEF Parked
      <4> QED BY <4>1, <4>2
    <3>6. Parked(b)
      BY <3>2 DEF Parked
    <3>7. \A i \in Indices : InCodec(i)' <=> InCodec(i)
      BY <2>1 DEF InCodec
    <3>8. reader_index = NoIndex /\ \A i \in Indices : InOnePlace(i)
      BY <2>1 DEF BufferInv
    <3>9. \A i \in Indices : InOnePlace(i)'
      BY <1>t, <2>1, <3>1, <3>3, <3>5, <3>6, <3>7, <3>8 DEF InOnePlace
    <3> QED BY <2>1, <3>1, <3>4, <3>9 DEF BufferInv
  <2> QED BY <2>2, <2>3
<1>6. CASE ReaderQueues
  <2>1. /\ UNCHANGED << cb, cb_index, free, decoded, parkedIndices >>
        /\ reader' = "recv" /\ reader_index' = NoIndex
        /\ reader_index \in Indices
        /\ queued' = Append(queued, [frame |-> received, index |-> reader_index,
               us |-> Stream[received].pts \div NsPerUs, key |-> isKey["reader"]])
    BY <1>6 DEF ReaderQueues, QueueInputBuffer, HandsInv, Busy
  <2>2. /\ Len(queued') = Len(queued) + 1
        /\ \A k \in 1 .. Len(queued) : queued'[k].index = queued[k].index
        /\ queued'[Len(queued) + 1].index = reader_index
    BY <1>t, <2>1
  <2>3. \A i \in Indices : InCodec(i)' <=> InCodec(i) \/ i = reader_index
    BY <1>t, <2>1, <2>2 DEF InCodec
  <2>4. ~InCodec(reader_index) /\ \A i \in Indices : InOnePlace(i)
    BY <2>1 DEF BufferInv, InOnePlace
  <2>5. \A j, k \in decoded' + 1 .. Len(queued') : queued'[j].index = queued'[k].index => j = k
    BY <1>t, <2>1, <2>2, <2>4 DEF BufferInv, InCodec
  <2>6. \A i \in Indices : Parked(i)' <=> Parked(i)
    BY <2>1 DEF Parked
  <2>7. \A i \in Indices : InOnePlace(i)'
    BY <1>t, <2>1, <2>3, <2>4, <2>6 DEF InOnePlace
  <2> QED BY <2>1, <2>5, <2>7 DEF BufferInv
<1>7. CASE CbQueues
  <2>1. /\ UNCHANGED << reader, reader_index, free, decoded, parkedIndices >>
        /\ cb' = "idle" /\ cb_index' = NoIndex
        /\ cb_index \in Indices
        /\ queued' = Append(queued, [frame |-> cb_frame, index |-> cb_index,
               us |-> Stream[cb_frame].pts \div NsPerUs, key |-> isKey["cb"]])
    BY <1>7 DEF CbQueues, QueueInputBuffer, HandsInv, Busy
  <2>2. /\ Len(queued') = Len(queued) + 1
        /\ \A k \in 1 .. Len(queued) : queued'[k].index = queued[k].index
        /\ queued'[Len(queued) + 1].index = cb_index
    BY <1>t, <2>1
  <2>3. \A i \in Indices : InCodec(i)' <=> InCodec(i) \/ i = cb_index
    BY <1>t, <2>1, <2>2 DEF InCodec
  <2>4. ~InCodec(cb_index) /\ \A i \in Indices : InOnePlace(i)
    BY <2>1 DEF BufferInv, InOnePlace
  <2>5. \A j, k \in decoded' + 1 .. Len(queued') : queued'[j].index = queued'[k].index => j = k
    BY <1>t, <2>1, <2>2, <2>4 DEF BufferInv, InCodec
  <2>6. \A i \in Indices : Parked(i)' <=> Parked(i)
    BY <2>1 DEF Parked
  <2>7. \A i \in Indices : InOnePlace(i)'
    BY <1>t, <2>1, <2>3, <2>4, <2>6 DEF InOnePlace
  <2> QED BY <2>1, <2>5, <2>7 DEF BufferInv
<1>8. CASE \E b \in Indices : OnInputBufferAvailable(b)
  <2> PICK b \in Indices : OnInputBufferAvailable(b)
    BY <1>8
  <2>1. /\ cb = "idle" /\ b \in free /\ free' = free \ {b}
        /\ UNCHANGED << reader, reader_index, queued, decoded >>
    BY DEF OnInputBufferAvailable
  <2>2. cb_index = NoIndex /\ (\A i \in Indices : InOnePlace(i)) /\ ~Parked(b)
    BY <2>1 DEF BufferInv, InOnePlace
  <2>3. \A i \in Indices : InCodec(i)' <=> InCodec(i)
    BY <2>1 DEF InCodec
  <2>4. CASE pendingData # << >>
    <3>1. cb' = "fill" /\ cb_index' = b /\ parkedIndices' = parkedIndices
      BY <2>4 DEF OnInputBufferAvailable
    <3>2. \A i \in Indices : Parked(i)' <=> Parked(i)
      BY <3>1 DEF Parked
    <3>3. \A i \in Indices : InOnePlace(i)'
      BY <1>t, <2>1, <2>2, <2>3, <3>1, <3>2 DEF InOnePlace
    <3> QED BY <2>1, <3>1, <3>3 DEF BufferInv
  <2>5. CASE pendingData = << >>
    <3>1. UNCHANGED << cb, cb_index >> /\ parkedIndices' = Append(parkedIndices, b)
      BY <2>5 DEF OnInputBufferAvailable
    <3>2. /\ DOMAIN parkedIndices = 1 .. Len(parkedIndices) /\ Len(parkedIndices) \in Nat
          /\ DOMAIN parkedIndices' = 1 .. Len(parkedIndices) + 1
          /\ \A k \in 1 .. Len(parkedIndices) : parkedIndices'[k] = parkedIndices[k]
          /\ parkedIndices'[Len(parkedIndices) + 1] = b
      BY <1>t, <3>1
    <3>3. \A i \in Indices : Parked(i)' <=> Parked(i) \/ i = b
      BY <3>2 DEF Parked
    <3>4. \A j, k \in DOMAIN parkedIndices' : parkedIndices'[j] = parkedIndices'[k] => j = k
      BY <2>2, <3>2 DEF BufferInv, Parked
    <3>5. \A i \in Indices : InOnePlace(i)'
      BY <1>t, <2>1, <2>2, <2>3, <3>1, <3>3 DEF InOnePlace
    <3> QED BY <2>1, <3>1, <3>4, <3>5 DEF BufferInv
  <2> QED BY <2>4, <2>5
<1>9. CASE \E shown \in BOOLEAN : Decode(shown)
  <2> PICK shown \in BOOLEAN : Decode(shown)
    BY <1>9
  <2> DEFINE b == queued[decoded + 1].index
  <2>1. /\ decoded < Len(queued) /\ decoded' = decoded + 1 /\ free' = free \cup {b}
        /\ UNCHANGED << reader, reader_index, cb, cb_index, parkedIndices, queued >>
    BY DEF Decode
  <2>2. b \in Indices
    BY <1>t, <1>q, <2>1
  <2>3. /\ InCodec(b)
        /\ \A i \in Indices : InCodec(i)' <=> InCodec(i) /\ i # b
    BY <1>t, <2>1 DEF InCodec, BufferInv
  <2> HIDE DEF b
  <2>4. \A i \in Indices : Parked(i)' <=> Parked(i)
    BY <2>1 DEF Parked
  <2>5. \A j, k \in decoded' + 1 .. Len(queued') : queued'[j].index = queued'[k].index => j = k
    BY <1>t, <2>1 DEF BufferInv
  <2>6. \A i \in Indices : InOnePlace(i)
    BY DEF BufferInv
  <2>7. \A i \in Indices : InOnePlace(i)'
    BY <1>t, <2>1, <2>2, <2>3, <2>4, <2>6 DEF InOnePlace
  <2> QED BY <2>1, <2>5, <2>7 DEF BufferInv
<1> QED BY <1>2, <1>3, <1>4, <1>5, <1>6, <1>7, <1>8, <1>9 DEF Next

(* A set that can only hold one element has one or none.                    *)
LEMMA CardinalityOfOne ==
    ASSUME NEW S, \A x, y \in S : x = y
    PROVE  Cardinality(S) = IF S = {} THEN 0 ELSE 1
<1>1. CASE S = {}
  BY <1>1, FS_EmptySet
<1>2. CASE S # {}
  <2>1. PICK x : x \in S
    BY <1>2
  <2>2. S = {x}
    BY <2>1
  <2> QED BY <1>2, <2>2, FS_Singleton
<1> QED BY <1>1, <1>2

(* Counted over the five places, every buffer is there once.                *)
LEMMA OnceInBufferInv == TypeOK /\ BufferInv => BuffersConserved
<1> SUFFICES ASSUME TypeOK, BufferInv, NEW i \in Indices
             PROVE  Cardinality({k \in DOMAIN parkedIndices : parkedIndices[k] = i})
                    + Cardinality({k \in decoded + 1 .. Len(queued) : queued[k].index = i})
                    + Cardinality({p \in {"free"} : i \in free})
                    + Cardinality({p \in {"reader"} : reader_index = i})
                    + Cardinality({p \in {"cb"} : cb_index = i}) = 1
  BY DEF BuffersConserved
<1> DEFINE P == {k \in DOMAIN parkedIndices : parkedIndices[k] = i}
           Q == {k \in decoded + 1 .. Len(queued) : queued[k].index = i}
           F == {p \in {"free"} : i \in free}
           R == {p \in {"reader"} : reader_index = i}
           C == {p \in {"cb"} : cb_index = i}
<1>1. /\ P = {} <=> ~Parked(i)
      /\ Q = {} <=> ~InCodec(i)
      /\ F = {} <=> i \notin free
      /\ R = {} <=> reader_index # i
      /\ C = {} <=> cb_index # i
  BY DEF Parked, InCodec
<1>2. /\ \A x, y \in P : x = y
      /\ \A x, y \in Q : x = y
      /\ \A x, y \in F : x = y
      /\ \A x, y \in R : x = y
      /\ \A x, y \in C : x = y
  BY DEF BufferInv
<1>3. InOnePlace(i)
  BY DEF BufferInv
<1> HIDE DEF P, Q, F, R, C
<1>4. /\ Cardinality(P) = IF P = {} THEN 0 ELSE 1
      /\ Cardinality(Q) = IF Q = {} THEN 0 ELSE 1
      /\ Cardinality(F) = IF F = {} THEN 0 ELSE 1
      /\ Cardinality(R) = IF R = {} THEN 0 ELSE 1
      /\ Cardinality(C) = IF C = {} THEN 0 ELSE 1
  BY <1>2, CardinalityOfOne
<1>5. Cardinality(P) + Cardinality(Q) + Cardinality(F) + Cardinality(R) + Cardinality(C) = 1
  BY <1>1, <1>3, <1>4 DEF InOnePlace
<1> QED BY <1>5 DEF P, Q, F, R, C

-----------------------------------------------------------------------------
(* The decoder starts with Inv.                                             *)
LEMMA InvInit == Init => Inv
<1> SUFFICES ASSUME Init PROVE Inv
  OBVIOUS
<1>1. TypeOK
  <2>1. isKey \in [Threads -> BOOLEAN] /\ stopped \in BOOLEAN
    BY Zenon DEF Init
  <2>2. /\ pendingData \in Seq(Frames) /\ parkedIndices \in Seq(Indices)
        /\ queued \in Seq(Input) /\ outputs \in Seq(Frames) /\ Len(queued) = 0
    BY DEF Init
  <2>3. 0 \in 0 .. Len(Stream) /\ 0 \in 0 .. Len(queued)
    BY StreamType, <2>2
  <2> QED BY <2>1, <2>2, <2>3 DEF Init, TypeOK
<1>2. HandsInv /\ LockInv /\ SampleInv
  BY DEF Init, HandsInv, LockInv, OneFeeder, SampleInv, SampleIsOwn, Busy
<1>3. PlaceInv
  BY DEF Init, PlaceInv, FedInOrder, InCb, InReader, Busy
<1>4. FlagInv
  BY DEF Init, FlagInv, KeyFlagFollowsFrame, Waits
<1>5. BufferInv
  BY StreamAssumption DEF Init, BufferInv, InOnePlace, Parked, InCodec
<1> QED BY <1>1, <1>2, <1>3, <1>4, <1>5 DEF Inv

(* Every step preserves Inv.                                                *)
LEMMA InvNext == Inv /\ [Next]_vars => Inv'
BY TypeNext, HandsNext, LockNext, PlaceNext, FlagNext, SampleNext, BufferNext DEF Inv

(* Inv is an invariant of the decoder.                                      *)
THEOREM Invariance == Spec => []Inv
BY InvInit, InvNext, PTL DEF Spec

(* The declared types hold.                                                 *)
THEOREM TypeCorrect == Spec => []TypeOK
<1>1. Inv => TypeOK
  BY DEF Inv
<1> QED BY <1>1, Invariance, PTL

(* feedBuffer needs no lock: for any number of buffers the two threads are  *)
(* never in it at the same time.                                            *)
THEOREM FeedersExclude == Spec => []OneFeeder
<1>1. Inv => OneFeeder
  BY DEF Inv, LockInv
<1> QED BY <1>1, Invariance, PTL

(* MediaCodec is given exactly the frames of the stream, in its order.      *)
THEOREM InOrder == Spec => []FedInOrder
<1>1. Inv => FedInOrder
  BY DEF Inv, PlaceInv
<1> QED BY <1>1, Invariance, PTL

(* Each with the keyframe flag it was sent with.                            *)
THEOREM FlagsFollow == Spec => []KeyFlagFollowsFrame
<1>1. Inv => KeyFlagFollowsFrame
  BY DEF Inv, FlagInv
<1> QED BY <1>1, Invariance, PTL

(* The HUD never pairs a frame with another frame's sample.                 *)
THEOREM SamplesOwn == Spec => []SampleIsOwn
<1>1. Inv => SampleIsOwn
  BY DEF Inv, SampleInv
<1> QED BY <1>1, Invariance, PTL
(* MediaCodec's buffers are neither leaked nor used twice, whatever their   *)
(* number, however the two threads and the codec interleave, and also when  *)
(* stop() takes the codec away from a thread that holds one.                *)
THEOREM BuffersKept == Spec => []BuffersConserved
<1>1. Inv => BuffersConserved
  BY OnceInBufferInv DEF Inv
<1> QED BY <1>1, Invariance, PTL

=============================================================================
