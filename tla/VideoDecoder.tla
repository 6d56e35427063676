---------------------------- MODULE VideoDecoder ----------------------------
(***************************************************************************)
(* The tablet's way of a coded frame from the socket to the decoder and    *)
(* back to the latency display: VideoDecoder.kt (feed, the MediaCodec      *)
(* callbacks, feedBuffer, stop) and the part of PenflowClient.kt that      *)
(* matches decoded frames with their receive samples (readLoop,            *)
(* onDecoderFrameDone).                                                    *)
(*                                                                         *)
(* Two threads hand frames to MediaCodec: the network thread in feed, when *)
(* a codec buffer is parked, and the codec thread in                       *)
(* onInputBufferAvailable, when a frame is pending.  Both choose under     *)
(* `lock' and call feedBuffer after they have released it.                 *)
(***************************************************************************)
EXTENDS Naturals, Sequences, FiniteSets

CONSTANTS
    Indices,    \* MediaCodec's input buffers
    Stream,     \* the frames the PC sends, in order: [pts : ns, key : BOOLEAN]
    MaxAgeNs    \* pendingSampleMaxAgeNs

Frame == [pts : Nat, key : BOOLEAN]
Frames == DOMAIN Stream
NsPerUs == 1000
NoIndex == "none"

(* pts_ns is the time since the session began when the tick started, so it  *)
(* grows from frame to frame, and by more than a microsecond.               *)
ASSUME StreamAssumption ==
    /\ Stream \in Seq(Frame)
    /\ \A f, g \in Frames : f < g => Stream[f].pts + NsPerUs <= Stream[g].pts
    /\ MaxAgeNs \in Nat
    /\ NoIndex \notin Indices

VARIABLES
    received,              \* frames readLoop has taken from the socket
    reader, reader_index,  \* the network thread, the buffer it fills
    cb, cb_index, cb_frame,  \* the codec thread, its buffer and its frame
    isKey,                 \* what each thread read for its frame's flag
    pendingData, parkedIndices, pendingKeyframeFlags,   \* under `lock'
    free,                  \* buffers MediaCodec has to offer
    queued,                \* every queueInputBuffer call, in order
    decoded,               \* how many of them MediaCodec has consumed
    outputs,               \* decoded frames whose callback has not run
    pendingFrameSamples,   \* keys of the map: pts_ns
    recorded,              \* [frame, sample] pairs shown by the HUD
    missed,                \* frames decoded while their sample was kept, not found
    stopped                \* VideoDecoder.stop() was called

readerVars == << received, reader, reader_index >>
cbVars == << cb, cb_index, cb_frame >>
lockVars == << pendingData, parkedIndices, pendingKeyframeFlags >>
codecVars == << free, queued, decoded, outputs >>
hudVars == << pendingFrameSamples, recorded, missed >>
vars == << readerVars, cbVars, isKey, lockVars, codecVars, hudVars, stopped >>

Threads == {"reader", "cb"}
Busy == {"fill", "queue"}    \* in feedBuffer
Flag(f) == [pts |-> Stream[f].pts, key |-> Stream[f].key]
Input == [frame : Frames, index : Indices, us : Nat, key : BOOLEAN]

TypeOK ==
    /\ received \in 0 .. Len(Stream)
    /\ reader \in {"recv", "feed", "fill", "queue", "dead"}
    /\ reader_index \in Indices \cup {NoIndex}
    /\ cb \in {"idle", "fill", "queue", "dead"}
    /\ cb_index \in Indices \cup {NoIndex} /\ cb_frame \in Frames \cup {0}
    /\ isKey \in [Threads -> BOOLEAN]
    /\ pendingData \in Seq(Frames) /\ parkedIndices \in Seq(Indices)
    /\ pendingKeyframeFlags \subseteq Frame
    /\ free \subseteq Indices /\ queued \in Seq(Input)
    /\ decoded \in 0 .. Len(queued) /\ outputs \in Seq(Frames)
    /\ pendingFrameSamples \subseteq Nat
    /\ recorded \subseteq [frame : Frames, sample : Nat]
    /\ missed \subseteq Frames
    /\ stopped \in BOOLEAN

Init ==
    /\ received = 0 /\ reader = "recv" /\ reader_index = NoIndex
    /\ cb = "idle" /\ cb_index = NoIndex /\ cb_frame = 0
    /\ isKey = [t \in Threads |-> FALSE]
    /\ pendingData = << >> /\ parkedIndices = << >> /\ pendingKeyframeFlags = {}
    /\ free = Indices /\ queued = << >> /\ decoded = 0 /\ outputs = << >>
    /\ pendingFrameSamples = {} /\ recorded = {} /\ missed = {}
    /\ stopped = FALSE

-----------------------------------------------------------------------------
(* The network thread.                                                      *)

(* MSG_VIDEO_FRAME: remember the sample, forget those of a second ago.      *)
Receive ==
    /\ reader = "recv" /\ received < Len(Stream)
    /\ received' = received + 1
    /\ reader' = "feed"
    /\ pendingFrameSamples' =
           {p \in pendingFrameSamples \cup {Stream[received'].pts} :
               p + MaxAgeNs >= Stream[received'].pts}
    /\ UNCHANGED << reader_index, cbVars, isKey, lockVars, codecVars, recorded,
                    missed, stopped >>

(* pendingKeyframeFlags[framePtsNs] = isKeyframe.                           *)
StashFlag(f) ==
    pendingKeyframeFlags' =
        {e \in pendingKeyframeFlags : e.pts # Stream[f].pts} \cup {Flag(f)}

(* Fault: the flag is stashed only with data that has to wait.              *)
FeedStashesPendingOnly ==
    /\ reader = "feed"
    /\ \/ /\ parkedIndices # << >>
          /\ reader' = "fill" /\ reader_index' = Head(parkedIndices)
          /\ parkedIndices' = Tail(parkedIndices)
          /\ UNCHANGED << pendingData, pendingKeyframeFlags >>
       \/ /\ parkedIndices = << >>
          /\ StashFlag(received)
          /\ pendingData' = Append(pendingData, received)
          /\ reader' = "recv" /\ UNCHANGED << parkedIndices, reader_index >>
    /\ UNCHANGED << received, cbVars, isKey, codecVars, hudVars, stopped >>

(* feed, under the lock: take a parked buffer, or let the frame wait.       *)
Feed ==
    /\ reader = "feed"
    /\ StashFlag(received)
    /\ \/ /\ parkedIndices # << >>
          /\ reader' = "fill" /\ reader_index' = Head(parkedIndices)
          /\ parkedIndices' = Tail(parkedIndices)
          /\ UNCHANGED pendingData
       \/ /\ parkedIndices = << >>
          /\ pendingData' = Append(pendingData, received)
          /\ reader' = "recv" /\ UNCHANGED << parkedIndices, reader_index >>
    /\ UNCHANGED << received, cbVars, isKey, codecVars, hudVars, stopped >>

-----------------------------------------------------------------------------
(* feedBuffer, by either thread: getInputBuffer and the copy, the flag      *)
(* under the lock, then queueInputBuffer.  (getInputBuffer is null only for *)
(* a buffer MediaCodec has not handed out.)                                 *)

FlagOf(f) ==
    \E e \in pendingKeyframeFlags : e.pts = Stream[f].pts /\ e.key

TakesFlag(t, f) ==
    /\ isKey' = [isKey EXCEPT ![t] = FlagOf(f)]
    /\ pendingKeyframeFlags' =
           {e \in pendingKeyframeFlags : e.pts # Stream[f].pts}

ReaderTakesFlag ==
    /\ reader = "fill" /\ ~stopped
    /\ reader' = "queue" /\ TakesFlag("reader", received)
    /\ UNCHANGED << received, reader_index, cbVars, pendingData, parkedIndices,
                    codecVars, hudVars, stopped >>

CbTakesFlag ==
    /\ cb = "fill" /\ ~stopped
    /\ cb' = "queue" /\ TakesFlag("cb", cb_frame)
    /\ UNCHANGED << readerVars, cb_index, cb_frame, pendingData, parkedIndices,
                    codecVars, hudVars, stopped >>

(* queueInputBuffer(index, .., framePtsNs / 1000, flags).                   *)
QueueInputBuffer(t, f, i) ==
    queued' = Append(queued, [frame |-> f, index |-> i,
                              us |-> Stream[f].pts \div NsPerUs, key |-> isKey[t]])

ReaderQueues ==
    /\ reader = "queue" /\ ~stopped
    /\ QueueInputBuffer("reader", received, reader_index)
    /\ reader' = "recv" /\ reader_index' = NoIndex
    /\ UNCHANGED << received, cbVars, isKey, lockVars, free, decoded, outputs,
                    hudVars, stopped >>

CbQueues ==
    /\ cb = "queue" /\ ~stopped
    /\ QueueInputBuffer("cb", cb_frame, cb_index)
    /\ cb' = "idle" /\ cb_index' = NoIndex /\ cb_frame' = 0
    /\ UNCHANGED << readerVars, isKey, lockVars, free, decoded, outputs, hudVars,
                    stopped >>

(* MediaCodec throws IllegalStateException to a thread that was still in    *)
(* feedBuffer when the codec was stopped.                                   *)
FeedBufferThrows ==
    /\ stopped
    /\ \/ reader \in Busy /\ reader' = "dead" /\ UNCHANGED cb
       \/ cb \in Busy /\ cb' = "dead" /\ UNCHANGED reader
    /\ UNCHANGED << received, reader_index, cb_index, cb_frame, isKey, lockVars,
                    codecVars, hudVars, stopped >>

-----------------------------------------------------------------------------
(* The codec thread: one callback at a time.                                *)

(* Fault: pending data is taken from the wrong end.                         *)
AvailableTakesNewest(i) ==
    /\ cb = "idle" /\ ~stopped /\ i \in free /\ free' = free \ {i}
    /\ \/ /\ pendingData # << >>
          /\ cb' = "fill" /\ cb_index' = i
          /\ cb_frame' = pendingData[Len(pendingData)]
          /\ pendingData' = SubSeq(pendingData, 1, Len(pendingData) - 1)
          /\ UNCHANGED parkedIndices
       \/ /\ pendingData = << >>
          /\ parkedIndices' = Append(parkedIndices, i)
          /\ UNCHANGED << cbVars, pendingData >>
    /\ UNCHANGED << readerVars, isKey, pendingKeyframeFlags, queued, decoded,
                    outputs, hudVars, stopped >>

(* Fault: the buffer is parked even when it is used at once.                *)
AvailableParksAlways(i) ==
    /\ cb = "idle" /\ ~stopped /\ i \in free /\ free' = free \ {i}
    /\ parkedIndices' = Append(parkedIndices, i)
    /\ IF pendingData # << >>
       THEN /\ cb' = "fill" /\ cb_index' = i /\ cb_frame' = Head(pendingData)
            /\ pendingData' = Tail(pendingData)
       ELSE UNCHANGED << cbVars, pendingData >>
    /\ UNCHANGED << readerVars, isKey, pendingKeyframeFlags, queued, decoded,
                    outputs, hudVars, stopped >>

(* Fault: a buffer nobody waits for is forgotten.                           *)
AvailableForgets(i) ==
    /\ cb = "idle" /\ ~stopped /\ i \in free /\ free' = free \ {i}
    /\ IF pendingData # << >>
       THEN /\ cb' = "fill" /\ cb_index' = i /\ cb_frame' = Head(pendingData)
            /\ pendingData' = Tail(pendingData)
       ELSE UNCHANGED << cbVars, pendingData >>
    /\ UNCHANGED << readerVars, isKey, parkedIndices, pendingKeyframeFlags, queued,
                    decoded, outputs, hudVars, stopped >>

OnInputBufferAvailable(i) ==
    /\ cb = "idle" /\ ~stopped /\ i \in free /\ free' = free \ {i}
    /\ \/ /\ pendingData # << >>
          /\ cb' = "fill" /\ cb_index' = i /\ cb_frame' = Head(pendingData)
          /\ pendingData' = Tail(pendingData)
          /\ UNCHANGED parkedIndices
       \/ /\ pendingData = << >>
          /\ parkedIndices' = Append(parkedIndices, i)
          /\ UNCHANGED << cbVars, pendingData >>
    /\ UNCHANGED << readerVars, isKey, pendingKeyframeFlags, queued, decoded,
                    outputs, hudVars, stopped >>

(* Fault: the map is used as a queue, oldest sample first.                  *)
MatchOldest(f) ==
    /\ pendingFrameSamples # {}
    /\ LET oldest == CHOOSE p \in pendingFrameSamples :
                         \A q \in pendingFrameSamples : p <= q
       IN  /\ pendingFrameSamples' = pendingFrameSamples \ {oldest}
           /\ recorded' = recorded \cup {[frame |-> f, sample |-> oldest]}
    /\ UNCHANGED missed

(* onDecoderFrameDone(presentationTimeUs * 1000): the sample under that     *)
(* key, or nothing.                                                         *)
OnDecoderFrameDone(f) ==
    LET pts == (Stream[f].pts \div NsPerUs) * NsPerUs IN
    /\ pendingFrameSamples' = pendingFrameSamples \ {pts}
    /\ recorded' = recorded \cup
           {[frame |-> f, sample |-> p] : p \in pendingFrameSamples \cap {pts}}
    /\ missed' = missed \cup
           (IF Stream[f].pts \in pendingFrameSamples' THEN {f} ELSE {})

OnOutputBufferAvailable ==
    /\ cb = "idle" /\ ~stopped /\ outputs # << >>
    /\ outputs' = Tail(outputs)
    /\ OnDecoderFrameDone(Head(outputs))
    /\ UNCHANGED << readerVars, cbVars, isKey, lockVars, free, queued, decoded,
                    stopped >>

-----------------------------------------------------------------------------
(* MediaCodec: inputs are consumed in order, their buffers come back, and   *)
(* an output may be elided.                                                 *)
Decode(shown) ==
    /\ ~stopped /\ decoded < Len(queued)
    /\ decoded' = decoded + 1
    /\ free' = free \cup {queued[decoded'].index}
    /\ outputs' = IF shown THEN Append(outputs, queued[decoded'].frame) ELSE outputs
    /\ UNCHANGED << readerVars, cbVars, isKey, lockVars, queued, hudVars, stopped >>

(* stop(), called while the network thread may still be in feed.            *)
StopDecoder ==
    /\ ~stopped /\ stopped' = TRUE
    /\ UNCHANGED << readerVars, cbVars, isKey, lockVars, codecVars, hudVars >>

Over == stopped /\ UNCHANGED vars

Next ==
    \/ Receive \/ Feed \/ ReaderTakesFlag \/ ReaderQueues
    \/ CbTakesFlag \/ CbQueues \/ FeedBufferThrows
    \/ \E i \in Indices : OnInputBufferAvailable(i)
    \/ OnOutputBufferAvailable
    \/ \E shown \in BOOLEAN : Decode(shown)
    \/ StopDecoder \/ Over

(* Both threads run and MediaCodec decodes what it is given; the PC need    *)
(* not send anything.                                                       *)
Fairness ==
    /\ WF_vars(Feed \/ ReaderTakesFlag \/ ReaderQueues)
    /\ WF_vars(CbTakesFlag \/ CbQueues)
    /\ WF_vars(\E i \in Indices : OnInputBufferAvailable(i))
    /\ WF_vars(\E shown \in BOOLEAN : Decode(shown))

Spec == Init /\ [][Next]_vars /\ Fairness

-----------------------------------------------------------------------------
(* Properties.                                                              *)

(* Although feedBuffer runs outside the lock, the two threads are never in  *)
(* it together: what each found under the lock keeps the other out.         *)
OneFeeder == ~(reader \in Busy /\ cb \in Busy)

(* Hence MediaCodec gets the frames in the order the PC sent them, whichever *)
(* thread brings each (a P-frame before its reference would not decode),    *)
(* and none is skipped: the next to come is the first that waits.           *)
FedInOrder == \A k \in DOMAIN queued : queued[k].frame = k

(* A codec buffer is in one place: on offer, parked, being filled by one    *)
(* thread, or queued and not consumed.  None is used twice, none leaks.     *)
BuffersConserved ==
    \A i \in Indices :
        Cardinality({k \in DOMAIN parkedIndices : parkedIndices[k] = i})
      + Cardinality({k \in decoded + 1 .. Len(queued) : queued[k].index = i})
      + Cardinality({p \in {"free"} : i \in free})
      + Cardinality({p \in {"reader"} : reader_index = i})
      + Cardinality({p \in {"cb"} : cb_index = i}) = 1

(* The keyframe flag a frame came with reaches MediaCodec with that frame,  *)
(* though it travels in a map of its own and is taken under a second lock.  *)
KeyFlagFollowsFrame ==
    \A k \in DOMAIN queued : queued[k].key = Stream[queued[k].frame].key

(* A latency the HUD shows for a frame is computed from that frame's own    *)
(* receive sample, also when outputs were elided (PenflowClient.kt:82-95).  *)
SampleIsOwn == \A r \in recorded : r.sample = Stream[r.frame].pts

(* A frame that was received is handed to MediaCodec, unless it is stopped. *)
FrameReachesCodec ==
    \A f \in Frames : received >= f ~> Len(queued) >= f \/ stopped

(* PenflowClient.kt:91-95: the callback "looks up by the same PTS via       *)
(* `info.presentationTimeUs * 1000`".  No decoded frame whose sample is     *)
(* still in the map goes unmatched.                                         *)
OutputFindsItsSample == missed = {}

=============================================================================
