------------------------------ MODULE DataPath -------------------------------
(***************************************************************************)
(* The pure transformations a message goes through between the encoder and *)
(* the client, and the client and the injector, applied to one input each  *)
(* and compared with an independent account of what they are to do:        *)
(*   - Packet: the packet patcher, key-frame test and csd-0 extraction;    *)
(*   - Sps: the SPS rewriter, against the syntax tables;                   *)
(*   - Element: the Exp-Golomb codes.                                      *)
(* Beside them, two machines at work: the connection of Framing, carrying  *)
(* messages that one language encodes and the other decodes, and the       *)
(* clock-offset estimator of ClockSync.                                    *)
(***************************************************************************)
EXTENDS AnnexB, SpsPatcher, WireProtocol, Framing, ClockSync

CONSTANTS
  Packets,      \* [codec, nals, mark, refused]: nals are [code, header, rbsp]
  H264Records,  \* the H.264 parameter sets, as records of SpsSyntax
  HevcRecords,  \* the H.265 parameter sets
  Elements,     \* integers, written as single elements of a parameter set
  Streams       \* [dir, sent, torn, cut, late, resumes, breaks]: messages are [id, v]

VARIABLES
  job,          \* the input
  result        \* what the code makes of it, <<>> before; of a stream, the
                \* messages received so far

vars == <<job, result, wireVars, clockVars>>

Job(kind, in) == [kind |-> kind, in |-> in]

GoodbyeId(dir) == MessageId[IF dir = "pc" THEN "PC_GOODBYE" ELSE "ANDROID_GOODBYE"]

Init ==
  /\ result = <<>> /\ WireInit /\ ClockInit
  /\ \/ job = Job("clock", <<>>)
     \/ /\ job \in {Job("packet", p) : p \in Packets}
             \cup {Job("h264", r) : r \in H264Records} \cup {Job("hevc", r) : r \in HevcRecords}
             \cup {Job("element", n) : n \in Elements} \cup {Job("stream", s) : s \in Streams}
        /\ pcClock = CHOOSE c \in Clocks : TRUE
  /\ bye = IF job.kind = "stream" THEN GoodbyeId(job.in.dir) ELSE GoodbyeId("pc")

Done(r) == result = <<>> /\ result' = <<r>> /\ UNCHANGED <<job, wireVars, clockVars>>

-----------------------------------------------------------------------------
(* Packets *)

\* What the encoder emits (external): start code, header, escaped payload.
EmittedNal(n) == n.code \o n.header \o Escape(n.rbsp)
Emitted(p) == FlattenSeq([i \in DOMAIN p.nals |-> EmittedNal(p.nals[i])])

\* collect_output_packet: the packet is patched, or left as it is when the
\* rewriter refuses an SPS of it.
Patched(p, raw) ==
  LET sps == SelectSeq(SplitNals(p.codec, raw), LAMBDA n : IsSps(p.codec, n.type))
  IN  IF p.refused /\ sps # <<>> THEN raw ELSE PatchPacket(p.codec, raw, p.mark)

\* A NAL as a decoder sees it.
Decoded(codec, out, n) ==
  [code |-> SubSeq(out, n.from, n.body - 1), type |-> n.type,
   rbsp |-> Unescape(SubSeq(out, n.body + HeaderLen(codec), n.last))]
DecodedNals(codec, out, nals) == [i \in DOMAIN nals |-> Decoded(codec, out, nals[i])]

\* The packet is tested for a key frame, and csd-0 taken from it, after patching.
PacketResult(codec, out) ==
  [nals |-> DecodedNals(codec, out, SplitNals(codec, out)),
   key |-> FirstNalIsIdr(codec, out),
   csd0 |-> ExtractNals(codec, out, ParameterSets(codec))]

PatchesPacket ==
  /\ job.kind = "packet"
  /\ Done(PacketResult(job.in.codec, Patched(job.in, Emitted(job.in))))

-----------------------------------------------------------------------------
(* Parameter sets *)

PatchesSps ==
  \/ job.kind = "h264" /\ Done(PatchH264(H264Sps(job.in)))
  \/ job.kind = "hevc" /\ Done(PatchHevc(HevcSps(job.in)))

\* One signed element in front of one unsigned element and one of ten bits.
CopiesElement ==
  /\ job.kind = "element"
  /\ LET n == job.in
         size == IF n < 0 THEN -n ELSE n
         bits == WriteSe(n) \o WriteUe(size) \o WriteBits(size, 10)
         second == SubSeq(bits, ReadUe(bits).used + 1, Len(bits))
         third == SubSeq(second, ReadUe(second).used + 1, Len(second))
     IN  Done([se |-> ReadSe(bits), ue |-> ReadUe(second).v, u |-> ReadBits(third), left |-> Len(third)])

-----------------------------------------------------------------------------
(* Streams *)

\* The payload as its sender encodes it.
PayloadOf(m) ==
  CASE m.id = "HELLO_PC"       -> Encode(HelloPcRust, m.v)
    [] m.id = "CLIENT_CONFIG"  -> Encode(ClientConfigRust, m.v)
    [] m.id = "VIDEO_FRAME"    -> EncodeVideo(m.v)
    [] m.id = "TELEMETRY"      -> Encode(TelemetryRust, m.v)
    [] m.id = "TIME_SYNC_RESP" -> Encode(TimeSyncRespRust, m.v)
    [] m.id = "HELLO_ANDROID"  -> Encode(HelloAndroidKotlin, m.v)
    [] m.id = "PEN_EVENT"      -> Encode(PenKotlin, m.v)
    [] m.id = "TOUCH_EVENT"    -> EncodeTouch(m.v)
    [] m.id = "TIME_SYNC_REQ"  -> Encode(TimeSyncReqKotlin, m.v)
    [] OTHER                   -> <<>>

\* The payload as its receiver decodes it.
ValueOf(id, payload) ==
  CASE id = "HELLO_PC"       -> DecodeLenient(HelloPcKotlin, payload)
    [] id = "CLIENT_CONFIG"  -> DecodeLenient(ClientConfigKotlin, payload)
    [] id = "VIDEO_FRAME"    -> DecodeVideo(payload)
    [] id = "TELEMETRY"      -> DecodeExact(TelemetryKotlin, payload)
    [] id = "TIME_SYNC_RESP" -> DecodeExact(TimeSyncRespKotlin, payload)
    [] id = "HELLO_ANDROID"  -> DecodeExact(HelloAndroidRust, payload)
    [] id = "PEN_EVENT"      -> DecodeExact(PenRust, payload)
    [] id = "TOUCH_EVENT"    -> DecodeTouch(payload)
    [] id = "TIME_SYNC_REQ"  -> DecodeExact(TimeSyncReqRust, payload)
    [] OTHER                 -> <<>>

OnWire(m) == [id |-> MessageId[m.id], payload |-> PayloadOf(m)]
NameOf(id) == LET known == {n \in DOMAIN MessageId : MessageId[n] = id}
              IN  IF known = {} THEN "unknown" ELSE CHOOSE n \in known : TRUE

\* The messages of the job, then `cut' bytes of the torn one, and the goodbye.
\* On the tablet the torn message has the mutex: disconnect() overtakes it, it
\* may go on, and the others come behind it.  On the PC the aborted read loop
\* gives up the lock, so a pump that was waiting for it may come first.
SendsStream ==
  /\ job.kind = "stream"
  /\ \/ /\ Len(written) < Len(job.in.sent)
        /\ Writes(OnWire(job.in.sent[Len(written) + 1]))
     \/ /\ Len(written) = Len(job.in.sent) /\ job.in.cut > 0
        /\ Tears(OnWire(job.in.torn), job.in.cut)
     \/ /\ Len(written) = Len(job.in.sent) /\ (job.in.cut > 0 => tail = "part")
        /\ SaysGoodbye
     \/ /\ Len(late) < Len(job.in.late) /\ (job.in.dir = "tablet" => owed = <<>>)
        /\ WritesLate(OnWire(job.in.late[Len(late) + 1]))
     \/ job.in.resumes /\ said /\ Resumes
     \/ said /\ Closes
     \/ job.in.breaks /\ \E n \in taken .. Len(wire) : Breaks(n)
  /\ UNCHANGED <<job, result, clockVars>>

\* A payload that does not decode ends either loop, but for CLIENT_CONFIG.
ReadsMessage(m) ==
  /\ Reads(m.v # Malformed \/ m.id = "CLIENT_CONFIG")
  /\ result' = Append(result, m)

ReadsStream ==
  /\ job.kind = "stream"
  /\ \/ /\ Arriving.end = "no"
        /\ LET name == NameOf(Arriving.id)
           IN  ReadsMessage([id |-> name, v |-> ValueOf(name, Arriving.payload)])
     \/ (ReadsGoodbye \/ RefusesLength \/ ReachesEof) /\ UNCHANGED result
  /\ UNCHANGED <<job, clockVars>>

-----------------------------------------------------------------------------
(* Clocks *)

KeepsTime ==
  /\ job.kind = "clock"
  /\ ClockNext
  /\ UNCHANGED <<job, result, wireVars>>

-----------------------------------------------------------------------------
Next == PatchesPacket \/ PatchesSps \/ CopiesElement \/ SendsStream \/ ReadsStream \/ KeepsTime

Spec == Init /\ [][Next]_vars

-----------------------------------------------------------------------------
Finished(kind) == job.kind = kind /\ result # <<>>

\* The reference for a packet, from the list of its NALs.
TypeOf(codec, n) == NalType(codec, n.header[1])
WantedRbsp(p, n) ==
  IF IsSps(p.codec, TypeOf(p.codec, n)) /\ ~p.refused THEN Rewritten(p.mark, n.rbsp) ELSE n.rbsp
FirstSlice(p) == SelectSeq(p.nals, LAMBDA n : IsVcl(p.codec, TypeOf(p.codec, n)))
ParameterNals(p) == SelectSeq(p.nals, LAMBDA n : TypeOf(p.codec, n) \in ParameterSets(p.codec))

\* Rewriting the SPS changes nothing else of a packet, whatever the escaped
\* bytes look like: a decoder finds the same NALs with the same start codes,
\* reads from each SPS what the rewriter returned for what the encoder meant,
\* the key-frame flag is that of the first slice, and csd-0 is made of the
\* rewritten parameter sets alone (patch_packet_for_low_latency_dpb, then
\* first_nal_is_idr and extract_*_nals on its output).
PacketKeepsNals ==
  Finished("packet") =>
    LET p == job.in
        r == result[1]
    IN  /\ r.nals = [i \in DOMAIN p.nals |->
                       [code |-> p.nals[i].code, type |-> TypeOf(p.codec, p.nals[i]),
                        rbsp |-> WantedRbsp(p, p.nals[i])]]
        /\ r.key = (FirstSlice(p) # <<>> /\ IsIdr(p.codec, TypeOf(p.codec, FirstSlice(p)[1])))
        /\ r.csd0 = FlattenSeq([i \in DOMAIN ParameterNals(p) |->
                      LET n == ParameterNals(p)[i]
                      IN  EmittedNal([n EXCEPT !.rbsp = WantedRbsp(p, n)])])

\* The rewritten SPS is the one the syntax tables give for the same stream with
\* one reference frame, no reordering and full-range BT.709 colour: no element
\* is read out of step, whichever optional parts the encoder emitted.  A
\* scaling list is refused for H.264; for H.265 a structure that is not parsed
\* leaves everything but the DPB fields as it was.  A single element is read
\* back as it was written, and the next one starts where it ends.
SpsIsAsWanted ==
  /\ Finished("h264") =>
       IF job.in.profile \in HighProfiles /\ job.in.scaling
       THEN result[1].st = "unsupported"
       ELSE result[1].st = "ok" /\ result[1].out = H264Sps(WantedH264(job.in))
  /\ Finished("hevc") =>
       result[1].st = "ok" /\ result[1].out = HevcSps(WantedHevc(job.in))
  /\ Finished("element") =>
       LET size == IF job.in < 0 THEN -job.in ELSE job.in
       IN  result[1] = [se |-> job.in, ue |-> size, u |-> size, left |-> 10]

\* The two ends, which are different programs, stay in step (StaysInSync), and a
\* message that was written whole before one was torn is received with the values
\* that were sent.  What the reader makes of the torn one comes next and has its
\* id; it is at most one message from the server (a late TIME_SYNC_RESP) and two
\* from the tablet, unless a pump that was waiting for the lock wrote behind it
\* (session.rs:667-683): then the reader takes that apart as well.  Without a torn
\* message every message decodes.
MessagesBeforeCut ==
  /\ StaysInSync
  /\ job.kind = "stream" =>
       LET garbled == Len(result) - Len(written)
       IN  /\ Len(result) = Len(got)
           /\ \A k \in DOMAIN result : k <= Len(written) => result[k] = job.in.sent[k]
           /\ garbled > 0 => result[Len(written) + 1].id = job.in.torn.id
           /\ late = <<>> => garbled <= IF job.in.dir = "pc" THEN 1 ELSE 2
           /\ ended = "malformed" => tail = "part"
=============================================================================
