----------------------------- MODULE MCDataPath ----------------------------
(* Inputs for DataPath: payloads that need escaping, every optional part  *)
(* of a parameter set, and messages with values at the edges of their fields. *)
EXTENDS DataPath

\* Payloads end in the stop bit; these look like start codes or escapes.
Bodies == {<<66, 128>>, <<0, 0, 1, 128>>, <<0, 0, 0, 0, 2, 128>>, <<0, 0, 3, 0, 0, 1>>}

\* First bytes of the headers, in the order of a packet.
H264Packets == {<<103, 104, 101>>, <<9, 103, 104, 6, 101>>, <<9, 65>>, <<6, 65, 103>>}
HevcPackets == {<<64, 66, 68, 38>>, <<70, 64, 66, 68, 42>>, <<70, 2>>, <<66, 2, 38>>}

Header(codec, byte) == IF codec = "h264" THEN <<byte>> ELSE <<byte, 1>>
Code(style, i) == IF style = 4 \/ (style = 7 /\ i = 1) THEN Code4 ELSE Code3

MCPackets ==
  UNION {{[codec |-> codec, mark |-> mark, refused |-> refused,
           nals |-> [i \in DOMAIN types |->
                       [code |-> Code(style, i), header |-> Header(codec, types[i]),
                        rbsp |-> IF IsSps(codec, NalType(codec, types[i])) THEN sps ELSE other]]] :
             types \in IF codec = "h264" THEN H264Packets ELSE HevcPackets,
             style \in {3, 4, 7}, sps \in Bodies, other \in Bodies,
             mark \in {<<>>, <<0, 0>>, <<1, 0>>}, refused \in BOOLEAN} : codec \in {"h264", "hevc"}}

-----------------------------------------------------------------------------
Signals == {NoSignal, Signal(5, 0, <<>>), Signal(2, 1, <<u(8, 9), u(8, 16), u(8, 9)>>)}

OtherRestriction == [over |-> 0, bytes |-> 2, bits |-> 1, mv |-> 11, reorder |-> 2, buffering |-> 4]

H264Vuis ==
  [aspect : {0, 1, 255}, overscan : BOOLEAN, signal : Signals, chroma_loc : BOOLEAN,
   timing : BOOLEAN, nal_hrd : {-1, 0, 1}, vcl_hrd : {-1, 0}, pic_struct : {1},
   restriction : {<<>>, <<OtherRestriction>>}]

H264Heads(vuis) ==
  [profile : {66, 100}, chroma : {1, 3}, scaling : BOOLEAN, poc_type : 0 .. 2, cycle : {2},
   refs : {4}, mbs_only : BOOLEAN, crop : BOOLEAN, vui : vuis]

MCH264Records ==
  H264Heads({<<>>, <<EmptyH264Vui>>})
    \cup {[profile |-> 100, chroma |-> 1, scaling |-> FALSE, poc_type |-> 0, cycle |-> 2, refs |-> 4,
           mbs_only |-> TRUE, crop |-> TRUE, vui |-> <<v>>] : v \in H264Vuis}

HevcVuis ==
  [aspect : {0, 1, 255}, overscan : BOOLEAN, signal : Signals, chroma_loc : BOOLEAN,
   neutral : {0}, field_seq : {0}, field_info : {1}, window : BOOLEAN,
   timing : {"none", "plain", "poc"}, hrd : BOOLEAN, restriction : BOOLEAN]

Layers == {<<>>, <<[profile |-> TRUE, level |-> FALSE]>>,
           <<[profile |-> FALSE, level |-> TRUE], [profile |-> TRUE, level |-> TRUE]>>}

Explicit == [neg |-> 2, pos |-> 1]
RefPicSets == {<<>>, <<Explicit>>, <<Explicit, [used |-> <<1, 2, 3, 1>>]>>,
               <<Explicit, [used |-> <<1, 2, 3, 1>>], [used |-> <<3, 1, 1, 2>>], Explicit>>}

HevcHeads(vuis) ==
  [layers : Layers, chroma : {1, 3}, window : {TRUE}, log2_poc : {4}, ordering : BOOLEAN,
   dpb : {<<3, 2, 1>>}, scaling : {"off", "default", "lists"}, pcm : BOOLEAN, rps : RefPicSets,
   lt : {-1, 2}, vui : vuis, extension : BOOLEAN]

MCHevcRecords ==
  HevcHeads({<<>>})
    \cup {[layers |-> <<>>, chroma |-> 1, window |-> FALSE, log2_poc |-> 4, ordering |-> TRUE,
           dpb |-> <<3, 2, 1>>, scaling |-> "off", pcm |-> FALSE, rps |-> <<Explicit>>, lt |-> -1,
           vui |-> <<v>>, extension |-> FALSE] : v \in HevcVuis}

MCElements == -300 .. 300

-----------------------------------------------------------------------------
(* A seed gives each field of a message another value that it can hold. *)

Edges(field) ==
  CASE field[1] = "codec"  -> <<1, 2, 3, 2>>
    [] field[2] = 1        -> <<0, 255, 1, 128>>
    [] field[2] = 2 /\ field[3] -> <<-60, 60, -1, 256>>
    [] field[2] = 2        -> <<2560, 65535, 1, 0>>
    [] field[2] = 4 /\ field[3] -> <<1065353216, -1, 0, 65536>>
    [] field[2] = 4        -> <<30000000, 0, 2147483647, 255>>
    [] OTHER               -> <<2147483647, 1, 65536, 16777216>>

Value(layout, seed) ==
  [name \in {layout[i][1] : i \in DOMAIN layout} |->
     LET i == CHOOSE j \in DOMAIN layout : layout[j][1] = name
     IN  Edges(layout[i])[1 + ((seed + i) % 4)]]

Video(flags, seed) ==
  [name \in {f[1] : f \in {VideoRust(Extended(flags))[i] : i \in DOMAIN VideoRust(Extended(flags))}} \cup {"coded"} |->
     CASE name = "flags" -> flags
       [] name = "coded" -> SubSeq(<<0, 0, 0, 1, 103>>, 1, seed + 2)
       [] OTHER -> Value(VideoRust(TRUE), seed)[name]]

Touch(n, seed) == [ts |-> seed, contacts |-> [i \in 1 .. n |-> Value(ContactKotlin, seed + i)]]

Msg(id, v) == [id |-> id, v |-> v]

FromPc(seed) ==
  <<Msg("HELLO_PC", Value(HelloPcRust, seed)), Msg("CLIENT_CONFIG", Value(ClientConfigRust, seed)),
    Msg("VIDEO_FRAME", Video(1, seed)), Msg("VIDEO_FRAME", Video(128, seed)),
    Msg("TELEMETRY", Value(TelemetryRust, seed)), Msg("TIME_SYNC_RESP", Value(TimeSyncRespRust, seed))>>

FromTablet(seed) ==
  <<Msg("HELLO_ANDROID", Value(HelloAndroidKotlin, seed)), Msg("PEN_EVENT", Value(PenKotlin, seed)),
    Msg("TOUCH_EVENT", Touch(0, seed)), Msg("TOUCH_EVENT", Touch(2, seed)),
    Msg("TIME_SYNC_REQ", Value(TimeSyncReqKotlin, seed))>>

\* The session tears a TIME_SYNC_RESP anywhere; disconnect() gets in between the
\* three writes of a PEN_EVENT.
MCStreams ==
  {[dir |-> "pc", sent |-> FromPc(seed), torn |-> Msg("TIME_SYNC_RESP", Value(TimeSyncRespRust, seed)),
    cut |-> cut, late |-> behind, resumes |-> FALSE, breaks |-> cut = 0] :
      seed \in 0 .. 3, cut \in 0 .. 28,
      behind \in {<<>>} \cup {<<m>> : m \in {Msg("VIDEO_FRAME", Video(128, 1)), Msg("TELEMETRY", Value(TelemetryRust, 2))}}}
  \cup
  {[dir |-> "tablet", sent |-> FromTablet(seed), torn |-> Msg("PEN_EVENT", Value(PenKotlin, seed)),
    cut |-> cut, late |-> behind, resumes |-> resumes, breaks |-> cut = 0] :
      seed \in 0 .. 3, cut \in {0, 1, 5}, behind \in {<<>>, <<Msg("TOUCH_EVENT", Touch(1, 1))>>}, resumes \in BOOLEAN}

MCMessages == {OnWire(m) : m \in UNION {ToSet(s.sent \o s.late) \cup {s.torn} : s \in MCStreams}}

-----------------------------------------------------------------------------
(* Exchanges that overlap, meet in the window or age out; a leg is short, or *)
(* long on one of the two ways or in one of the two waits.                   *)

MCClocks == [ahead : {-500, 13}, drift : {8, 1000}, rate : {-1, 1}]
MCGaps == {5, 30, 60}
MCWaits == {[mutex |-> 0, out |-> 1, writer |-> 0, back |-> 1], [mutex |-> 0, out |-> 7, writer |-> 0, back |-> 1],
            [mutex |-> 0, out |-> 1, writer |-> 9, back |-> 2], [mutex |-> 6, out |-> 1, writer |-> 0, back |-> 1]}
=============================================================================
