---------------------------- MODULE WireProtocol ----------------------------
(***************************************************************************)
(* The wire protocol, written twice in the repository: in Rust             *)
(* (penflow-protocol/src/lib.rs) and in Kotlin (Protocol.kt).  A layout is *)
(* the list of fields <<name, width, signed>> that one side puts or gets,  *)
(* in its own order; a message is a record of field values.  A float is    *)
(* its bit pattern.                                                        *)
(***************************************************************************)
EXTENDS Integers, Sequences, SequencesExt

-----------------------------------------------------------------------------
(* Big-endian integers *)

\* to_be_bytes, putShort, putInt, putLong: two's complement of `w' bytes.  The
\* values stay below 2^31 in size, the upper bytes of a long extend the sign.
BigEndian(v, w) ==
  [i \in 1 .. w |->
     IF w - i >= 4 THEN IF v < 0 THEN 255 ELSE 0
     ELSE (v \div 256 ^ (w - i)) % 256]

Low4(bytes) == SubSeq(bytes, Len(bytes) - 3, Len(bytes))

\* from_be_bytes, buf.short and 0xFFFF, buf.int, buf.long
Number(bytes, signed) ==
  LET b == IF Len(bytes) > 4 THEN Low4(bytes) ELSE bytes
      top == IF signed /\ Head(b) >= 128 THEN Head(b) - 256 ELSE Head(b)
  IN  FoldLeft(LAMBDA v, x : 256 * v + x, top, Tail(b))

-----------------------------------------------------------------------------
(* Layouts *)

u8(name)  == <<name, 1, FALSE>>
u16(name) == <<name, 2, FALSE>>
i16(name) == <<name, 2, TRUE>>
i32(name) == <<name, 4, TRUE>>
u32(name) == <<name, 4, FALSE>>
f32(name) == <<name, 4, TRUE>>
i64(name) == <<name, 8, TRUE>>

\* HelloPc::encode
HelloPcRust ==
  <<u8("version"), u16("width"), u16("height"), u8("codec"), u32("bitrate"), u8("fps")>>

\* decodeHelloPc
HelloPcKotlin ==
  <<u8("version"), u16("width"), u16("height"), <<"codec", 1, TRUE>>, i32("bitrate"), u8("fps")>>

\* encodeHelloAndroid: toShort and toByte keep the low bits.
HelloAndroidKotlin ==
  <<u8("version"), u16("width"), u16("height"), u16("max_pressure"), i16("tilt_min"),
    i16("tilt_max"), u8("buttons_count"), u8("codec_caps")>>

\* HelloAndroid::decode
HelloAndroidRust ==
  <<u8("version"), u16("width"), u16("height"), u16("max_pressure"), i16("tilt_min"),
    i16("tilt_max"), u8("buttons_count"), u8("codec_caps")>>

ClientConfigRust == <<u32("flags")>>
ClientConfigKotlin == <<i32("flags")>>

\* VideoFrame::encode, decodeVideoFrame: the header.
VideoRust(extended) ==
  <<i64("pts"), u8("flags")>> \o IF extended THEN <<u32("capture"), u32("encode")>> ELSE <<>>
VideoKotlin(extended) ==
  <<i64("pts"), u8("flags")>> \o IF extended THEN <<i32("capture"), i32("encode")>> ELSE <<>>

\* encodePenEvent
PenKotlin ==
  <<i64("ts"), u8("phase"), f32("x"), f32("y"), f32("pressure"), f32("tilt_x"), f32("tilt_y"),
    u8("buttons"), u8("tool")>>

\* PenEvent::decode
PenRust ==
  <<i64("ts"), u8("phase"), f32("x"), f32("y"), f32("pressure"), f32("tilt_x"), f32("tilt_y"),
    u8("buttons"), u8("tool")>>

\* encodeTouchEvent and TouchEvent::decode: one contact.
ContactKotlin == <<u8("pointer_id"), f32("x"), f32("y"), f32("pressure")>>
ContactRust == <<u8("pointer_id"), f32("x"), f32("y"), f32("pressure")>>

\* Telemetry::encode
TelemetryRust ==
  <<u32("frames"), u32("dropped"), u32("capture_avg"), u32("encode_avg"), u32("encode_p99"),
    u8("queue_depth")>>

\* decodeTelemetry
TelemetryKotlin ==
  <<i32("frames"), i32("dropped"), i32("capture_avg"), i32("encode_avg"), i32("encode_p99"),
    u8("queue_depth")>>

TimeSyncReqKotlin == <<i64("t1")>>
TimeSyncReqRust == <<i64("t1")>>
TimeSyncRespRust == <<i64("t1"), i64("t2"), i64("t3")>>
TimeSyncRespKotlin == <<i64("t1"), i64("t2"), i64("t3")>>

-----------------------------------------------------------------------------
(* Payloads *)

Malformed == [malformed |-> TRUE]

Size(layout) == FoldLeft(LAMBDA n, f : n + f[2], 0, layout)
Offset(layout, i) == Size(SubSeq(layout, 1, i - 1))

Encode(layout, v) == FlattenSeq([i \in DOMAIN layout |-> BigEndian(v[layout[i][1]], layout[i][2])])

\* Reads the layout from the front of the payload, which is long enough.
Get(layout, payload) ==
  [name \in {layout[i][1] : i \in DOMAIN layout} |->
     LET i == CHOOSE j \in DOMAIN layout : layout[j][1] = name
     IN  Number(SubSeq(payload, Offset(layout, i) + 1, Offset(layout, i) + layout[i][2]), layout[i][3])]

DecodeExact(layout, payload) ==
  IF Len(payload) = Size(layout) THEN Get(layout, payload) ELSE Malformed

\* CLIENT_CONFIG ignores what follows; a ByteBuffer that runs out throws, so
\* that HELLO_PC is read the same way.
DecodeLenient(layout, payload) ==
  IF Len(payload) >= Size(layout) THEN Get(layout, payload) ELSE Malformed

Extended(flags) == flags >= 128

\* VideoFrame::encode: the optional fields follow the flag.
EncodeVideo(v) == Encode(VideoRust(Extended(v.flags)), v) \o v.coded

\* Fault: the extended header is assumed whatever the flag says.
DecodeVideoAlways(payload) ==
  IF Len(payload) < 17 THEN Malformed
  ELSE [name \in {"pts", "flags", "capture", "encode", "coded"} |->
          IF name = "coded" THEN SubSeq(payload, 18, Len(payload)) ELSE Get(VideoKotlin(TRUE), payload)[name]]

\* decodeVideoFrame
DecodeVideo(payload) ==
  IF Len(payload) < 9 THEN Malformed
  ELSE LET layout == VideoKotlin(Extended(payload[9])) IN
       IF Len(payload) < Size(layout) THEN Malformed
       ELSE [name \in DOMAIN Get(layout, payload) \cup {"coded"} |->
               IF name = "coded" THEN SubSeq(payload, Size(layout) + 1, Len(payload))
               ELSE Get(layout, payload)[name]]

\* encodeTouchEvent: at most 255 contacts, pointer ids clamped to a byte.
Clamp(n) == IF n < 0 THEN 0 ELSE IF n > 255 THEN 255 ELSE n
EncodeTouch(v) ==
  LET n == Clamp(Len(v.contacts)) IN
  BigEndian(v.ts, 8) \o BigEndian(n, 1)
    \o FlattenSeq([i \in 1 .. n |->
         Encode(ContactKotlin, [v.contacts[i] EXCEPT !.pointer_id = Clamp(@)])])

\* TouchEvent::decode: the count and the length must agree.
DecodeTouch(payload) ==
  IF Len(payload) < 9 THEN Malformed
  ELSE LET n == payload[9]
           size == Size(ContactRust)
       IN  IF Len(payload) # 9 + n * size THEN Malformed
           ELSE [ts |-> Number(SubSeq(payload, 1, 8), TRUE),
                 contacts |-> [i \in 1 .. n |->
                   Get(ContactRust, SubSeq(payload, 10 + (i - 1) * size, 9 + i * size))]]

-----------------------------------------------------------------------------
(* Message ids *)

\* The MSG_* constants that have a payload or end the stream.
MessageId ==
  [HELLO_PC |-> 1, VIDEO_FRAME |-> 3, TELEMETRY |-> 5, TIME_SYNC_RESP |-> 6, CLIENT_CONFIG |-> 7,
   PC_GOODBYE |-> 127, HELLO_ANDROID |-> 129, PEN_EVENT |-> 130, TOUCH_EVENT |-> 131,
   TIME_SYNC_REQ |-> 132, ANDROID_GOODBYE |-> 255]
=============================================================================
