------------------------------ MODULE Framing -------------------------------
(***************************************************************************)
(* One direction of a connection, as bytes: a sender that writes messages  *)
(* one after the other and says goodbye, a reader that takes them out of   *)
(* the byte stream again (encode_frame, write_frame and read_frame of      *)
(* penflow-protocol, sendMsg and recvMsg of Protocol.kt, and the loops     *)
(* around them).  A frame is a message id, a four-byte length and the      *)
(* payload; nothing in the stream marks where one begins, so a reader that *)
(* is once out of step stays out of step.                                  *)
(*                                                                         *)
(* A frame can be torn: the session aborts the task that is writing it,    *)
(* disconnect() writes its goodbye without the mutex.  Behind the torn     *)
(* frame come the goodbye, the messages of senders that were waiting for   *)
(* the writer, and perhaps the rest of the frame, in any order.            *)
(***************************************************************************)
EXTENDS Integers, Sequences

Byte == 0 .. 255

MaxPayload == 67108864            \* MAX_PAYLOAD_LEN, the require of recvMsg: 64 MiB

Goodbyes == {127, 255}            \* MSG_PC_GOODBYE, MSG_ANDROID_GOODBYE

CONSTANT Messages                 \* what is sent: [id, payload]

(* No message of either program comes near the limit, and a goodbye is only *)
(* sent as the last message.                                                *)
ASSUME MessagesAssumption ==
  /\ Messages \subseteq [id : Byte \ Goodbyes, payload : Seq(Byte)]
  /\ \A m \in Messages : Len(m.payload) <= MaxPayload

VARIABLES
  bye,        \* the id of the goodbye in this direction
  wire,       \* every byte that was written and not lost
  written,    \* history: the messages that were written whole, one behind the other
  tail,       \* what first came behind them: "none", "goodbye" or "part" of a frame
  owed,       \* what is left of the torn frame
  late,       \* history: the messages that were written whole behind that
  said,       \* the goodbye was written
  conn,       \* "open", "closed" by the sender, or "broken"
  taken,      \* how many bytes the reader has consumed
  got,        \* the messages it made of them
  ended       \* why its loop ended: "no", "goodbye", "refused", "malformed", "eof"

senderVars == <<wire, written, tail, owed, late, said>>
readerVars == <<taken, got, ended>>
wireVars == <<bye, senderVars, conn, readerVars>>

WireInit ==
  /\ bye \in Goodbyes
  /\ wire = <<>> /\ written = <<>> /\ conn = "open"
  /\ tail = "none" /\ owed = <<>> /\ late = <<>> /\ said = FALSE
  /\ taken = 0 /\ got = <<>> /\ ended = "no"

-----------------------------------------------------------------------------
(* Frames *)

\* (payload.len() as u32).to_be_bytes(), writeInt
LengthBytes(n) == <<n \div 16777216, (n \div 65536) % 256, (n \div 256) % 256, n % 256>>

\* read_u32, readInt, for a length that is not too large
LengthOf(b) == 16777216 * b[1] + 65536 * b[2] + 256 * b[3] + b[4]

\* encode_frame, sendMsg
Frame(id, payload) == <<id>> \o LengthBytes(Len(payload)) \o payload

\* 64 MiB is 04 00 00 00; a length that is negative as an Int is refused too.
TooLarge(b) == b[1] > 4 \/ (b[1] = 4 /\ (b[2] > 0 \/ b[3] > 0 \/ b[4] > 0))

\* read_frame, recvMsg on a stream that goes no further than `bytes': a message,
\* or why there is none.
ReadFrame(bytes) ==
  LET len == SubSeq(bytes, 2, 5) IN
  IF Len(bytes) < 5 THEN [end |-> "eof"]
  ELSE IF TooLarge(len) THEN [end |-> "refused"]
  ELSE IF Len(bytes) < 5 + LengthOf(len) THEN [end |-> "eof"]
  ELSE [end |-> "no", id |-> bytes[1], payload |-> SubSeq(bytes, 6, 5 + LengthOf(len))]

-----------------------------------------------------------------------------
(* The sender *)

Writes(m) ==
  /\ conn = "open" /\ tail = "none"
  /\ wire' = wire \o Frame(m.id, m.payload)
  /\ written' = Append(written, m)
  /\ UNCHANGED <<bye, tail, owed, late, said, conn, readerVars>>

\* The writer of m is aborted, or overtaken, when `cut' bytes are on the wire.
Tears(m, cut) ==
  /\ conn = "open" /\ tail = "none"
  /\ tail' = "part"
  /\ wire' = wire \o SubSeq(Frame(m.id, m.payload), 1, cut)
  /\ owed' = SubSeq(Frame(m.id, m.payload), cut + 1, 5 + Len(m.payload))
  /\ UNCHANGED <<bye, written, late, said, conn, readerVars>>

SaysGoodbye ==
  /\ conn = "open" /\ ~said
  /\ said' = TRUE
  /\ tail' = IF tail = "none" THEN "goodbye" ELSE tail
  /\ wire' = wire \o Frame(bye, <<>>)
  /\ UNCHANGED <<bye, written, owed, late, conn, readerVars>>

\* A sender that was waiting for the writer gets it too late.
WritesLate(m) ==
  /\ conn = "open" /\ tail # "none"
  /\ wire' = wire \o Frame(m.id, m.payload)
  /\ late' = Append(late, m)
  /\ UNCHANGED <<bye, written, tail, owed, said, conn, readerVars>>

\* The writer that disconnect() overtook goes on.
Resumes ==
  /\ conn = "open" /\ owed # <<>>
  /\ wire' = wire \o owed /\ owed' = <<>>
  /\ UNCHANGED <<bye, written, tail, late, said, conn, readerVars>>

Closes ==
  /\ conn = "open" /\ conn' = "closed"
  /\ UNCHANGED <<bye, senderVars, readerVars>>

\* The connection is lost, with the bytes after the n-th.
Breaks(n) ==
  /\ conn = "open" /\ conn' = "broken"
  /\ wire' = SubSeq(wire, 1, n)
  /\ UNCHANGED <<bye, written, tail, owed, late, said, readerVars>>

-----------------------------------------------------------------------------
(* The reader: read_loop, readLoop *)

Arriving == ReadFrame(SubSeq(wire, taken + 1, Len(wire)))

\* A message; one whose payload does not decode ends the loop.
Reads(decodes) ==
  /\ ended = "no" /\ Arriving.end = "no" /\ Arriving.id # bye
  /\ got' = Append(got, [id |-> Arriving.id, payload |-> Arriving.payload])
  /\ taken' = taken + 5 + Len(Arriving.payload)
  /\ ended' = IF decodes THEN "no" ELSE "malformed"
  /\ UNCHANGED <<bye, senderVars, conn>>

ReadsGoodbye ==
  /\ ended = "no" /\ Arriving.end = "no" /\ Arriving.id = bye
  /\ taken' = taken + 5 + Len(Arriving.payload)
  /\ ended' = "goodbye"
  /\ UNCHANGED <<bye, senderVars, conn, got>>

RefusesLength ==
  /\ ended = "no" /\ Arriving.end = "refused"
  /\ ended' = "refused"
  /\ UNCHANGED <<bye, senderVars, conn, taken, got>>

\* Nothing more will come; before that the reader waits.
ReachesEof ==
  /\ ended = "no" /\ Arriving.end = "eof" /\ conn # "open"
  /\ ended' = "eof"
  /\ UNCHANGED <<bye, senderVars, conn, taken, got>>

-----------------------------------------------------------------------------
Sends ==
  \/ \E m \in Messages : \/ Writes(m) \/ WritesLate(m)
                         \/ \E cut \in 1 .. 4 + Len(m.payload) : Tears(m, cut)
  \/ SaysGoodbye \/ Resumes \/ Closes
  \/ \E n \in taken .. Len(wire) : Breaks(n)

Receives ==
  \/ \E decodes \in BOOLEAN : Reads(decodes)
  \/ ReadsGoodbye \/ RefusesLength \/ ReachesEof

WireNext == Sends \/ Receives

WireSpec == WireInit /\ [][WireNext]_wireVars

-----------------------------------------------------------------------------
(* A reader gets the messages that were written whole before a frame was    *)
(* torn or the goodbye said, in order and byte for byte, before anything    *)
(* else, wherever the frame is torn or the connection breaks and whatever   *)
(* comes behind it: only a torn frame can turn into a message that was not  *)
(* sent or a length that is refused, and only after all of them.  A loop    *)
(* that ends otherwise than by a broken connection has read them all, and   *)
(* the goodbye if it came between two messages.  Nothing is promised to a   *)
(* message behind a torn frame (encode_frame, read_frame; session.rs:667).  *)
StaysInSync ==
  /\ \A k \in DOMAIN got : k <= Len(written) => got[k] = written[k]
  /\ Len(got) > Len(written) => tail = "part"
  /\ ended = "refused" => tail = "part"
  /\ ended \in {"goodbye", "refused"} \/ (ended = "eof" /\ conn = "closed")
       => Len(got) >= Len(written)
  /\ ended = "eof" /\ tail = "goodbye" => conn = "broken"
=============================================================================
