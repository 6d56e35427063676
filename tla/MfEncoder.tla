------------------------------ MODULE MfEncoder ------------------------------
(***************************************************************************)
(* The Media Foundation encoder session (encoder/mf.rs) and the hardware   *)
(* MFT behind it.  The MFT is asynchronous: it asks for input and          *)
(* announces output through one event queue.  A NeedInput event is a       *)
(* permission to call ProcessInput once; the session may keep one          *)
(* permission and throws away every other one it reads.  The capture       *)
(* thread is the only caller: one submit_frame, then try_packet until it   *)
(* returns None (pipeline.rs), so a session call is a sequence of reads of *)
(* the event queue between which the MFT may act.                          *)
(*                                                                         *)
(* The MFT is external code, modelled from how mf.rs uses it.  MftFaults   *)
(* names what it may do wrong: "error" fails a call, "skip" takes a frame  *)
(* and never announces it, "empty" announces one and has no sample for it. *)
(***************************************************************************)
EXTENDS Naturals, Sequences, SequencesExt

CONSTANTS
  Window,      \* how many frames the MFT holds or has asked for at once
  MaxFrames,   \* bound: how many frames are submitted
  MaxSkips,    \* bound: how many frames the MFT skips or has no sample for
  MftFaults,   \* the faults of the MFT that are explored
  MftLists     \* the encoder MFTs that MFTEnumEx may return, in its order

ASSUME EncoderAssumption ==
  /\ Window \in Nat \ {0}
  /\ MaxFrames \in Nat /\ MaxSkips \in Nat
  /\ MftFaults \subseteq {"error", "skip", "empty"}

VARIABLES
  pc,          \* where the capture thread is
  held,        \* have_need_input_credit
  meta,        \* pending_input_meta: the pts of each frame without a packet
  queue,       \* output_queue: packets [frame, pts] that were collected
  submitted,   \* frames given to the MFT; the number of a frame is its pts
  out,         \* the packet the last try_packet returned
  input_type,  \* the input media type in force
  events,      \* MFT: its event queue
  inside,      \* MFT: frames being encoded
  ready,       \* MFT: encoded frames to be fetched by ProcessOutput
  unspent,     \* MFT: NeedInput events sent for which no input has come
  skipped      \* MFT: frames taken of which no output came

sessionVars == <<pc, held, meta, queue, submitted, out, input_type>>
mftVars == <<events, inside, ready, unspent, skipped>>
vars == <<sessionVars, mftVars>>

NoPacket == [frame |-> 0, pts |-> 0]

\* MFT sample time, used when no metadata is left (the clock of the MFT is its own).
NoMeta == 0

Init ==
  /\ pc = "new" /\ held = FALSE /\ meta = <<>> /\ queue = <<>>
  /\ submitted = 0 /\ out = NoPacket /\ input_type = "none"
  /\ events = <<>> /\ inside = <<>> /\ ready = <<>> /\ unspent = 0 /\ skipped = 0

-----------------------------------------------------------------------------
(* Opening a session. *)

\* pick_mft_for_adapter: the adapter's own vendor, else whatever comes first.
PickMft(mfts) ==
  IF \E i \in DOMAIN mfts : mfts[i].own
  THEN mfts[SelectInSeq(mfts, LAMBDA a : a.own)]
  ELSE mfts[1]

\* The tagged type first; a second attempt without the range tag only for
\* MF_E_INVALIDMEDIATYPE.
InputType(mft) ==
  CASE "tagged" \in mft.accepts                          -> "tagged"
    [] "tagged" \notin mft.accepts /\ "plain" \in mft.accepts -> "plain"
    [] OTHER                                             -> "none"

\* MfSession::new: an unusable MFT fails the session, otherwise streaming begins.
New ==
  /\ pc = "new"
  /\ \E mfts \in MftLists :
       LET type == IF mfts = <<>> THEN "none" ELSE InputType(PickMft(mfts)) IN
       /\ input_type' = type
       /\ pc' = IF type = "none" THEN "failed" ELSE "idle"
  /\ UNCHANGED <<held, meta, queue, submitted, out, mftVars>>

-----------------------------------------------------------------------------
(* submit_frame *)

\* Fault: the permission fetched by the previous call is forgotten.
BeginSubmitForgets ==
  /\ pc = "idle" /\ submitted < MaxFrames
  /\ pc' = "acquire"
  /\ held' = FALSE
  /\ UNCHANGED <<meta, queue, submitted, out, input_type, mftVars>>

\* A held permission is used at once; without one the call waits for one.
BeginSubmit ==
  /\ pc = "idle" /\ submitted < MaxFrames
  /\ pc' = IF held THEN "input" ELSE "acquire"
  /\ held' = FALSE
  /\ UNCHANGED <<meta, queue, submitted, out, input_type, mftVars>>

\* collect_output_packet: the packet takes the oldest metadata, or the MFT's
\* own time when there is none.
Packet == [frame |-> Head(ready), pts |-> IF meta = <<>> THEN NoMeta ELSE Head(meta)]

\* Fault: the packet takes the newest metadata (the single slot the comment
\* on pending_input_meta warns of).
CollectNewest ==
  /\ queue' = Append(queue, [frame |-> Head(ready), pts |-> Last(meta)])
  /\ meta' = <<>>
  /\ ready' = Tail(ready)

Collect ==
  /\ queue' = Append(queue, Packet)
  /\ meta' = IF meta = <<>> THEN meta ELSE Tail(meta)
  /\ ready' = Tail(ready)

NextEvent(e) ==
  /\ events # <<>> /\ Head(events) = e
  /\ events' = Tail(events)

\* Every loop over the event queue collects output the same way.
GetHaveOutput ==
  /\ pc \in {"acquire", "prefetch", "drain"}
  /\ NextEvent("have")
  /\ Collect
  /\ UNCHANGED <<pc, held, submitted, out, input_type, inside, unspent, skipped>>

\* ProcessOutput succeeds without a sample: nothing is collected, and the
\* metadata of the frame stays.
GetNoSample ==
  /\ pc \in {"acquire", "prefetch", "drain"}
  /\ NextEvent("have")
  /\ "empty" \in MftFaults /\ skipped < MaxSkips
  /\ ready' = Tail(ready)
  /\ skipped' = skipped + 1
  /\ UNCHANGED <<pc, held, meta, queue, submitted, out, input_type, inside, unspent>>

\* wait_for_need_input returns: before the input, or after it with the
\* permission kept for the next call.
GetNeedInput ==
  /\ pc \in {"acquire", "prefetch"}
  /\ NextEvent("need")
  /\ pc' = IF pc = "acquire" THEN "input" ELSE "drain"
  /\ held' = (pc = "prefetch")
  /\ UNCHANGED <<meta, queue, submitted, out, input_type, inside, ready, unspent, skipped>>

\* The frame goes in, then its metadata is queued, then the next permission
\* is awaited.
ProcessInput ==
  /\ pc = "input"
  /\ submitted' = submitted + 1
  /\ inside' = Append(inside, submitted + 1)
  /\ unspent' = unspent - 1
  /\ meta' = Append(meta, submitted + 1)
  /\ pc' = "prefetch"
  /\ UNCHANGED <<held, queue, out, input_type, events, ready, skipped>>

\* Any MFT call may fail: the error leaves submit_frame or try_packet and the
\* pipeline drops the session.  Frames, metadata and packets stay behind.
CallFails ==
  /\ "error" \in MftFaults
  /\ pc \in {"acquire", "input", "prefetch", "drain"}
  /\ pc' = "failed"
  /\ UNCHANGED <<held, meta, queue, submitted, out, input_type, mftVars>>

-----------------------------------------------------------------------------
(* try_packet, called until it returns None *)

\* drain_events_nowait: a permission read here is thrown away.
DropNeedInput ==
  /\ pc = "drain"
  /\ NextEvent("need")
  /\ UNCHANGED <<sessionVars, inside, ready, unspent, skipped>>

\* Fault: the newest packet is handed out.
HandOutNewest ==
  /\ pc = "drain" /\ events = <<>> /\ queue # <<>>
  /\ out' = Last(queue)
  /\ queue' = Front(queue)
  /\ UNCHANGED <<pc, held, meta, submitted, input_type, mftVars>>

\* MF_E_NO_EVENTS_AVAILABLE ends the drain; the caller takes the oldest packet
\* and asks again.
HandOut ==
  /\ pc = "drain" /\ events = <<>> /\ queue # <<>>
  /\ out' = Head(queue)
  /\ queue' = Tail(queue)
  /\ UNCHANGED <<pc, held, meta, submitted, input_type, mftVars>>

\* None: the pipeline goes on to its next tick.
TryPacketNone ==
  /\ pc = "drain" /\ events = <<>> /\ queue = <<>>
  /\ pc' = "idle"
  /\ UNCHANGED <<held, meta, queue, submitted, out, input_type, mftVars>>

\* Drop: end of stream; what the MFT still holds is never emitted.
DropSession ==
  /\ pc \in {"idle", "failed"}
  /\ pc' = "dropped"
  /\ UNCHANGED <<held, meta, queue, submitted, out, input_type, mftVars>>

-----------------------------------------------------------------------------
(* The MFT *)

Streaming == pc \notin {"new", "failed", "dropped"}

\* NeedInput: permissions and frames together never exceed the window.
MftAsks ==
  /\ Streaming
  /\ Len(inside) + unspent < Window
  /\ events' = Append(events, "need")
  /\ unspent' = unspent + 1
  /\ UNCHANGED <<sessionVars, inside, ready, skipped>>

MftEncodes ==
  /\ Streaming /\ inside # <<>>
  /\ ready' = Append(ready, Head(inside))
  /\ inside' = Tail(inside)
  /\ events' = Append(events, "have")
  /\ UNCHANGED <<sessionVars, unspent, skipped>>

MftSkips ==
  /\ Streaming /\ inside # <<>> /\ "skip" \in MftFaults /\ skipped < MaxSkips
  /\ inside' = Tail(inside)
  /\ skipped' = skipped + 1
  /\ UNCHANGED <<sessionVars, events, ready, unspent>>

-----------------------------------------------------------------------------
Reads == GetHaveOutput \/ GetNoSample \/ GetNeedInput \/ DropNeedInput

Next ==
  \/ New \/ BeginSubmit \/ GetHaveOutput \/ GetNoSample \/ GetNeedInput \/ DropNeedInput
  \/ ProcessInput \/ CallFails \/ HandOut \/ TryPacketNone \/ DropSession
  \/ MftAsks \/ MftEncodes \/ MftSkips

Spec == Init /\ [][Next]_vars

\* A blocked GetEvent returns when an event is queued and the calls run on.
\* The MFT finishes the frames it holds and asks again at the latest when
\* nothing of it is left to be fetched; nothing forces it to ask earlier.
Fairness ==
  /\ WF_vars(Reads) /\ WF_vars(ProcessInput) /\ WF_vars(HandOut) /\ WF_vars(TryPacketNone)
  /\ WF_vars(MftEncodes)
  /\ WF_vars(MftAsks /\ ready = <<>>)

FairSpec == Spec /\ Fairness

-----------------------------------------------------------------------------
TypeOK ==
  /\ pc \in {"new", "idle", "acquire", "input", "prefetch", "drain", "failed", "dropped"}
  /\ held \in BOOLEAN
  /\ meta \in Seq(1 .. submitted)
  /\ queue \in Seq([frame : 1 .. submitted, pts : 0 .. submitted])
  /\ submitted \in 0 .. MaxFrames
  /\ out \in [frame : 0 .. submitted, pts : 0 .. submitted]
  /\ input_type \in {"none", "tagged", "plain"}
  /\ events \in Seq({"need", "have"})
  /\ inside \in Seq(1 .. submitted) /\ ready \in Seq(1 .. submitted)
  /\ unspent \in 0 .. Window
  /\ skipped \in 0 .. MaxSkips

\* Pairing packets with metadata by position is exact as long as the MFT
\* emits every frame: the metadata left over is that of the frames still in
\* the MFT, so each packet carries its own frame's time.  A frame that is
\* skipped, or announced without a sample (mf.rs:316), is never noticed: its
\* metadata stays, and every later packet of the session is stamped at most
\* one frame earlier per such frame (mf.rs:384).
MetaFollowsFrames ==
  /\ Len(meta) = Len(ready) + Len(inside) + skipped
  /\ \A i \in DOMAIN queue : queue[i].frame - queue[i].pts \in 0 .. skipped
  /\ skipped = 0 => meta = ready \o inside

\* submit_frame never hangs: the capture thread that begins a submit comes
\* back to idle with every collected packet handed out, or the call fails.
\* Neither the permissions dropped by the drain nor skipped frames stop it.
SubmitReturns == pc \in {"acquire", "input", "prefetch", "drain"}
                   ~> pc \in {"idle", "failed", "dropped"}

Contract == INSTANCE EncoderContract
              WITH pending <- [i \in DOMAIN queue |-> queue[i].pts] \o meta

\* The session implements the contract of the pipeline: time stamps leave in
\* submission order, each at most once, none invented, whatever the MFT does
\* to the frames behind them.
ImplementsContract == Contract!Spec
=============================================================================
