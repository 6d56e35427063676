----------------------------- MODULE InputCapture -----------------------------
(***************************************************************************)
(* Pen and touch capture on the tablet (PenInputCapture.kt,                *)
(* TouchInputCapture.kt, the dispatch in MainActivity.kt): MotionEvents    *)
(* become pen samples and touch snapshots, from which the session on the   *)
(* PC takes what is in range, in contact and pressed (session.rs           *)
(* read_loop).                                                             *)
(*                                                                         *)
(* Android (external) reports all pointers that touch in one gesture, pen  *)
(* and fingers mixed and in any order of indices; a hovering pen comes as  *)
(* an event of its own.  Pen capture sees every event first and takes each *)
(* one that has a pen in it.  An event that is in the letterbox bars or in *)
(* the dead zone of the last lift is taken and not sent.                   *)
(***************************************************************************)
EXTENDS Naturals, Sequences, SequencesExt, FiniteSetsExt

CONSTANTS
  Fingers,   \* pointers of tool type FINGER
  Palms,     \* pointers of any other type that is no pen
  PenTools,  \* subset of {"tip", "eraser"}: the ends of the pen that are used
  Buttons,   \* subset of {"primary", "secondary", "tertiary"}: raw button bits
  MaxPointers  \* bound: pointers that touch at once

ASSUME CaptureAssumption ==
  /\ PenTools \subseteq {"tip", "eraser"}
  /\ Buttons \subseteq {"primary", "secondary", "tertiary"}
  /\ MaxPointers \in Nat
  /\ "pen" \notin Fingers \cup Palms /\ Fingers \cap Palms = {}

VARIABLES
  gesture,         \* the touching pointers, in the order of their indices
  inside,          \* those that were inside the active rectangle last
  hover,           \* does the pen hover?
  tool,            \* the end of the pen in use
  lastButtonsRaw,  \* raw buttons of the last event that was sent
  lifted,          \* lastUpX, lastUpY: the pen was lifted before
  pc_pen,          \* the pen as the session knows it
  pc_touch,        \* the fingers of the last snapshot
  last_pen,        \* history: what became of the last pen event
  last_touch       \* history: what became of the last event with fingers

captureVars == <<lastButtonsRaw, lifted>>
pcVars == <<pc_pen, pc_touch, last_pen, last_touch>>
androidVars == <<gesture, inside, hover, tool>>
vars == <<androidVars, captureVars, pcVars>>

NoPen == [range |-> FALSE, contact |-> FALSE, eraser |-> FALSE, buttons |-> {}]

Init ==
  /\ gesture = <<>> /\ inside = {} /\ hover = FALSE /\ tool \in PenTools
  /\ lastButtonsRaw = {} /\ lifted = FALSE
  /\ pc_pen = NoPen /\ pc_touch = {} /\ last_pen = "none" /\ last_touch = "none"

-----------------------------------------------------------------------------
(* PenInputCapture.consume.  An event is [action, index, pointers, in, raw,  *)
(* near]: `in' are the pointers inside the rectangle, `near' says that the   *)
(* pen is within 5 px and 80 ms of its last lift.                            *)

\* findPenIndex: 0 when there is none.
FindPenIndex(ev) == SelectInSeq(ev.pointers, LAMBDA p : p = "pen")

\* Fault: the action is taken to be about the pen.
MapPhaseAnyPointer(ev, pen) ==
  CASE ev.action \in {"HOVER_ENTER", "HOVER_MOVE"} -> 0
    [] ev.action \in {"DOWN", "POINTER_DOWN"}      -> 1
    [] ev.action \in {"UP", "POINTER_UP"}          -> 3
    [] ev.action \in {"HOVER_EXIT", "CANCEL"}      -> 4
    [] OTHER                                       -> 2

\* mapPhase: 0 hover, 1 down, 2 move, 3 up, 4 leave.  A pointer other than the
\* pen that joins or leaves is a move of the pen, and so is every other action.
MapPhase(ev, pen) ==
  CASE ev.action \in {"HOVER_ENTER", "HOVER_MOVE"} -> 0
    [] ev.action \in {"DOWN", "POINTER_DOWN"} /\ ev.index = pen -> 1
    [] ev.action \in {"UP", "POINTER_UP"} /\ ev.index = pen -> 3
    [] ev.action \in {"HOVER_EXIT", "CANCEL"} -> 4
    [] OTHER -> 2

\* decodeButtons: both stylus bits set by one event are the third button.
DecodeButtons(raw) ==
  IF {"primary", "secondary"} \subseteq raw \ lastButtonsRaw THEN {3}
  ELSE {b \in 1 .. 3 : <<"primary", "secondary", "tertiary">>[b] \in raw}

\* read_loop, MSG_PEN_EVENT: the sample as the injector gets it.
PcPen(phase, buttons) ==
  [range |-> phase # 4, contact |-> phase \in {1, 2}, eraser |-> tool = "eraser",
   buttons |-> buttons]

\* The samples of an event's history carry the same phase and buttons as its
\* last one, so that one sample stands for the batch.
PenConsume(ev) ==
  LET phase == MapPhase(ev, FindPenIndex(ev))
      dead == phase \in {0, 1} /\ lifted /\ ev.near
      sent == ~dead /\ "pen" \in ev.in
  IN  /\ lifted' = (lifted \/ phase = 3)
      /\ lastButtonsRaw' = IF sent THEN ev.raw ELSE lastButtonsRaw
      /\ pc_pen' = IF sent THEN PcPen(phase, DecodeButtons(ev.raw)) ELSE pc_pen
      /\ last_pen' = CASE ~sent -> "dropped"
                       [] sent /\ ev.action = "BUTTON" /\ hover -> "button"
                       [] OTHER -> "sent"
      /\ last_touch' = IF Len(ev.pointers) > 1 THEN "missed" ELSE last_touch
      /\ UNCHANGED pc_touch

-----------------------------------------------------------------------------
(* TouchInputCapture.consume *)

\* The fingers that are left down, without those in the bars.
Snapshot(ev) ==
  LET liftedIndex == IF ev.action \in {"UP", "POINTER_UP"} THEN ev.index ELSE 0
  IN  IF ev.action = "CANCEL" THEN {}
      ELSE {ev.pointers[i] : i \in DOMAIN ev.pointers \ {liftedIndex}} \cap Fingers \cap ev.in

TouchConsume(ev) ==
  /\ IF ev.pointers[1] \in Fingers
     THEN pc_touch' = Snapshot(ev) /\ last_touch' = "sent"
     ELSE last_touch' = "missed" /\ UNCHANGED pc_touch
  /\ UNCHANGED <<captureVars, pc_pen, last_pen>>

\* dispatchTouchEvent: the pen first, then touch.
DispatchTouchEvent(ev) == IF FindPenIndex(ev) # 0 THEN PenConsume(ev) ELSE TouchConsume(ev)

\* dispatchGenericMotionEvent: an event of the pen alone.
DispatchGenericMotionEvent(ev) == PenConsume(ev)

-----------------------------------------------------------------------------
(* Android *)

\* The details of an event the capture tells apart; without a pen it looks at
\* neither buttons nor the last lift, and it never asks where a palm is.
Event(action, index, pointers) ==
  LET pen == "pen" \in Range(pointers) IN
  [action : {action}, index : {index}, pointers : {pointers}, in : SUBSET (Range(pointers) \ Palms),
   raw : IF pen THEN SUBSET Buttons ELSE {{}}, near : IF pen /\ lifted THEN BOOLEAN ELSE {FALSE}]

PenEvent(action) == Event(action, 1, <<"pen">>)
PenDown == "pen" \in Range(gesture)

\* A pointer lands: its index may be any.  A pen that hovered has left first.
PointerLands(p) ==
  /\ p \notin Range(gesture) /\ Len(gesture) < MaxPointers /\ (p = "pen" => ~hover)
  /\ \E i \in 1 .. Len(gesture) + 1 :
       LET now == InsertAt(gesture, i, p)
           action == IF gesture = <<>> THEN "DOWN" ELSE "POINTER_DOWN"
       IN  \E ev \in Event(action, i, now) :
             /\ gesture' = now /\ inside' = ev.in
             /\ DispatchTouchEvent(ev)
  /\ UNCHANGED <<hover, tool>>

PointersMove ==
  /\ gesture # <<>>
  /\ \E ev \in Event("MOVE", 1, gesture) : inside' = ev.in /\ DispatchTouchEvent(ev)
  /\ UNCHANGED <<gesture, hover, tool>>

\* A pointer is lifted: the event still lists it.
PointerLifts(i) ==
  /\ LET action == IF Len(gesture) = 1 THEN "UP" ELSE "POINTER_UP"
     IN  \E ev \in Event(action, i, gesture) :
           /\ gesture' = RemoveAt(gesture, i) /\ inside' = ev.in \ {gesture[i]}
           /\ DispatchTouchEvent(ev)
  /\ UNCHANGED <<hover, tool>>

GestureCancelled ==
  /\ gesture # <<>>
  /\ \E ev \in Event("CANCEL", 1, gesture) : DispatchTouchEvent(ev)
  /\ gesture' = <<>> /\ inside' = {} /\ UNCHANGED <<hover, tool>>

\* The pen comes into range, perhaps turned over, or moves there.
PenHovers ==
  /\ ~PenDown
  /\ \E ev \in PenEvent(IF hover THEN "HOVER_MOVE" ELSE "HOVER_ENTER") :
       DispatchGenericMotionEvent(ev)
  /\ hover' = TRUE /\ UNCHANGED <<gesture, inside, tool>>

PenLeaves ==
  /\ hover
  /\ \E ev \in PenEvent("HOVER_EXIT") : DispatchGenericMotionEvent(ev)
  /\ hover' = FALSE /\ UNCHANGED <<gesture, inside, tool>>

\* ACTION_BUTTON_PRESS or _RELEASE, next to the moves that carry the buttons too.
PenButton ==
  /\ hover /\ Buttons # {}
  /\ \E ev \in PenEvent("BUTTON") : DispatchGenericMotionEvent(ev)
  /\ UNCHANGED androidVars

\* The other end is used; the pen is out of range meanwhile.
PenTurns ==
  /\ ~hover /\ ~PenDown /\ tool' \in PenTools
  /\ last_pen' = IF tool' = tool THEN last_pen ELSE "none"
  /\ UNCHANGED <<gesture, inside, hover, captureVars, pc_pen, pc_touch, last_touch>>

Next ==
  \/ \E p \in Fingers \cup Palms \cup {"pen"} : PointerLands(p)
  \/ PointersMove \/ GestureCancelled
  \/ \E i \in DOMAIN gesture : PointerLifts(i)
  \/ PenHovers \/ PenLeaves \/ PenButton \/ PenTurns

Spec == Init /\ [][Next]_vars

-----------------------------------------------------------------------------
TypeOK ==
  /\ Range(gesture) \subseteq Fingers \cup Palms \cup {"pen"} /\ IsInjective(gesture)
  /\ inside \subseteq Range(gesture)
  /\ pc_pen \in [range : BOOLEAN, contact : BOOLEAN, eraser : BOOLEAN, buttons : SUBSET (1 .. 3)]
  /\ pc_touch \subseteq Fingers
  /\ last_pen \in {"none", "sent", "dropped", "button"}
  /\ last_touch \in {"none", "sent", "missed"}

\* Whatever fingers and palms join or leave a stroke, and whichever index the
\* pen has among them: after every pen event that was sent the PC has the pen
\* in contact exactly when it touches, with the end that is used, and in range
\* whenever it is near (mapPhase and read_loop).  A lift that is dropped in the
\* bars, and a button pressed while hovering, are outside of this.
PenInStep ==
  last_pen = "sent" =>
    /\ pc_pen.contact = PenDown
    /\ PenDown \/ hover => pc_pen.range
    /\ pc_pen.range => pc_pen.eraser = (tool = "eraser")

\* After every event that touch capture accepted the PC has down the fingers
\* that touch inside the picture, no palm and none that was lifted: a finger
\* that was missed while the pen had the event is corrected by the next one.
TouchInStep == last_touch = "sent" => pc_touch = inside \cap Fingers

\* Pen and touch together: what the PC was last told of each is what the
\* tablet saw, in every mixture of pointers.
InputInStep == PenInStep /\ TouchInStep

\* TouchInputCapture.kt: the server is told what fingers are currently down, so
\* that none stays down on the PC after all have left the tablet.
NoFingerLeft == gesture = <<>> => pc_touch = {}

\* PenInputCapture.kt, decodeButtons: a chord is the third button and the PC
\* never sees the first two for it.
ChordIsThirdButton ==
  [][pc_pen.buttons = {3} /\ {"primary", "secondary"} \subseteq lastButtonsRaw'
       /\ "tertiary" \notin lastButtonsRaw'
     => pc_pen'.buttons = {3}]_vars
=============================================================================
