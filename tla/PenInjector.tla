---------------------------- MODULE PenInjector ----------------------------
(***************************************************************************)
(* The Windows injector (crates/penflow-core/src/inject/win_ink.rs):       *)
(* inject_pen with dispatch_pen_buttons and write_pen, inject_touch,       *)
(* set_pen_profile and Drop, driven by the pen and touch messages of       *)
(* read_loop (session.rs).                                                 *)
(*                                                                         *)
(* A handler runs under the session's mutex, one at a time, but it is      *)
(* several calls into Windows and each may fail: a failed call returns     *)
(* through `?' and leaves what came before it done.  So every call is an   *)
(* action.  Windows is what it has been told: keys that are down, the pen  *)
(* and the touch contacts.  Positions, pressure and tilt are left out.     *)
(***************************************************************************)
EXTENDS Naturals, Sequences, SequencesExt

CONSTANTS
    Profiles,     \* the button profiles a user may configure
    TouchIds,     \* pointer ids of fingers
    MaxFailures   \* bound: calls into Windows that fail

Slots == 0 .. 2   \* barrel_1, barrel_2, tertiary
Holding == {"KeyHold", "MouseButton"}
Kinds == Holding \cup {"None", "KeyTap", "KeyChord", "EraserToggle"}

(* A mouse button is a key here.                                            *)
KeysOf(p) == UNION {{p[s].keys[i] : i \in DOMAIN p[s].keys} : s \in Slots}

ASSUME ProfilesAssumption ==
    /\ Profiles # {}
    /\ \A p \in Profiles : /\ DOMAIN p = Slots
                           /\ \A s \in Slots : /\ p[s].kind \in Kinds
                                               /\ p[s].keys \in Seq(KeysOf(p))
    /\ MaxFailures \in Nat

Keys == UNION {KeysOf(p) : p \in Profiles}

VARIABLES
    pc,                 \* "idle", or where inject_pen is, or "dropped"
    sample,             \* the sample it injects
    calls,              \* what dispatch_pen_buttons still has to do
    vmulti,             \* the VMulti driver was found
    pen_profile, last_pen_buttons, pen_eraser_sticky,
    last_pen,           \* last_pen_in_range, last_pen_in_contact, last_pen_eraser
    last_touch_pos,     \* ids of the previous snapshot
    keys_down, os_pen, os_touch,   \* what Windows believes
    key_failed,         \* a SendInput has failed
    pen_failed,         \* the last attempt to write a pen frame failed
    failures,           \* how many calls have failed
    flushed,            \* an eraser flush was written
    misfit              \* a frame's transition bits did not fit what Windows saw

handVars == << pc, sample, calls >>
buttonVars == << pen_profile, last_pen_buttons, pen_eraser_sticky >>
windowsVars == << keys_down, os_pen, os_touch >>
historyVars == << key_failed, pen_failed, failures, flushed, misfit >>
vars == << handVars, vmulti, buttonVars, last_pen, last_touch_pos, windowsVars,
           historyVars >>

Pen == [range : BOOLEAN, contact : BOOLEAN, eraser : BOOLEAN]
Sample == [range : BOOLEAN, contact : BOOLEAN, eraser : BOOLEAN,
           buttons : SUBSET Slots]
Call == [op : {"down", "up"}, key : Keys] \cup [op : {"move", "toggle"}]
Away == [range |-> FALSE, contact |-> FALSE, eraser |-> FALSE]
NoSample == [range |-> FALSE, contact |-> FALSE, eraser |-> FALSE, buttons |-> {}]

TypeOK ==
    /\ pc \in {"idle", "dispatch", "flush", "write", "dropped"}
    /\ sample \in Sample /\ calls \in Seq(Call) /\ vmulti \in BOOLEAN
    /\ pen_profile \in Profiles /\ last_pen_buttons \subseteq Slots
    /\ pen_eraser_sticky \in BOOLEAN
    /\ last_pen \in Pen /\ last_touch_pos \subseteq TouchIds
    /\ keys_down \subseteq Keys /\ os_pen \in Pen /\ os_touch \subseteq TouchIds
    /\ key_failed \in BOOLEAN /\ pen_failed \in BOOLEAN /\ failures \in Nat
    /\ flushed \in BOOLEAN /\ misfit \in BOOLEAN

Init ==
    /\ pc = "idle" /\ sample = NoSample /\ calls = << >>
    /\ vmulti \in BOOLEAN
    /\ pen_profile \in Profiles /\ last_pen_buttons = {} /\ pen_eraser_sticky = FALSE
    /\ last_pen = Away /\ last_touch_pos = {}
    /\ keys_down = {} /\ os_pen = Away /\ os_touch = {}
    /\ key_failed = FALSE /\ pen_failed = FALSE /\ failures = 0
    /\ flushed = FALSE /\ misfit = FALSE

-----------------------------------------------------------------------------
(* dispatch_pen_buttons.                                                    *)

Downs(keys) == [i \in DOMAIN keys |-> [op |-> "down", key |-> keys[i]]]
Ups(keys) == [i \in DOMAIN keys |-> [op |-> "up", key |-> Reverse(keys)[i]]]

(* Fault: a held key is tapped.                                             *)
PressTaps(b) ==
    CASE b.kind \in Holding \cup {"KeyTap", "KeyChord"} -> Downs(b.keys) \o Ups(b.keys)
      [] b.kind = "EraserToggle" -> << [op |-> "toggle"] >>
      [] OTHER -> << >>

(* What a button does when it goes down, and when it comes up.              *)
Press(b) ==
    CASE b.kind \in Holding -> Downs(b.keys)
      [] b.kind \in {"KeyTap", "KeyChord"} -> Downs(b.keys) \o Ups(b.keys)
      [] b.kind = "EraserToggle" -> << [op |-> "toggle"] >>
      [] b.kind = "None" -> << >>

Release(b) == IF b.kind \in Holding THEN Ups(b.keys) ELSE << >>

SlotCalls(s, now) ==
    IF s \in now \ last_pen_buttons THEN Press(pen_profile[s])
    ELSE IF s \in last_pen_buttons \ now THEN Release(pen_profile[s])
    ELSE << >>

(* Slot by slot, after the cursor was brought to the pen tip if a mouse     *)
(* button is held or released.                                              *)
DispatchCalls(now) ==
    (IF \E s \in now \cup last_pen_buttons : pen_profile[s].kind = "MouseButton"
     THEN << [op |-> "move"] >> ELSE << >>)
        \o SlotCalls(0, now) \o SlotCalls(1, now) \o SlotCalls(2, now)

(* MSG_PEN_EVENT: phase 4 is leave; 1 and 2 are down and move.              *)
ReadPen(phase, eraser, buttons) ==
    /\ pc = "idle" /\ pc' = "dispatch"
    /\ sample' = [range |-> phase # 4, contact |-> phase \in {1, 2},
                  eraser |-> eraser, buttons |-> buttons]
    /\ calls' = DispatchCalls(buttons)
    /\ UNCHANGED << vmulti, buttonVars, last_pen, last_touch_pos, windowsVars,
                    historyVars >>

(* One SendInput that Windows takes, or one toggle of pen_eraser_sticky.    *)
SendCall ==
    /\ pc = "dispatch" /\ calls # << >>
    /\ calls' = Tail(calls)
    /\ keys_down' = IF Head(calls).op = "down" THEN keys_down \cup {Head(calls).key}
                    ELSE IF Head(calls).op = "up" THEN keys_down \ {Head(calls).key}
                    ELSE keys_down
    /\ pen_eraser_sticky' = (pen_eraser_sticky # (Head(calls).op = "toggle"))
    /\ UNCHANGED << pc, sample, vmulti, pen_profile, last_pen_buttons, last_pen,
                    last_touch_pos, os_pen, os_touch, historyVars >>

(* One that it does not: inject_pen returns, the sample is lost.            *)
SendFails ==
    /\ pc = "dispatch" /\ calls # << >> /\ Head(calls).op # "toggle"
    /\ failures < MaxFailures /\ failures' = failures + 1
    /\ pc' = "idle" /\ sample' = NoSample /\ calls' = << >> /\ key_failed' = TRUE
    /\ UNCHANGED << vmulti, buttonVars, last_pen, last_touch_pos, windowsVars,
                    pen_failed, flushed, misfit >>

-----------------------------------------------------------------------------
(* The pen frame.                                                           *)

Eraser == sample.eraser \/ pen_eraser_sticky

(* Fault: only a pen in contact is flushed.                                 *)
DispatchedFlushesContact ==
    /\ pc = "dispatch" /\ calls = << >>
    /\ last_pen_buttons' = sample.buttons
    /\ pc' = IF ~vmulti /\ Eraser # last_pen.eraser /\ last_pen.contact
             THEN "flush" ELSE "write"
    /\ UNCHANGED << sample, calls, vmulti, pen_profile, pen_eraser_sticky, last_pen,
                    last_touch_pos, windowsVars, historyVars >>

(* The buttons are done: flush the old tool if the pen turned in range.     *)
Dispatched ==
    /\ pc = "dispatch" /\ calls = << >>
    /\ last_pen_buttons' = sample.buttons
    /\ pc' = IF ~vmulti /\ Eraser # last_pen.eraser /\ last_pen.range
             THEN "flush" ELSE "write"
    /\ UNCHANGED << sample, calls, vmulti, pen_profile, pen_eraser_sticky, last_pen,
                    last_touch_pos, windowsVars, historyVars >>

(* Fault: every contact frame is a DOWN.                                    *)
AlwaysDown(was, now) ==
    IF ~now.range THEN {"UP"}
    ELSE (IF was.range THEN {} ELSE {"NEW"})
         \cup (IF now.contact THEN {"DOWN"}
               ELSE IF was.contact THEN {"UP"} ELSE {"UPDATE"})

(* The transition bits; INRANGE, INCONTACT and PRIMARY are what `now' says. *)
pen_pointer_flags(was, now) ==
    IF ~now.range THEN {"UP"}
    ELSE (IF was.range THEN {} ELSE {"NEW"})
         \cup (IF now.contact THEN (IF was.contact THEN {"UPDATE"} ELSE {"DOWN"})
               ELSE IF was.contact THEN {"UP"} ELSE {"UPDATE"})

(* What Windows expects after the frames it has seen: NEW for a pointer     *)
(* that was away, DOWN to begin a contact, UP to end one or to leave.       *)
Expected(was, now) ==
    (IF now.range /\ ~was.range THEN {"NEW"} ELSE {})
    \cup (IF now.contact /\ ~was.contact THEN {"DOWN"} ELSE {})
    \cup (IF (was.contact /\ ~now.contact) \/ (was.range /\ ~now.range) THEN {"UP"} ELSE {})

Fits(flags, was, now) == flags \ {"UPDATE"} = Expected(was, now)

(* A frame Windows takes.                                                   *)
PenFrame(now) ==
    /\ os_pen' = now
    /\ misfit' = (misfit \/ ~Fits(pen_pointer_flags(last_pen, now), os_pen, now))

(* write_pen(flush, last_pen_eraser).  The state write_pen looks at is not  *)
(* changed by it.                                                           *)
FlushOldTool ==
    /\ pc = "flush" /\ pc' = "write"
    /\ PenFrame([Away EXCEPT !.eraser = last_pen.eraser])
    /\ flushed' = TRUE
    /\ UNCHANGED << sample, calls, vmulti, buttonVars, last_pen, last_touch_pos,
                    keys_down, os_touch, key_failed, pen_failed, failures >>

NewPen == [range |-> sample.range, contact |-> sample.contact, eraser |-> Eraser]

(* Fault: the range is remembered only when the pen leaves or touches.      *)
WritePenKeepsRange ==
    /\ pc = "write" /\ pc' = "idle" /\ sample' = NoSample
    /\ last_pen' = [NewPen EXCEPT !.range = last_pen.range \/ NewPen.contact]
    /\ pen_failed' = FALSE
    /\ IF vmulti THEN os_pen' = NewPen /\ UNCHANGED misfit
       ELSE IF ~last_pen.range /\ ~sample.range THEN UNCHANGED << os_pen, misfit >>
       ELSE PenFrame(NewPen)
    /\ UNCHANGED << calls, vmulti, buttonVars, last_touch_pos, keys_down,
                    os_touch, key_failed, failures, flushed >>

(* The sample: a VMulti report, nothing for a pen that stays away, or a     *)
(* synthetic frame.                                                         *)
WritePen ==
    /\ pc = "write" /\ pc' = "idle" /\ sample' = NoSample
    /\ last_pen' = NewPen
    /\ pen_failed' = FALSE
    /\ IF vmulti THEN os_pen' = NewPen /\ UNCHANGED misfit
       ELSE IF ~last_pen.range /\ ~sample.range THEN UNCHANGED << os_pen, misfit >>
       ELSE PenFrame(NewPen)
    /\ UNCHANGED << calls, vmulti, buttonVars, last_touch_pos, keys_down,
                    os_touch, key_failed, failures, flushed >>

WriteFails ==
    /\ pc \in {"flush", "write"}
    /\ vmulti \/ last_pen.range \/ sample.range
    /\ failures < MaxFailures /\ failures' = failures + 1
    /\ pc' = "idle" /\ sample' = NoSample /\ pen_failed' = TRUE
    /\ UNCHANGED << calls, vmulti, buttonVars, last_pen, last_touch_pos,
                    windowsVars, key_failed, flushed, misfit >>

-----------------------------------------------------------------------------
(* inject_touch: one frame for the whole snapshot, or nothing when there is *)
(* nothing to say.                                                          *)

TouchFrame(snapshot) ==
    {[id |-> i, op |-> IF i \in last_touch_pos THEN "UPDATE" ELSE "DOWN"] : i \in snapshot}
    \cup {[id |-> i, op |-> "UP"] : i \in last_touch_pos \ snapshot}

(* Windows takes an UPDATE or UP for a contact that is down and a DOWN for  *)
(* one that is not.                                                         *)
TouchFits(frame) == \A c \in frame : (c.op = "DOWN") = (c.id \notin os_touch)

AfterTouch(frame) ==
    (os_touch \cup {c.id : c \in frame}) \ {c.id : c \in {d \in frame : d.op = "UP"}}

(* Fault: the snapshot is remembered before the call.                       *)
TouchRemembersFirst(snapshot, ok) ==
    /\ pc = "idle"
    /\ snapshot # {} \/ last_touch_pos # {}
    /\ last_touch_pos' = snapshot
    /\ IF ok
       THEN /\ os_touch' = AfterTouch(TouchFrame(snapshot))
            /\ misfit' = (misfit \/ ~TouchFits(TouchFrame(snapshot)))
            /\ UNCHANGED failures
       ELSE /\ failures < MaxFailures /\ failures' = failures + 1
            /\ UNCHANGED << os_touch, misfit >>
    /\ UNCHANGED << handVars, vmulti, buttonVars, last_pen, keys_down, os_pen,
                    key_failed, pen_failed, flushed >>

InjectTouch(snapshot, ok) ==
    /\ pc = "idle"
    /\ snapshot # {} \/ last_touch_pos # {}
    /\ IF ok
       THEN /\ last_touch_pos' = snapshot
            /\ os_touch' = AfterTouch(TouchFrame(snapshot))
            /\ misfit' = (misfit \/ ~TouchFits(TouchFrame(snapshot)))
            /\ UNCHANGED failures
       ELSE /\ failures < MaxFailures /\ failures' = failures + 1
            /\ UNCHANGED << last_touch_pos, os_touch, misfit >>
    /\ UNCHANGED << handVars, vmulti, buttonVars, last_pen, keys_down, os_pen,
                    key_failed, pen_failed, flushed >>

-----------------------------------------------------------------------------
(* The keys the buttons in `bits' hold down.                                *)
Held(p, bits) ==
    UNION {{p[s].keys[i] : i \in DOMAIN p[s].keys} :
               s \in {t \in bits : p[t].kind \in Holding}}

(* Fault: the old profile's keys are not released.                          *)
SwapOnly(p, stuck) ==
    /\ pc = "idle" /\ stuck = {}
    /\ last_pen_buttons' = {} /\ pen_profile' = p
    /\ UNCHANGED << handVars, vmulti, pen_eraser_sticky, last_pen, last_touch_pos,
                    windowsVars, historyVars >>

(* set_pen_profile: release what the old profile holds (a failure is        *)
(* ignored, and counts as one here), then swap.                             *)
SetPenProfile(p, stuck) ==
    /\ pc = "idle"
    /\ stuck \subseteq Held(pen_profile, last_pen_buttons)
    /\ stuck # {} => failures < MaxFailures
    /\ failures' = IF stuck = {} THEN failures ELSE failures + 1
    /\ key_failed' = (key_failed \/ stuck # {})
    /\ keys_down' = keys_down \ (Held(pen_profile, last_pen_buttons) \ stuck)
    /\ last_pen_buttons' = {} /\ pen_profile' = p
    /\ UNCHANGED << handVars, vmulti, pen_eraser_sticky, last_pen, last_touch_pos,
                    os_pen, os_touch, pen_failed, flushed, misfit >>

(* Drop: Windows lifts the contacts of a destroyed device.  Keys are left   *)
(* as they are.                                                             *)
DropInjector ==
    /\ pc = "idle" /\ pc' = "dropped"
    /\ os_pen' = Away /\ os_touch' = {}
    /\ UNCHANGED << sample, calls, vmulti, buttonVars, last_pen, last_touch_pos,
                    keys_down, historyVars >>

Dropped == pc = "dropped" /\ UNCHANGED vars

Next ==
    \/ \E phase \in 0 .. 4, eraser \in BOOLEAN, buttons \in SUBSET Slots :
           ReadPen(phase, eraser, buttons)
    \/ SendCall \/ SendFails \/ Dispatched \/ FlushOldTool \/ WritePen \/ WriteFails
    \/ \E snapshot \in SUBSET TouchIds, ok \in BOOLEAN : InjectTouch(snapshot, ok)
    \/ \E p \in Profiles, stuck \in SUBSET Keys : SetPenProfile(p, stuck)
    \/ DropInjector \/ Dropped

Spec == Init /\ [][Next]_vars

-----------------------------------------------------------------------------
(* Properties.                                                              *)

(* Between two samples no key is down that a button held right now does not *)
(* account for, whatever the bindings share, as long as every SendInput was *)
(* taken: no stuck modifier after a release, a tap or a change of profile.  *)
NoStrayKey ==
    pc = "idle" /\ ~key_failed => keys_down \subseteq Held(pen_profile, last_pen_buttons)

(* Two buttons of the profile use a common key.                             *)
SharesKey(p) ==
    \E s, t \in Slots : s # t /\ \E i \in DOMAIN p[s].keys, j \in DOMAIN p[t].keys :
                                     p[s].keys[i] = p[t].keys[j]

(* binding.rs: "Hold one or more keys for the lifetime of the press."  When *)
(* no two buttons use the same key, what is down is exactly what the held   *)
(* buttons hold.                                                            *)
KeysFollowButtons ==
    pc = "idle" /\ ~key_failed /\ ~SharesKey(pen_profile)
        => keys_down = Held(pen_profile, last_pen_buttons)

(* After a sample whose frames were all taken, Windows believes of the pen  *)
(* what the injector will compare the next sample with; a sample lost to a  *)
(* failing button leaves the two in step.                                   *)
PenAgrees ==
    pc = "idle" /\ ~pen_failed =>
        /\ os_pen.range = last_pen.range /\ os_pen.contact = last_pen.contact
        /\ os_pen.range => os_pen.eraser = last_pen.eraser

(* The transition bits of every pen and touch frame fit what Windows has    *)
(* seen, until an eraser flush was written or a call has failed.            *)
FramesFit == misfit => flushed \/ failures > 0

(* The touch contacts Windows has down are those of the last snapshot it    *)
(* took, also when injections in between failed: no finger stays down.      *)
TouchAgrees == pc # "dropped" => os_touch = last_touch_pos

(* design.md:312 "emit one POINTER_UP / out-of-range frame first": on the   *)
(* synthetic pen the inverted bit never changes while the pen is in range,  *)
(* whichever of tool and toggle changes it and whichever call fails.        *)
EraserFlipsOutOfRange ==
    [][~vmulti /\ os_pen.range /\ os_pen'.range => os_pen'.eraser = os_pen.eraser]_vars

(* win_ink.rs:82 of last_pen_in_contact: "so we can emit the correct        *)
(* DOWN/UP/UPDATE transition bits".  Every frame fits as long as no call    *)
(* fails.                                                                   *)
TransitionBitsCorrect == failures = 0 => ~misfit

=============================================================================
