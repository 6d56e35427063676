--------------------------- MODULE EncoderContract ---------------------------
(***************************************************************************)
(* What the capture pipeline relies on when it uses an EncodeSession       *)
(* (encoder/mod.rs): a packet handed out by try_packet carries the time    *)
(* stamp of the oldest submitted frame that no earlier packet carried.     *)
(* Frames are numbered in submission order; the number stands for the      *)
(* frame's pts_ns.                                                         *)
(***************************************************************************)
EXTENDS Naturals, Sequences

VARIABLES
  submitted,   \* the number of frames submitted
  pending      \* the time stamps no packet has carried yet, oldest first

contractVars == <<submitted, pending>>

Init == submitted = 0 /\ pending = <<>>

SubmitFrame ==
  /\ submitted' = submitted + 1
  /\ pending' = Append(pending, submitted + 1)

HandOut ==
  /\ pending # <<>>
  /\ pending' = Tail(pending)
  /\ UNCHANGED submitted

Next == SubmitFrame \/ HandOut

Spec == Init /\ [][Next]_contractVars
=============================================================================
