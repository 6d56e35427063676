------------------------------ MODULE SpsPatcher ------------------------------
(***************************************************************************)
(* The SPS rewriter (encoder/sps_patcher.rs) on syntax elements: it reads  *)
(* element by element, writes most of them again, replaces the DPB, reorder*)
(* and colour fields, and gives up on structures it does not parse.        *)
(*                                                                         *)
(* A walk is a record: `in' is what is left to read, `out' what was        *)
(* written, `v' the last value read, `st' is "ok", "unsupported" (the code *)
(* returns Err) or "desync" (the code would read an element that is not    *)
(* there, so that every later bit is misread).  Bits inside an element are *)
(* the business of AnnexB.                                                 *)
(***************************************************************************)
EXTENDS SpsSyntax

Start(in) == [in |-> in, out |-> <<>>, v |-> 0, st |-> "ok"]

Read(s, d) ==
  CASE s.st # "ok" -> s
    [] s.st = "ok" /\ (s.in = <<>> \/ Head(s.in)[1] # d) -> [s EXCEPT !.st = "desync"]
    [] OTHER -> [s EXCEPT !.in = Tail(@), !.v = Head(s.in)[2]]

Write(s, elements) == IF s.st = "ok" THEN [s EXCEPT !.out = @ \o elements] ELSE s
Unsupported(s) == IF s.st = "ok" THEN [s EXCEPT !.st = "unsupported"] ELSE s

Skip(s, ds) == FoldLeft(Read, s, ds)
CopyOne(s, d) == LET t == Read(s, d) IN Write(t, <<<<d, t.v>>>>)
Copy(s, ds) == FoldLeft(CopyOne, s, ds)

\* The value just read, where the walk still goes on.
Got(s, v) == s.st = "ok" /\ s.v = v

CopyIf(s, v, ds) == IF Got(s, v) THEN Copy(s, ds) ELSE s
SkipIf(s, v, ds) == IF Got(s, v) THEN Skip(s, ds) ELSE s
UnsupportedIf(s, v) == IF Got(s, v) THEN Unsupported(s) ELSE s

CopyGuarded(s, ds) == CopyIf(Copy(s, <<U(1)>>), 1, ds)

-----------------------------------------------------------------------------
(* Parts shared by the two codecs *)

CopyAspectRatio(s) == CopyIf(CopyGuarded(s, <<U(8)>>), 255, <<U(16), U(16)>>)

\* write_full_range_bt709_video_signal_type
WriteSignal == <<u(1, 1), u(3, 5), u(1, 1), u(1, 1), u(8, 1), u(8, 1), u(8, 1)>>

\* The input's video_signal_type is read and dropped; ours is written.
ReplaceSignal(s) ==
  LET signal == SkipIf(Read(s, U(1)), 1, <<U(3), U(1), U(1)>>)
      colour == SkipIf(signal, 1, <<U(8), U(8), U(8)>>)
  IN  Write(colour, WriteSignal)

\* The VUI up to chroma_loc, where the two codecs agree.
CopyVuiHead(s) ==
  CopyGuarded(ReplaceSignal(CopyGuarded(CopyAspectRatio(s), <<U(1)>>)), <<UE, UE>>)

-----------------------------------------------------------------------------
(* H.264 *)

\* copy_h264_hrd_parameters, after cpb_cnt_minus1.
CopyCpbs(s) ==
  Copy(s, <<U(4), U(4)>> \o Times(s.v + 1, <<UE, UE, U(1)>>) \o <<U(5), U(5), U(5), U(5)>>)
CopyHrdIf(s) == IF Got(s, 1) THEN CopyCpbs(Copy(s, <<UE>>)) ELSE s

\* The low-delay flag follows when either block is there; the arguments are the
\* walk after each of the two presence flags.
CopyLowDelay(nal, vcl) ==
  IF Got(nal, 1) \/ Got(vcl, 1) THEN Copy(CopyHrdIf(vcl), <<U(1)>>) ELSE CopyHrdIf(vcl)
CopyHrds(nal) == CopyLowDelay(nal, Copy(CopyHrdIf(nal), <<U(1)>>))

WriteRestriction == <<u(1, 1), u(1, 1), ue(0), ue(0), ue(16), ue(16), ue(0), ue(1)>>

\* copy_h264_vui_with_patched_bitstream_restriction
CopyH264Vui(s) ==
  LET timing == CopyGuarded(CopyVuiHead(s), <<U(32), U(32), U(1)>>)
      hrds == CopyHrds(Copy(timing, <<U(1)>>))
      restriction == Read(Copy(hrds, <<U(1)>>), U(1))
  IN  Write(SkipIf(restriction, 1, <<U(1), UE, UE, UE, UE, UE, UE>>), WriteRestriction)

\* emit_minimal_h264_vui
MinimalH264Vui ==
  <<u(1, 0), u(1, 0)>> \o WriteSignal \o Times(5, <<u(1, 0)>>) \o WriteRestriction

CopyChromaIf(high, s) ==
  IF high
  THEN UnsupportedIf(Copy(CopyIf(Copy(s, <<UE>>), 3, <<U(1)>>), <<UE, UE, U(1), U(1)>>), 1)
  ELSE s

CopyCycle(s) == Copy(s, Times(s.v, <<SE>>))
CopyPicOrder(type) ==
  CASE Got(type, 0) -> Copy(type, <<UE>>)
    [] Got(type, 1) -> CopyCycle(Copy(type, <<U(1), SE, SE, UE>>))
    [] OTHER -> type

\* profile_idc, and whether the chroma block follows.
CopyProfile(s) ==
  CopyChromaIf(s.st = "ok" /\ s.v \in HighProfiles, Copy(s, <<U(8), U(8), UE>>))

\* A VUI is copied, or one is made up; `s' is the walk after the presence flag.
FinishH264(s) ==
  IF Got(s, 1) THEN CopyH264Vui(Write(s, <<u(1, 1)>>)) ELSE Write(s, <<u(1, 1)>> \o MinimalH264Vui)

\* patch_h264_sps_rbsp: what is left of the input after the VUI is not read.
PatchH264(in) ==
  LET profile == CopyProfile(Copy(Start(in), <<U(8)>>))
      order == CopyPicOrder(Copy(profile, <<UE, UE>>))
      refs == Write(Read(order, UE), <<ue(1)>>)
      field == CopyIf(Copy(refs, <<U(1), UE, UE, U(1)>>), 0, <<U(1)>>)
      crop == CopyGuarded(Copy(field, <<U(1)>>), <<UE, UE, UE, UE>>)
  IN  Write(FinishH264(Read(crop, U(1))), <<Trailing>>)

-----------------------------------------------------------------------------
(* H.265 *)

\* copy_hevc_profile_tier_level: the n pairs of flags are the last elements
\* written when the flagged parts are to be copied.
CopySubLayers(s, n) ==
  LET present(i) == s.out[Len(s.out) - 2 * n + i][2] = 1
      parts == FlattenSeq([i \in 1 .. n |->
                 Opt(present(2 * i - 1), <<U(88)>>) \o Opt(present(2 * i), <<U(8)>>)])
  IN  IF s.st # "ok" THEN s ELSE Copy(s, Times(IF n > 0 THEN 8 - n ELSE 0, <<U(2)>>) \o parts)
CopyProfileTierLevel(s, n) ==
  CopySubLayers(Copy(s, <<U(8), U(32), U(56)>> \o Times(2 * n, <<U(1)>>)), n)

\* `s' is the walk after sps_max_sub_layers_minus1.
CopyToPocBits(s) ==
  LET ptl == CopyProfileTierLevel(Copy(s, <<U(1)>>), s.v)
      plane == CopyIf(Copy(ptl, <<UE, UE>>), 3, <<U(1)>>)
      window == CopyGuarded(Copy(plane, <<UE, UE>>), <<UE, UE, UE, UE>>)
  IN  Copy(window, <<UE, UE, UE>>)

SubLayers(in) == Copy(Start(in), <<U(4), U(3)>>)
PocBits(in) == CopyToPocBits(SubLayers(in)).v + 4

ReplaceDpb(s, d) == Write(Read(s, d), <<ue(0)>>)

\* Fault: one triplet is rewritten whatever the flag says.
ReplaceDpbsOnce(s, layers) == FoldLeft(ReplaceDpb, s, <<UE, UE, UE>>)

\* The triplets of all sub-layers, or only of the top one.
ReplaceDpbs(s, layers) ==
  FoldLeft(ReplaceDpb, s, Times(IF Got(s, 1) THEN layers + 1 ELSE 1, <<UE, UE, UE>>))

\* walk_hevc_sps_through_dpb
WalkThroughDpb(in) ==
  ReplaceDpbs(Copy(CopyToPocBits(SubLayers(in)), <<U(1)>>), SubLayers(in).v)

\* One entry of a predicted set: `n' counts those the decoder keeps.
Keep(s, n) == [s |-> s, n |-> n + IF Got(s, 1) THEN 1 ELSE 0]
CopyUsed(s, n) == IF Got(s, 0) THEN Keep(Copy(s, <<U(1)>>), n) ELSE [s |-> s, n |-> n + 1]
CopyPredicted(t, i) == CopyUsed(Copy(t.s, <<U(1)>>), t.n)

CopyExplicit(neg, pos) ==
  [s |-> Copy(pos, Times(neg.v + pos.v, <<UE, U(1)>>)), n |-> neg.v + pos.v]
CopyNegPos(neg) == CopyExplicit(neg, Copy(neg, <<UE>>))

\* copy_hevc_st_ref_pic_set, after the flag: n is NumDeltaPocs of the set before.
CopySetBody(flag, n) ==
  CASE flag.st # "ok" -> [s |-> flag, n |-> 0]
    [] Got(flag, 1) ->
         FoldLeft(CopyPredicted, [s |-> Copy(flag, <<U(1), UE>>), n |-> 0], [j \in 1 .. n + 1 |-> j])
    [] OTHER -> CopyNegPos(Copy(flag, <<UE>>))
CopyRefPicSet(t, i) ==
  CopySetBody(IF i > 1 THEN Copy(t.s, <<U(1)>>) ELSE [t.s EXCEPT !.v = 0], t.n)
CopyRefPicSets(s) ==
  FoldLeft(CopyRefPicSet, [s |-> s, n |-> 0], [i \in 1 .. IF s.st = "ok" THEN s.v ELSE 0 |-> i]).s

\* `s' is the walk after the presence flag of the timing information.
CopyHevcTiming(s) ==
  IF Got(s, 1)
  THEN Write(UnsupportedIf(Read(CopyGuarded(Copy(s, <<U(32), U(32)>>), <<UE>>), U(1)), 1), <<u(1, 0)>>)
  ELSE s

\* copy_hevc_vui_with_full_range_bt709
CopyHevcVui(s) ==
  LET window == CopyGuarded(Copy(CopyVuiHead(s), <<U(1), U(1), U(1)>>), <<UE, UE, UE, UE>>)
      timing == CopyHevcTiming(Copy(window, <<U(1)>>))
  IN  CopyGuarded(timing, <<U(1), U(1), U(1), UE, UE, UE, UE, UE>>)

\* emit_minimal_hevc_vui
MinimalHevcVui == <<u(1, 0), u(1, 0)>> \o WriteSignal \o Times(7, <<u(1, 0)>>)

FinishHevc(s) ==
  IF Got(s, 1) THEN CopyHevcVui(Write(s, <<u(1, 1)>>)) ELSE Write(s, <<u(1, 1)>> \o MinimalHevcVui)

\* Scaling lists are not parsed, only the flags that announce them.
CopyScalingFlags(s) == IF Got(s, 1) THEN UnsupportedIf(Copy(s, <<U(1)>>), 1) ELSE s

\* The number of long-term pictures was read last.
CopyTerms(s, bits) == Copy(s, Times(IF s.st = "ok" THEN s.v ELSE 0, <<U(bits), U(1)>>))
CopyLongTerm(s, bits) == IF Got(s, 1) THEN CopyTerms(Copy(s, <<UE>>), bits) ELSE s

\* patch_hevc_sps_full
PatchHevcFull(in) ==
  LET scaling == CopyScalingFlags(Copy(WalkThroughDpb(in), Times(6, <<UE>>) \o <<U(1)>>))
      pcm == CopyGuarded(Copy(scaling, <<U(1), U(1)>>), <<U(4), U(4), UE, UE, U(1)>>)
      sets == CopyRefPicSets(Copy(pcm, <<UE>>))
      terms == CopyLongTerm(Copy(sets, <<U(1)>>), PocBits(in))
      vui == FinishHevc(Read(Copy(terms, <<U(1), U(1)>>), U(1)))
  IN  Write(UnsupportedIf(Read(vui, U(1)), 1), <<u(1, 0), Trailing>>)

\* patch_hevc_sps_dpb_only: the tail is copied, trailing bits included.
CopyRest(s) == [Write(s, s.in) EXCEPT !.in = <<>>]
PatchHevcDpbOnly(in) == CopyRest(WalkThroughDpb(in))

\* patch_hevc_sps_rbsp: any error of the full walk takes the fallback.
OkOrElse(s, fallback) == IF s.st = "ok" THEN s ELSE fallback
PatchHevc(in) == OkOrElse(PatchHevcFull(in), PatchHevcDpbOnly(in))

-----------------------------------------------------------------------------
(* What the patcher is to do, in terms of the syntax tables *)

OurRestriction == [over |-> 1, bytes |-> 0, bits |-> 0, mv |-> 16, reorder |-> 0, buffering |-> 1]

EmptyH264Vui ==
  [aspect |-> 0, overscan |-> FALSE, signal |-> NoSignal, chroma_loc |-> FALSE, timing |-> FALSE,
   nal_hrd |-> -1, vcl_hrd |-> -1, pic_struct |-> 0, restriction |-> <<>>]

EmptyHevcVui ==
  [aspect |-> 0, overscan |-> FALSE, signal |-> NoSignal, chroma_loc |-> FALSE, neutral |-> 0,
   field_seq |-> 0, field_info |-> 0, window |-> FALSE, timing |-> "none", hrd |-> FALSE,
   restriction |-> FALSE]

VuiOf(r, empty) == IF r.vui = <<>> THEN empty ELSE r.vui[1]

WantedH264(r) ==
  [r EXCEPT !.refs = 1,
            !.vui = <<[VuiOf(r, EmptyH264Vui) EXCEPT !.signal = FullRangeBt709,
                                                     !.restriction = <<OurRestriction>>]>>]

\* Structures the full walk does not parse; then the colour block stays.
HevcUnparsed(r) ==
  \/ r.scaling = "lists"
  \/ r.vui # <<>> /\ r.vui[1].timing # "none" /\ r.vui[1].hrd
  \/ r.extension

WantedHevc(r) ==
  LET dpb == [r EXCEPT !.dpb = <<0, 0, 0>>]
  IN  IF HevcUnparsed(r) THEN dpb
      ELSE [dpb EXCEPT !.vui = <<[VuiOf(r, EmptyHevcVui) EXCEPT !.signal = FullRangeBt709]>>]
=============================================================================
