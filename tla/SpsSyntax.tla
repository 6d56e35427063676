------------------------------ MODULE SpsSyntax ------------------------------
(***************************************************************************)
(* The sequence parameter sets that an encoder may emit: the syntax tables *)
(* of H.264 (7.3.2.1.1, E.1.1, E.1.2) and H.265 (7.3.2.2.1, 7.3.3, 7.3.7,  *)
(* E.2.1), which the patcher names in its comments.  They are external to  *)
(* the repository and serve as the reference for SpsPatcher.               *)
(*                                                                         *)
(* An SPS is a sequence of syntax elements <<descriptor, value>>.  An      *)
(* element that only has to be carried through has its name as its value;  *)
(* the elements that decide what follows are numbers.                      *)
(***************************************************************************)
EXTENDS Integers, Sequences, SequencesExt

U(n) == <<"u", n>>
UE == <<"ue", 0>>
SE == <<"se", 0>>

u(n, v) == <<U(n), v>>
ue(v) == <<UE, v>>
se(v) == <<SE, v>>

Trailing == <<<<"trailing", 0>>, 1>>    \* rbsp_trailing_bits

Opt(b, elements) == IF b THEN elements ELSE <<>>
Flag(b) == u(1, IF b THEN 1 ELSE 0)
Guarded(b, elements) == <<Flag(b)>> \o Opt(b, elements)
Times(n, elements) == FlattenSeq([i \in 1 .. n |-> elements])

\* Profiles whose SPS carries the chroma block.
HighProfiles == {100, 110, 122, 244, 44, 83, 86, 118, 128, 138, 139, 134, 135}

-----------------------------------------------------------------------------
(* What H.264 and H.265 share of the VUI *)

\* aspect: the aspect_ratio_idc, or 0 for an absent block.
AspectRatio(idc) ==
  Guarded(idc # 0, <<u(8, idc)>> \o Opt(idc = 255, <<u(16, "sar_width"), u(16, "sar_height")>>))

\* The colour block: absent, without or with a colour description.
NoSignal == <<Flag(FALSE)>>
Signal(format, full_range, colour) ==
  <<Flag(TRUE), u(3, format), u(1, full_range)>> \o Guarded(colour # <<>>, colour)

\* The block the decoder is to see: full range, BT.709.
FullRangeBt709 == Signal(5, 1, <<u(8, 1), u(8, 1), u(8, 1)>>)

-----------------------------------------------------------------------------
(* H.264 *)

\* hrd: -1 for an absent block, else cpb_cnt_minus1.
Hrd(n) ==
  <<ue(n), u(4, "bit_rate_scale"), u(4, "cpb_size_scale")>>
    \o Times(n + 1, <<ue("bit_rate"), ue("cpb_size"), u(1, "cbr")>>)
    \o <<u(5, "initial_delay"), u(5, "removal_delay"), u(5, "output_delay"), u(5, "time_offset")>>

Restriction(r) ==
  <<u(1, r.over), ue(r.bytes), ue(r.bits), ue(r.mv), ue(r.mv), ue(r.reorder), ue(r.buffering)>>

H264Vui(v) ==
  AspectRatio(v.aspect)
    \o Guarded(v.overscan, <<u(1, "overscan_appropriate")>>)
    \o v.signal
    \o Guarded(v.chroma_loc, <<ue("chroma_loc_top"), ue("chroma_loc_bottom")>>)
    \o Guarded(v.timing, <<u(32, "units_in_tick"), u(32, "time_scale"), u(1, "fixed_rate")>>)
    \o Guarded(v.nal_hrd >= 0, Hrd(v.nal_hrd))
    \o Guarded(v.vcl_hrd >= 0, Hrd(v.vcl_hrd))
    \o Opt(v.nal_hrd >= 0 \/ v.vcl_hrd >= 0, <<u(1, "low_delay")>>)
    \o <<u(1, v.pic_struct)>>
    \o Guarded(v.restriction # <<>>, FlattenSeq([i \in DOMAIN v.restriction |-> Restriction(v.restriction[i])]))

\* vui is <<>> when absent, else <<the VUI>>.
H264Sps(r) ==
  <<u(8, r.profile), u(8, "constraint_flags"), u(8, "level_idc"), ue("sps_id")>>
    \o Opt(r.profile \in HighProfiles,
           <<ue(r.chroma)>> \o Opt(r.chroma = 3, <<u(1, "separate_plane")>>)
             \o <<ue("depth_luma"), ue("depth_chroma"), u(1, "bypass")>>
             \o Guarded(r.scaling, <<u(1, "scaling_list")>>))
    \o <<ue("log2_max_frame_num"), ue(r.poc_type)>>
    \o (CASE r.poc_type = 0 -> <<ue("log2_max_poc_lsb")>>
          [] r.poc_type = 1 -> <<u(1, "always_zero"), se("non_ref"), se("top_to_bottom"), ue(r.cycle)>>
                                 \o Times(r.cycle, <<se("ref_frame")>>)
          [] OTHER -> <<>>)
    \o <<ue(r.refs), u(1, "gaps"), ue("width"), ue("height"), Flag(r.mbs_only)>>
    \o Opt(~r.mbs_only, <<u(1, "mbaff")>>)
    \o <<u(1, "direct_8x8")>>
    \o Guarded(r.crop, Times(4, <<ue("crop")>>))
    \o Guarded(r.vui # <<>>, FlattenSeq([i \in DOMAIN r.vui |-> H264Vui(r.vui[i])]))
    \o <<Trailing>>

-----------------------------------------------------------------------------
(* H.265 *)

\* layers: one record [profile, level] of presence flags per sub-layer below the top.
ProfileTierLevel(layers) ==
  <<u(8, "profile"), u(32, "compatibility"), u(56, "constraints_and_level")>>
    \o FlattenSeq([i \in DOMAIN layers |-> <<Flag(layers[i].profile), Flag(layers[i].level)>>])
    \o Opt(layers # <<>>, Times(8 - Len(layers), <<u(2, "reserved")>>))
    \o FlattenSeq([i \in DOMAIN layers |->
         Opt(layers[i].profile, <<u(88, "layer_profile")>>)
           \o Opt(layers[i].level, <<u(8, "layer_level")>>)])

\* A reference picture set is explicit, [neg, pos], or predicted from the one
\* before it, [used]: per entry 1 (used), 2 (unused but kept) or 3 (dropped).
\* An encoder predicts with one entry more than the earlier set has.
Deltas(rps) ==
  IF "used" \in DOMAIN rps
  THEN Len(SelectSeq(rps.used, LAMBDA x : x < 3))
  ELSE rps.neg + rps.pos

RefPicSet(i, rps) ==
  Opt(i > 1, <<Flag("used" \in DOMAIN rps)>>)
    \o IF "used" \in DOMAIN rps
       THEN <<u(1, "delta_rps_sign"), ue("abs_delta_rps")>>
              \o FlattenSeq([j \in DOMAIN rps.used |->
                   <<Flag(rps.used[j] = 1)>> \o Opt(rps.used[j] # 1, <<Flag(rps.used[j] = 2)>>)])
       ELSE <<ue(rps.neg), ue(rps.pos)>>
              \o Times(rps.neg, <<ue("delta_poc_s0"), u(1, "used_s0")>>)
              \o Times(rps.pos, <<ue("delta_poc_s1"), u(1, "used_s1")>>)

HevcVui(v) ==
  AspectRatio(v.aspect)
    \o Guarded(v.overscan, <<u(1, "overscan_appropriate")>>)
    \o v.signal
    \o Guarded(v.chroma_loc, <<ue("chroma_loc_top"), ue("chroma_loc_bottom")>>)
    \o <<u(1, v.neutral), u(1, v.field_seq), u(1, v.field_info)>>
    \o Guarded(v.window, Times(4, <<ue("display_window")>>))
    \o Guarded(v.timing # "none",
         <<u(32, "units_in_tick"), u(32, "time_scale")>>
           \o Guarded(v.timing = "poc", <<ue("ticks_poc_diff_one")>>)
           \o Guarded(v.hrd, <<u(1, "hrd_parameters")>>))
    \o Guarded(v.restriction,
         <<u(1, "tiles_fixed"), u(1, "mv_over"), u(1, "restricted_lists"), ue("min_segment"),
           ue("max_bytes"), ue("max_bits"), ue("mv_horizontal"), ue("mv_vertical")>>)

\* ordering: TRUE when the DPB triplet is given for every sub-layer; scaling is
\* "off", "default" or "lists"; lt is -1 or the number of long-term pictures.
HevcSps(r) ==
  <<u(4, "vps_id"), u(3, Len(r.layers)), u(1, "nesting")>>
    \o ProfileTierLevel(r.layers)
    \o <<ue("sps_id"), ue(r.chroma)>> \o Opt(r.chroma = 3, <<u(1, "separate_plane")>>)
    \o <<ue("width"), ue("height")>>
    \o Guarded(r.window, Times(4, <<ue("conformance_window")>>))
    \o <<ue("depth_luma"), ue("depth_chroma"), ue(r.log2_poc), Flag(r.ordering)>>
    \o Times(IF r.ordering THEN Len(r.layers) + 1 ELSE 1, [i \in 1 .. 3 |-> ue(r.dpb[i])])
    \o Times(6, <<ue("block_sizes")>>)
    \o Guarded(r.scaling # "off", Guarded(r.scaling = "lists", <<u(1, "scaling_list")>>))
    \o <<u(1, "amp"), u(1, "sao")>>
    \o Guarded(r.pcm, <<u(4, "pcm_luma"), u(4, "pcm_chroma"), ue("pcm_min"), ue("pcm_diff"), u(1, "pcm_filter")>>)
    \o <<ue(Len(r.rps))>> \o FlattenSeq([i \in DOMAIN r.rps |-> RefPicSet(i, r.rps[i])])
    \o Guarded(r.lt >= 0, <<ue(r.lt)>> \o Times(r.lt, <<u(r.log2_poc + 4, "lt_poc"), u(1, "lt_used")>>))
    \o <<u(1, "temporal_mvp"), u(1, "strong_intra")>>
    \o Guarded(r.vui # <<>>, FlattenSeq([i \in DOMAIN r.vui |-> HevcVui(r.vui[i])]))
    \o Guarded(r.extension, <<u(8, "extension")>>)
    \o <<Trailing>>
=============================================================================
