-------------------------------- MODULE AnnexB --------------------------------
(***************************************************************************)
(* Annex-B byte streams, as the three walkers of the repository see them:  *)
(* the SPS patcher (sps_patcher.rs), the key-frame test of the encoder     *)
(* (mf.rs) and the NAL splitter that derives csd-0 (penflow-protocol).     *)
(* A byte string is a sequence of numbers; positions count from 1.         *)
(***************************************************************************)
EXTENDS Integers, Sequences, SequencesExt, FiniteSetsExt

At(bytes, i, code) ==
  /\ i + Len(code) - 1 <= Len(bytes)
  /\ SubSeq(bytes, i, i + Len(code) - 1) = code

Code4 == <<0, 0, 0, 1>>
Code3 == <<0, 0, 1>>

\* scan_start_code and the walkers' loops: the long code is tried first, and
\* the short code inside a long one is stepped over.
StartCodes(bytes) ==
  LET long == {i \in DOMAIN bytes : At(bytes, i, Code4)}
      short == {i \in DOMAIN bytes : At(bytes, i, Code3) /\ i - 1 \notin long}
  IN  [i \in long \cup short |-> IF i \in long THEN 4 ELSE 3]

HeaderLen(codec) == IF codec = "h264" THEN 1 ELSE 2

\* byte & 0x1F, (byte >> 1) & 0x3F
NalType(codec, byte) == IF codec = "h264" THEN byte % 32 ELSE (byte \div 2) % 64

\* split_nals: every start code with at least one byte after it.  A NAL runs to
\* the next start code; `body' is its first byte after the code.
NalEnd(bytes, codes, i) == Min({j - 1 : j \in {k \in DOMAIN codes : k > i}} \cup {Len(bytes)})
NalAt(codec, bytes, codes, i) ==
  [from |-> i,
   body |-> i + codes[i],
   last |-> NalEnd(bytes, codes, i),
   type |-> NalType(codec, bytes[i + codes[i]])]
NalsAt(codec, bytes, codes) ==
  LET starts == SetToSortSeq({i \in DOMAIN codes : i + codes[i] <= Len(bytes)}, <)
  IN  [k \in DOMAIN starts |-> NalAt(codec, bytes, codes, starts[k])]
SplitNals(codec, bytes) == NalsAt(codec, bytes, StartCodes(bytes))

\* extract_h264_nals, extract_hevc_nals: the kept NALs with their start codes.
ExtractNals(codec, bytes, keep) ==
  LET kept == SelectSeq(SplitNals(codec, bytes), LAMBDA n : n.type \in keep)
  IN  FlattenSeq([k \in DOMAIN kept |-> SubSeq(bytes, kept[k].from, kept[k].last)])

ParameterSets(codec) == IF codec = "h264" THEN {7, 8} ELSE {32, 33, 34}

IsVcl(codec, type) == IF codec = "h264" THEN type \in 1 .. 5 ELSE type \in 0 .. 31
IsIdr(codec, type) == IF codec = "h264" THEN type = 5 ELSE type \in 19 .. 21

\* first_nal_is_idr: the first slice decides.
FirstNalIsIdr(codec, bytes) ==
  LET slices == SelectSeq(SplitNals(codec, bytes), LAMBDA n : IsVcl(codec, n.type))
  IN  slices # <<>> /\ IsIdr(codec, Head(slices).type)

-----------------------------------------------------------------------------
(* Emulation prevention *)

RECURSIVE Unescape(_)
Unescape(ebsp) ==
  CASE ebsp = <<>> -> <<>>
    [] At(ebsp, 1, <<0, 0, 3>>) -> <<0, 0>> \o Unescape(SubSeq(ebsp, 4, Len(ebsp)))
    [] OTHER -> <<Head(ebsp)>> \o Unescape(Tail(ebsp))

NeedsEscape(rbsp) == Len(rbsp) >= 3 /\ rbsp[1] = 0 /\ rbsp[2] = 0 /\ rbsp[3] <= 3

\* Fault: only a start code is escaped, not a byte string that looks escaped.
RECURSIVE EscapeCodesOnly(_)
EscapeCodesOnly(rbsp) ==
  CASE rbsp = <<>> -> <<>>
    [] NeedsEscape(rbsp) /\ rbsp[3] < 3 ->
         <<0, 0, 3>> \o EscapeCodesOnly(SubSeq(rbsp, 3, Len(rbsp)))
    [] OTHER -> <<Head(rbsp)>> \o EscapeCodesOnly(Tail(rbsp))

RECURSIVE Escape(_)
Escape(rbsp) ==
  CASE rbsp = <<>> -> <<>>
    [] NeedsEscape(rbsp) -> <<0, 0, 3>> \o Escape(SubSeq(rbsp, 3, Len(rbsp)))
    [] OTHER -> <<Head(rbsp)>> \o Escape(Tail(rbsp))

-----------------------------------------------------------------------------
(* Exp-Golomb codes, as bit strings *)

RECURSIVE Log2(_)
Log2(n) == IF n = 1 THEN 0 ELSE 1 + Log2(n \div 2)

\* write_bits: most significant bit first.
WriteBits(v, n) == [i \in 1 .. n |-> (v \div 2 ^ (n - i)) % 2]

\* write_ue: as many zeros as the suffix has bits, a one, the suffix.
WriteUe(v) ==
  LET zeros == Log2(v + 1)
  IN  WriteBits(0, zeros) \o <<1>> \o WriteBits(v + 1 - 2 ^ zeros, zeros)

WriteSe(v) == WriteUe(IF v > 0 THEN 2 * v - 1 ELSE -v * 2)

ReadBits(bits) == FoldLeft(LAMBDA v, b : 2 * v + b, 0, bits)

\* read_ue: count zeros up to the first one, then read that many bits.  The
\* result is the value and the number of bits consumed.
ReadUe(bits) ==
  LET zeros == Min({i \in DOMAIN bits : bits[i] = 1}) - 1
  IN  [v |-> 2 ^ zeros - 1 + ReadBits(SubSeq(bits, zeros + 2, 2 * zeros + 1)),
       used |-> 2 * zeros + 1]

ReadSe(bits) ==
  LET code == ReadUe(bits).v
  IN  IF code % 2 = 1 THEN (code + 1) \div 2 ELSE -(code \div 2)

-----------------------------------------------------------------------------
(* patch_packet_for_low_latency_dpb *)

IsSps(codec, type) == type = IF codec = "h264" THEN 7 ELSE 33

\* Stands for the SPS rewriter, whose own work is in SpsPatcher: it shows what it
\* was given, behind the bytes `mark'.
Rewritten(mark, rbsp) == mark \o rbsp

\* Start code and NAL header stay; the body is unescaped, rewritten, escaped.
PatchNal(codec, bytes, nal, mark) ==
  LET header == nal.body + HeaderLen(codec) - 1
  IN  IF IsSps(codec, nal.type)
      THEN SubSeq(bytes, nal.from, header)
             \o Escape(Rewritten(mark, Unescape(SubSeq(bytes, header + 1, nal.last))))
      ELSE SubSeq(bytes, nal.from, nal.last)

\* What comes before the first start code is copied.  A NAL shorter than its
\* header ends the walk: it and all that follows are copied unpatched.
PatchAt(codec, bytes, codes, mark) ==
  LET short == {i \in DOMAIN codes : i + codes[i] + HeaderLen(codec) - 1 > NalEnd(bytes, codes, i)}
      rest == Min(short \cup {Len(bytes) + 1})
      nals == SelectSeq(NalsAt(codec, bytes, codes), LAMBDA n : n.from < rest)
  IN  SubSeq(bytes, 1, Min(DOMAIN codes \cup {Len(bytes) + 1}) - 1)
        \o FlattenSeq([k \in DOMAIN nals |-> PatchNal(codec, bytes, nals[k], mark)])
        \o SubSeq(bytes, rest, Len(bytes))
PatchPacket(codec, bytes, mark) == PatchAt(codec, bytes, StartCodes(bytes), mark)
=============================================================================
