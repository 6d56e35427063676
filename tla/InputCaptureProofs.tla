------------------------- MODULE InputCaptureProofs -------------------------
(***************************************************************************)
(* Proofs about module InputCapture: pen and touch stay in step with the   *)
(* tablet, for any sets of fingers and palms and any number of pointers.   *)
(*                                                                         *)
(* What makes InputInStep inductive is that the pointers of a gesture are  *)
(* distinct (findPenIndex is then the index of the pen, and a lift removes *)
(* exactly the pointer that was lifted) and that the pen does not hover    *)
(* while it touches (Exclusive).                                           *)
(***************************************************************************)
EXTENDS InputCapture, SequenceTheorems, TLAPS

Pointers == Fingers \cup Palms \cup {"pen"}

\* One pen: it touches or hovers.
Exclusive == hover \in BOOLEAN /\ ~(PenDown /\ hover)

Inv == gesture \in Seq(Pointers) /\ TypeOK /\ Exclusive /\ InputInStep

-----------------------------------------------------------------------------
(* Gestures.                                                                *)

LEMMA InsertOK ==
  ASSUME NEW S, NEW g \in Seq(S), NEW p \in S, NEW i \in 1 .. Len(g) + 1
  PROVE  /\ InsertAt(g, i, p) \in Seq(S) /\ DOMAIN InsertAt(g, i, p) = 1 .. Len(g) + 1
         /\ Len(InsertAt(g, i, p)) = Len(g) + 1
         /\ InsertAt(g, i, p)[i] = p
         /\ \A j \in 1 .. Len(g) : j < i => InsertAt(g, i, p)[j] = g[j]
         /\ \A j \in 1 .. Len(g) : j >= i => InsertAt(g, i, p)[j + 1] = g[j]
<1> DEFINE a == SubSeq(g, 1, i - 1)
           b == SubSeq(g, i, Len(g))
           c == a \o <<p>>
<1>0. Len(g) \in Nat /\ i \in Nat /\ DOMAIN g = 1 .. Len(g)
  OBVIOUS
<1>1. a \in Seq(S) /\ Len(a) = i - 1 /\ \A j \in 1 .. i - 1 : a[j] = g[j]
  BY <1>0, SubSeqProperties
<1>2. b \in Seq(S) /\ Len(b) = Len(g) - i + 1 /\ \A j \in 1 .. Len(g) - i + 1 : b[j] = g[i + j - 1]
  BY <1>0, SubSeqProperties
<1>3. InsertAt(g, i, p) = c \o b
  BY DEF InsertAt
<1> HIDE DEF a, b
<1>4. c \in Seq(S) /\ Len(c) = i /\ c[i] = p /\ \A j \in 1 .. i - 1 : c[j] = g[j]
  BY <1>0, <1>1
<1> HIDE DEF c
<1>5. /\ c \o b \in Seq(S) /\ Len(c \o b) = Len(g) + 1
      /\ \A j \in 1 .. Len(g) + 1 : (c \o b)[j] = IF j <= i THEN c[j] ELSE b[j - i]
  BY <1>0, <1>2, <1>4, ConcatProperties
<1>6. \A j \in 1 .. Len(g) : j >= i => (c \o b)[j + 1] = g[j]
  <2> SUFFICES ASSUME NEW j \in 1 .. Len(g), j >= i PROVE (c \o b)[j + 1] = g[j]
    OBVIOUS
  <2>1. (c \o b)[j + 1] = b[j + 1 - i]
    BY <1>0, <1>5
  <2>2. j + 1 - i \in 1 .. Len(g) - i + 1 /\ i + (j + 1 - i) - 1 = j
    BY <1>0
  <2> QED
    BY <1>2, <2>1, <2>2
<1> QED
  BY <1>0, <1>3, <1>4, <1>5, <1>6

LEMMA RemoveOK ==
  ASSUME NEW S, NEW g \in Seq(S), NEW i \in DOMAIN g
  PROVE  /\ RemoveAt(g, i) \in Seq(S) /\ Len(RemoveAt(g, i)) = Len(g) - 1
         /\ \A j \in 1 .. Len(g) - 1 : RemoveAt(g, i)[j] = IF j < i THEN g[j] ELSE g[j + 1]
<1> DEFINE a == SubSeq(g, 1, i - 1)
           b == SubSeq(g, i + 1, Len(g))
<1>0. Len(g) \in Nat /\ i \in Nat /\ DOMAIN g = 1 .. Len(g) /\ i \in 1 .. Len(g)
  OBVIOUS
<1>1. a \in Seq(S) /\ Len(a) = i - 1 /\ \A j \in 1 .. i - 1 : a[j] = g[j]
  BY <1>0, SubSeqProperties
<1>2. b \in Seq(S) /\ Len(b) = Len(g) - i /\ \A j \in 1 .. Len(g) - i : b[j] = g[i + j]
  BY <1>0, SubSeqProperties
<1>3. RemoveAt(g, i) = a \o b
  BY DEF RemoveAt
<1> HIDE DEF a, b
<1>4. /\ a \o b \in Seq(S) /\ Len(a \o b) = Len(g) - 1
      /\ \A j \in 1 .. Len(g) - 1 : (a \o b)[j] = IF j <= i - 1 THEN a[j] ELSE b[j - (i - 1)]
  <2>1. /\ a \o b \in Seq(S) /\ Len(a \o b) = Len(a) + Len(b)
        /\ \A j \in 1 .. Len(a) + Len(b) :
             (a \o b)[j] = IF j <= Len(a) THEN a[j] ELSE b[j - Len(a)]
    BY <1>1, <1>2, ConcatProperties
  <2>2. Len(a) + Len(b) = Len(g) - 1 /\ Len(a) = i - 1
    BY <1>0, <1>1, <1>2
  <2> QED
    BY <2>1, <2>2
<1>5. ASSUME NEW j \in 1 .. Len(g) - 1
      PROVE  (a \o b)[j] = IF j < i THEN g[j] ELSE g[j + 1]
  <2>1. CASE j < i
    BY <1>0, <1>1, <1>4, <2>1
  <2>2. CASE ~(j < i)
    <3>1. (a \o b)[j] = b[j - (i - 1)]
      BY <1>0, <1>4, <2>2
    <3>2. j - (i - 1) \in 1 .. Len(g) - i /\ i + (j - (i - 1)) = j + 1
      BY <1>0, <2>2
    <3> QED
      BY <1>2, <2>2, <3>1, <3>2
  <2> QED
    BY <2>1, <2>2
<1> QED
  BY <1>3, <1>4, <1>5

(* A pointer that lands at any index.                                       *)
LEMMA Landed ==
  ASSUME NEW g \in Seq(Pointers), IsInjective(g), NEW p \in Pointers, p \notin Range(g),
         NEW i \in 1 .. Len(g) + 1, NEW h, h = InsertAt(g, i, p)
  PROVE  /\ h \in Seq(Pointers) /\ IsInjective(h) /\ Range(h) = Range(g) \cup {p}
         /\ i \in DOMAIN h /\ h[i] = p /\ Len(h) = Len(g) + 1
<1>0. Len(g) \in Nat /\ i \in Nat /\ DOMAIN g = 1 .. Len(g)
  OBVIOUS
<1>1. /\ h \in Seq(Pointers) /\ Len(h) = Len(g) + 1 /\ DOMAIN h = 1 .. Len(g) + 1 /\ h[i] = p
      /\ \A j \in 1 .. Len(g) : j < i => h[j] = g[j]
      /\ \A j \in 1 .. Len(g) : j >= i => h[j + 1] = g[j]
  BY InsertOK
<1> DEFINE back(j) == IF j < i THEN j ELSE j - 1
<1>2. \A j \in DOMAIN h : j # i => back(j) \in DOMAIN g /\ h[j] = g[back(j)]
  <2> SUFFICES ASSUME NEW j \in 1 .. Len(g) + 1, j # i
               PROVE  back(j) \in 1 .. Len(g) /\ h[j] = g[back(j)]
    BY <1>0, <1>1
  <2>1. CASE j < i
    BY <1>0, <1>1, <2>1
  <2>2. CASE ~(j < i)
    <3>1. j - 1 \in 1 .. Len(g) /\ j - 1 >= i /\ (j - 1) + 1 = j
      BY <1>0, <2>2
    <3> QED
      BY <1>1, <2>2, <3>1
  <2> QED
    BY <2>1, <2>2
<1>3. \A j \in DOMAIN g : \E k \in DOMAIN h : h[k] = g[j]
  <2> SUFFICES ASSUME NEW j \in 1 .. Len(g) PROVE \E k \in 1 .. Len(g) + 1 : h[k] = g[j]
    BY <1>0, <1>1
  <2>1. j \in 1 .. Len(g) + 1 /\ j + 1 \in 1 .. Len(g) + 1 /\ (j < i \/ j >= i)
    BY <1>0
  <2> QED
    BY <1>1, <2>1
<1>4. Range(h) = Range(g) \cup {p}
  <2> HIDE DEF back
  <2>1. \A j \in DOMAIN h : h[j] \in Range(g) \cup {p}
    BY <1>1, <1>2 DEF Range
  <2>2. i \in DOMAIN h /\ h[i] = p
    BY <1>0, <1>1
  <2> QED
    BY <1>3, <2>1, <2>2 DEF Range
<1>5. \A j \in DOMAIN h : h[j] = p => j = i
  BY <1>2 DEF Range
<1>6. IsInjective(h)
  <2> SUFFICES ASSUME NEW j \in DOMAIN h, NEW k \in DOMAIN h, h[j] = h[k] PROVE j = k
    BY DEF IsInjective
  <2>1. CASE j = i \/ k = i
    BY <1>1, <1>5, <2>1
  <2>2. CASE j # i /\ k # i
    <3>1. back(j) = back(k)
      BY <1>2, <2>2 DEF IsInjective
    <3>2. j \in Int /\ k \in Int
      BY <1>0, <1>1
    <3> QED
      BY <1>0, <2>2, <3>1, <3>2
  <2> QED
    BY <2>1, <2>2
<1> QED
  BY <1>1, <1>4, <1>6

(* A pointer that is lifted.                                                *)
LEMMA Lifted ==
  ASSUME NEW g \in Seq(Pointers), IsInjective(g), NEW i \in DOMAIN g,
         NEW h, h = RemoveAt(g, i)
  PROVE  h \in Seq(Pointers) /\ IsInjective(h) /\ Range(h) = Range(g) \ {g[i]}
<1>0. Len(g) \in Nat /\ i \in 1 .. Len(g) /\ DOMAIN g = 1 .. Len(g)
  OBVIOUS
<1> DEFINE from(j) == IF j < i THEN j ELSE j + 1
<1>1. /\ h \in Seq(Pointers) /\ DOMAIN h = 1 .. Len(g) - 1
      /\ \A j \in DOMAIN h : h[j] = g[from(j)]
  BY <1>0, RemoveOK
<1>2. \A j \in DOMAIN h : from(j) \in DOMAIN g /\ from(j) # i
  BY <1>0, <1>1
<1>3. \A k \in DOMAIN g : k # i => \E j \in DOMAIN h : from(j) = k
  <2> SUFFICES ASSUME NEW k \in 1 .. Len(g), k # i
               PROVE  \E j \in 1 .. Len(g) - 1 : from(j) = k
    BY <1>0, <1>1
  <2>1. CASE k < i
    <3>1. k \in 1 .. Len(g) - 1 /\ from(k) = k
      BY <1>0, <2>1
    <3> QED
      BY <3>1
  <2>2. CASE ~(k < i)
    <3>1. k - 1 \in 1 .. Len(g) - 1 /\ from(k - 1) = k
      BY <1>0, <2>2
    <3> QED
      BY <3>1
  <2> QED
    BY <2>1, <2>2
<1>4. Range(h) = Range(g) \ {g[i]}
  <2> HIDE DEF from
  <2>1. \A j \in DOMAIN h : h[j] \in Range(g) \ {g[i]}
    BY <1>1, <1>2 DEF Range, IsInjective
  <2>2. \A k \in DOMAIN g : g[k] # g[i] => \E j \in DOMAIN h : h[j] = g[k]
    BY <1>1, <1>3
  <2> QED
    BY <2>1, <2>2 DEF Range
<1>5. IsInjective(h)
  <2> SUFFICES ASSUME NEW j \in DOMAIN h, NEW k \in DOMAIN h, h[j] = h[k] PROVE j = k
    BY DEF IsInjective
  <2>1. from(j) = from(k)
    BY <1>1, <1>2 DEF IsInjective
  <2>2. j \in Int /\ k \in Int
    BY <1>0, <1>1
  <2> QED
    BY <1>0, <2>1, <2>2
<1> QED
  BY <1>1, <1>4, <1>5

(* findPenIndex is the index of the pen, if there is one.                   *)
LEMMA PenIndex ==
  ASSUME NEW g \in Seq(Pointers), IsInjective(g), NEW ev, ev.pointers = g
  PROVE  /\ "pen" \notin Range(g) => FindPenIndex(ev) = 0
         /\ \A k \in DOMAIN g : g[k] = "pen" => FindPenIndex(ev) = k /\ k # 0
<1> DEFINE I == {j \in 1 .. Len(g) : g[j] = "pen"}
<1>1. FindPenIndex(ev) = IF I # {} THEN Min(I) ELSE 0
  BY DEF FindPenIndex, SelectInSeq
<1>2. DOMAIN g = 1 .. Len(g) /\ Len(g) \in Nat
  OBVIOUS
<1>3. "pen" \notin Range(g) => I = {}
  BY <1>2 DEF Range
<1>4. ASSUME NEW k \in DOMAIN g, g[k] = "pen" PROVE I # {} /\ Min(I) = k /\ k # 0
  <2>1. I = {k}
    BY <1>2, <1>4 DEF IsInjective
  <2>2. k \in Int /\ k # 0
    BY <1>2
  <2>3. Min(I) = k
    BY <2>1, <2>2 DEF Min
  <2> QED
    BY <2>1, <2>2, <2>3
<1> QED
  BY <1>1, <1>3, <1>4

-----------------------------------------------------------------------------
(* Events.                                                                  *)

LEMMA EventOK ==
  ASSUME NEW a, NEW i, NEW g, NEW ev \in Event(a, i, g)
  PROVE  /\ ev.action = a /\ ev.index = i /\ ev.pointers = g
         /\ ev.in \subseteq Range(g)
BY DEF Event

PenType == [range : BOOLEAN, contact : BOOLEAN, eraser : BOOLEAN, buttons : SUBSET (1 .. 3)]

(* What PenConsume does with an event of phase ph.                          *)
LEMMA PenConsumed ==
  ASSUME TypeOK, NEW ev, PenConsume(ev), NEW ph, ph = MapPhase(ev, FindPenIndex(ev))
  PROVE  /\ pc_pen' \in PenType
         /\ last_pen' \in {"none", "sent", "dropped", "button"}
         /\ last_pen' = "sent" =>
              /\ pc_pen'.contact <=> ph \in {1, 2}
              /\ pc_pen'.range <=> ph # 4
              /\ pc_pen'.eraser <=> tool = "eraser"
         /\ ev.action = "BUTTON" /\ hover => last_pen' # "sent"
         /\ pc_touch' = pc_touch
         /\ last_touch' = IF Len(ev.pointers) > 1 THEN "missed" ELSE last_touch
<1> DEFINE dead == ph \in {0, 1} /\ lifted /\ ev.near
           sent == ~dead /\ "pen" \in ev.in
           bs == DecodeButtons(ev.raw)
<1>1. /\ pc_pen' = IF sent THEN PcPen(ph, bs) ELSE pc_pen
      /\ last_pen' = CASE ~sent -> "dropped"
                       [] sent /\ ev.action = "BUTTON" /\ hover -> "button"
                       [] OTHER -> "sent"
      /\ pc_touch' = pc_touch
      /\ last_touch' = IF Len(ev.pointers) > 1 THEN "missed" ELSE last_touch
  BY DEF PenConsume
<1>2. bs \subseteq 1 .. 3
  BY DEF DecodeButtons
<1> HIDE DEF sent, bs
<1>3. /\ PcPen(ph, bs) \in PenType
      /\ PcPen(ph, bs).contact <=> ph \in {1, 2}
      /\ PcPen(ph, bs).range <=> ph # 4
      /\ PcPen(ph, bs).eraser <=> tool = "eraser"
  <2>1. PcPen(ph, bs) = [range |-> ph # 4, contact |-> ph \in {1, 2},
                         eraser |-> tool = "eraser", buttons |-> bs]
    BY DEF PcPen
  <2>2. PcPen(ph, bs).contact = (ph \in {1, 2}) /\ PcPen(ph, bs).range = (ph # 4)
          /\ PcPen(ph, bs).eraser = (tool = "eraser")
    BY <2>1
  <2>3. PcPen(ph, bs) \in PenType
    BY <1>2, <2>1 DEF PenType
  <2> QED
    BY <2>2, <2>3
<1>4. pc_pen \in PenType
  BY DEF TypeOK, PenType
<1>5. CASE ~sent
  BY <1>1, <1>4, <1>5
<1>6. CASE sent /\ ev.action = "BUTTON" /\ hover
  BY <1>1, <1>3, <1>6
<1>7. CASE sent /\ ~(ev.action = "BUTTON" /\ hover)
  <2>1. last_pen' = "sent" /\ pc_pen' = PcPen(ph, bs)
    BY <1>1, <1>7
  <2> QED
    BY <1>1, <1>3, <1>7, <2>1
<1> QED
  BY <1>5, <1>6, <1>7

(* An event of a gesture leaves pen and touch in step, provided that the    *)
(* phase of the pen says whether it touches afterwards, and the snapshot    *)
(* which fingers do.                                                        *)
LEMMA DispatchStep ==
  ASSUME Inv, NEW g \in Seq(Pointers), IsInjective(g), NEW ev, ev.pointers = g,
         DispatchTouchEvent(ev), NEW ph, ph = MapPhase(ev, FindPenIndex(ev)),
         gesture' \in Seq(Pointers), IsInjective(gesture'), inside' \subseteq Range(gesture'),
         hover' = hover, tool' = tool,
         "pen" \notin Range(g) => ~PenDown /\ ~PenDown',
         "pen" \in Range(g) => /\ ~hover /\ (PenDown' <=> ph \in {1, 2})
                               /\ (Len(g) <= 1 => inside' \cap Fingers = inside \cap Fingers),
         Snapshot(ev) = inside' \cap Fingers
  PROVE  Inv'
<1> USE DEF Inv
<1>1. Range(gesture') \subseteq Fingers \cup Palms \cup {"pen"}
  BY DEF Pointers, Range
<1>2. CASE "pen" \in Range(g)
  <2>1. PenConsume(ev)
    <3>1. FindPenIndex(ev) # 0
      BY <1>2, PenIndex DEF Range
    <3> QED
      BY <3>1 DEF DispatchTouchEvent
  <2>2. /\ pc_pen' \in PenType
        /\ last_pen' \in {"none", "sent", "dropped", "button"}
        /\ last_pen' = "sent" =>
             /\ pc_pen'.contact <=> ph \in {1, 2}
             /\ pc_pen'.range <=> ph # 4
             /\ pc_pen'.eraser <=> tool = "eraser"
        /\ pc_touch' = pc_touch
        /\ last_touch' = IF Len(g) > 1 THEN "missed" ELSE last_touch
    BY <2>1, PenConsumed
  <2>3. TypeOK'
    BY <1>1, <2>2 DEF TypeOK, PenType
  <2>4. PenInStep'
    <3>1. pc_pen'.contact \in BOOLEAN /\ pc_pen'.eraser \in BOOLEAN
      BY <2>2 DEF PenType
    <3>2. PenDown' \in BOOLEAN
      BY DEF PenDown
    <3> QED
      BY <1>2, <2>2, <3>1, <3>2 DEF PenInStep
  <2>5. TouchInStep'
    <3>1. Len(g) \in Nat
      OBVIOUS
    <3>2. last_touch' = "sent" => last_touch = "sent" /\ Len(g) <= 1
      BY <2>2, <3>1
    <3> QED
      BY <1>2, <2>2, <3>2 DEF TouchInStep, InputInStep
  <2>6. Exclusive'
    BY <1>2 DEF Exclusive
  <2> QED
    BY <2>3, <2>4, <2>5, <2>6 DEF InputInStep
<1>3. CASE "pen" \notin Range(g)
  <2>1. TouchConsume(ev)
    BY <1>3, PenIndex DEF DispatchTouchEvent
  <2>2. /\ pc_pen' = pc_pen /\ last_pen' = last_pen
        /\ \/ last_touch' = "sent" /\ pc_touch' = inside' \cap Fingers
           \/ last_touch' = "missed" /\ pc_touch' = pc_touch
    BY <2>1 DEF TouchConsume
  <2>3. TypeOK'
    BY <1>1, <2>2 DEF TypeOK
  <2>4. PenInStep'
    <3>1. PenDown' = PenDown
      BY <1>3 DEF PenDown
    <3> QED
      BY <2>2, <3>1 DEF PenInStep, InputInStep
  <2>5. TouchInStep'
    BY <2>2 DEF TouchInStep
  <2>6. Exclusive'
    BY <1>3 DEF Exclusive
  <2> QED
    BY <2>3, <2>4, <2>5, <2>6 DEF InputInStep
<1> QED
  BY <1>2, <1>3

-----------------------------------------------------------------------------
(* The steps of Android.                                                    *)

(* In a gesture of the pen alone no finger is inside.                       *)
LEMMA OnlyPen ==
  ASSUME NEW g \in Seq(Pointers), "pen" \in Range(g), Len(g) <= 1, NEW T \in SUBSET Range(g)
  PROVE  T \cap Fingers = {}
<1>1. \A k \in DOMAIN g : k = 1
  OBVIOUS
<1>2. Range(g) = {"pen"}
  BY <1>1 DEF Range
<1> QED
  BY <1>2, CaptureAssumption

LEMMA LandsStep ==
  ASSUME Inv, NEW p \in Pointers, PointerLands(p)
  PROVE  Inv'
<1> USE DEF Inv
<1>1. PICK i \in 1 .. Len(gesture) + 1 :
        LET now == InsertAt(gesture, i, p)
            action == IF gesture = <<>> THEN "DOWN" ELSE "POINTER_DOWN"
        IN  \E ev \in Event(action, i, now) :
              gesture' = now /\ inside' = ev.in /\ DispatchTouchEvent(ev)
  BY DEF PointerLands
<1> DEFINE now == InsertAt(gesture, i, p)
           action == IF gesture = <<>> THEN "DOWN" ELSE "POINTER_DOWN"
<1>2. PICK ev \in Event(action, i, now) :
        gesture' = now /\ inside' = ev.in /\ DispatchTouchEvent(ev)
  BY <1>1
<1>3. p \notin Range(gesture) /\ (p = "pen" => ~hover) /\ hover' = hover /\ tool' = tool
  BY DEF PointerLands
<1>4. IsInjective(gesture)
  BY DEF TypeOK
<1>5. /\ now \in Seq(Pointers) /\ IsInjective(now) /\ Range(now) = Range(gesture) \cup {p}
      /\ i \in DOMAIN now /\ now[i] = p /\ Len(now) = Len(gesture) + 1
  BY <1>3, <1>4, Landed
<1>6. ev.action \in {"DOWN", "POINTER_DOWN"} /\ ev.index = i /\ ev.pointers = now
        /\ ev.in \subseteq Range(now)
  BY EventOK
<1> HIDE DEF now
<1> DEFINE ph == MapPhase(ev, FindPenIndex(ev))
<1>7. ASSUME "pen" \in Range(now)
      PROVE  ~hover /\ ph \in {1, 2}
  <2>1. p = "pen" \/ "pen" \in Range(gesture)
    BY <1>5, <1>7
  <2>2. ~hover
    BY <1>3, <2>1 DEF Exclusive, PenDown
  <2>3. ph \in {1, 2}
    BY <1>6 DEF MapPhase
  <2> QED
    BY <2>2, <2>3
<1>8. "pen" \in Range(now) /\ Len(now) <= 1 => inside' \cap Fingers = inside \cap Fingers
  <2> SUFFICES ASSUME "pen" \in Range(now), Len(now) <= 1
               PROVE  inside' \cap Fingers = {} /\ inside \cap Fingers = {}
    OBVIOUS
  <2>1. Len(gesture) = 0
    BY <1>5
  <2>2. gesture = <<>> /\ Range(gesture) = {}
    BY <2>1, EmptySeq DEF Range
  <2>3. Range(now) = {"pen"}
    BY <1>5, <2>2
  <2>4. inside = {} /\ inside' \subseteq {"pen"} /\ "pen" \notin Fingers
    BY <1>2, <1>6, <2>2, <2>3, CaptureAssumption DEF TypeOK
  <2> QED
    BY <2>4
<1>9. Snapshot(ev) = inside' \cap Fingers
  <2>1. Snapshot(ev) = {now[k] : k \in DOMAIN now \ {0}} \cap Fingers \cap ev.in
    BY <1>6 DEF Snapshot
  <2>2. {now[k] : k \in DOMAIN now \ {0}} = Range(now)
    <3>1. 0 \notin DOMAIN now
      BY <1>5
    <3> QED
      BY <3>1 DEF Range
  <2> QED
    BY <1>2, <1>6, <2>1, <2>2
<1>10. PenDown' <=> "pen" \in Range(now)
  BY <1>2 DEF PenDown
<1>11. "pen" \notin Range(now) => ~PenDown
  BY <1>5 DEF PenDown
<1> QED
  BY <1>2, <1>3, <1>5, <1>6, <1>7, <1>8, <1>9, <1>10, <1>11, DispatchStep

LEMMA MoveStep ==
  ASSUME Inv, PointersMove
  PROVE  Inv'
<1> USE DEF Inv
<1>1. PICK ev \in Event("MOVE", 1, gesture) : inside' = ev.in /\ DispatchTouchEvent(ev)
  BY DEF PointersMove
<1>2. gesture' = gesture /\ hover' = hover /\ tool' = tool /\ IsInjective(gesture)
  BY DEF PointersMove, TypeOK
<1>3. ev.action = "MOVE" /\ ev.pointers = gesture /\ ev.in \subseteq Range(gesture)
  BY EventOK
<1> DEFINE ph == MapPhase(ev, FindPenIndex(ev))
<1>4. ph = 2
  BY <1>3 DEF MapPhase
<1>5. PenDown' = PenDown /\ (PenDown <=> "pen" \in Range(gesture))
  BY <1>2 DEF PenDown
<1>6. "pen" \in Range(gesture) => ~hover
  BY DEF Exclusive, PenDown
<1>7. "pen" \in Range(gesture) /\ Len(gesture) <= 1 =>
        inside' \cap Fingers = inside \cap Fingers
  BY <1>1, <1>3, OnlyPen DEF TypeOK
<1>8. Snapshot(ev) = inside' \cap Fingers
  <2>1. Snapshot(ev) = {gesture[k] : k \in DOMAIN gesture \ {0}} \cap Fingers \cap ev.in
    BY <1>3 DEF Snapshot
  <2>2. {gesture[k] : k \in DOMAIN gesture \ {0}} = Range(gesture)
    <3>1. 0 \notin DOMAIN gesture
      OBVIOUS
    <3> QED
      BY <3>1 DEF Range
  <2> QED
    BY <1>1, <1>3, <2>1, <2>2
<1> QED
  BY <1>1, <1>2, <1>3, <1>4, <1>5, <1>6, <1>7, <1>8, DispatchStep

LEMMA LiftsStep ==
  ASSUME Inv, NEW i \in DOMAIN gesture, PointerLifts(i)
  PROVE  Inv'
<1> USE DEF Inv
<1> DEFINE action == IF Len(gesture) = 1 THEN "UP" ELSE "POINTER_UP"
<1>1. PICK ev \in Event(action, i, gesture) :
        /\ gesture' = RemoveAt(gesture, i) /\ inside' = ev.in \ {gesture[i]}
        /\ DispatchTouchEvent(ev)
  BY DEF PointerLifts
<1>2. hover' = hover /\ tool' = tool /\ IsInjective(gesture) /\ i # 0
  BY DEF PointerLifts, TypeOK
<1>3. ev.action \in {"UP", "POINTER_UP"} /\ ev.index = i /\ ev.pointers = gesture
        /\ ev.in \subseteq Range(gesture)
  BY EventOK
<1>4. gesture' \in Seq(Pointers) /\ IsInjective(gesture')
        /\ Range(gesture') = Range(gesture) \ {gesture[i]}
  BY <1>1, <1>2, Lifted
<1> DEFINE ph == MapPhase(ev, FindPenIndex(ev))
<1>5. "pen" \in Range(gesture) => (PenDown' <=> ph \in {1, 2})
  <2>1. CASE gesture[i] = "pen"
    <3>1. FindPenIndex(ev) = i
      BY <1>2, <1>3, <2>1, PenIndex
    <3>2. ph = 3
      BY <1>3, <3>1 DEF MapPhase
    <3>3. ~PenDown'
      BY <1>4, <2>1 DEF PenDown
    <3> QED
      BY <3>2, <3>3
  <2>2. CASE gesture[i] # "pen" /\ "pen" \in Range(gesture)
    <3>1. PICK k \in DOMAIN gesture : gesture[k] = "pen"
      BY <2>2 DEF Range
    <3>2. FindPenIndex(ev) = k /\ k # i
      BY <1>2, <1>3, <2>2, <3>1, PenIndex
    <3>3. ph = 2
      BY <1>3, <3>2 DEF MapPhase
    <3>4. PenDown'
      BY <1>4, <2>2 DEF PenDown
    <3> QED
      BY <3>3, <3>4
  <2> QED
    BY <2>1, <2>2
<1>6. "pen" \in Range(gesture) => ~hover
  BY DEF Exclusive, PenDown
<1>7. "pen" \in Range(gesture) /\ Len(gesture) <= 1 =>
        inside' \cap Fingers = inside \cap Fingers
  BY <1>1, <1>3, OnlyPen DEF TypeOK
<1>8. Snapshot(ev) = inside' \cap Fingers
  <2>1. Snapshot(ev) = {gesture[k] : k \in DOMAIN gesture \ {i}} \cap Fingers \cap ev.in
    BY <1>3 DEF Snapshot
  <2>2. {gesture[k] : k \in DOMAIN gesture \ {i}} = Range(gesture) \ {gesture[i]}
    BY <1>2 DEF Range, IsInjective
  <2> QED
    BY <1>1, <1>3, <2>1, <2>2
<1>9. "pen" \notin Range(gesture) => ~PenDown /\ ~PenDown'
  BY <1>4 DEF PenDown
<1>10. inside' \subseteq Range(gesture')
  BY <1>1, <1>3, <1>4
<1> QED
  BY <1>1, <1>2, <1>3, <1>4, <1>5, <1>6, <1>7, <1>8, <1>9, <1>10, DispatchStep

LEMMA CancelStep ==
  ASSUME Inv, GestureCancelled
  PROVE  Inv'
<1> USE DEF Inv
<1>1. PICK ev \in Event("CANCEL", 1, gesture) : DispatchTouchEvent(ev)
  BY DEF GestureCancelled
<1>2. gesture' = <<>> /\ inside' = {} /\ hover' = hover /\ tool' = tool /\ IsInjective(gesture)
  BY DEF GestureCancelled, TypeOK
<1>3. ev.action = "CANCEL" /\ ev.pointers = gesture
  BY EventOK
<1> DEFINE ph == MapPhase(ev, FindPenIndex(ev))
<1>4. ph = 4
  BY <1>3 DEF MapPhase
<1>5. gesture' \in Seq(Pointers) /\ IsInjective(gesture') /\ ~PenDown'
  BY <1>2 DEF IsInjective, PenDown, Range
<1>6. "pen" \in Range(gesture) => ~hover
  BY DEF Exclusive, PenDown
<1>7. "pen" \in Range(gesture) /\ Len(gesture) <= 1 =>
        inside' \cap Fingers = inside \cap Fingers
  BY <1>2, OnlyPen DEF TypeOK
<1>8. Snapshot(ev) = inside' \cap Fingers
  BY <1>2, <1>3 DEF Snapshot
<1>9. "pen" \notin Range(gesture) => ~PenDown
  BY DEF PenDown
<1> QED
  BY <1>1, <1>2, <1>3, <1>4, <1>5, <1>6, <1>7, <1>8, <1>9, DispatchStep

(* An event of the pen alone leaves the fingers as they are.                *)
LEMMA GenericStep ==
  ASSUME Inv, NEW a, NEW ev \in PenEvent(a), DispatchGenericMotionEvent(ev),
         gesture' = gesture, inside' = inside, tool' = tool, hover' \in BOOLEAN, ~PenDown,
         \/ a \in {"HOVER_ENTER", "HOVER_MOVE"}
         \/ a = "HOVER_EXIT" /\ ~hover'
         \/ a = "BUTTON" /\ hover
  PROVE  Inv'
<1> USE DEF Inv
<1>1. ev.action = a /\ ev.pointers = <<"pen">> /\ PenConsume(ev)
  BY EventOK DEF PenEvent, DispatchGenericMotionEvent
<1> DEFINE ph == MapPhase(ev, FindPenIndex(ev))
<1>2. /\ pc_pen' \in PenType
      /\ last_pen' \in {"none", "sent", "dropped", "button"}
      /\ last_pen' = "sent" =>
           /\ pc_pen'.contact <=> ph \in {1, 2}
           /\ pc_pen'.range <=> ph # 4
           /\ pc_pen'.eraser <=> tool = "eraser"
      /\ ev.action = "BUTTON" /\ hover => last_pen' # "sent"
      /\ pc_touch' = pc_touch
      /\ last_touch' = IF Len(ev.pointers) > 1 THEN "missed" ELSE last_touch
  BY <1>1, PenConsumed
<1>3. last_touch' = last_touch
  <2>1. Len(ev.pointers) = 1
    BY <1>1
  <2> QED
    BY <1>2, <2>1
<1>4. /\ a \in {"HOVER_ENTER", "HOVER_MOVE"} => ph = 0
      /\ a = "HOVER_EXIT" => ph = 4
  BY <1>1 DEF MapPhase
<1>5. PenDown' = PenDown /\ PenDown' = FALSE
  BY DEF PenDown
<1>6. TypeOK'
  BY <1>2, <1>3 DEF TypeOK, PenType
<1>7. PenInStep'
  <2> SUFFICES ASSUME last_pen' = "sent"
               PROVE  /\ pc_pen'.contact = PenDown'
                      /\ PenDown' \/ hover' => pc_pen'.range
                      /\ pc_pen'.range => pc_pen'.eraser = (tool' = "eraser")
    BY DEF PenInStep
  <2>1. ph = 0 \/ (ph = 4 /\ ~hover')
    BY <1>1, <1>2, <1>4
  <2>2. pc_pen'.contact \in BOOLEAN /\ pc_pen'.eraser \in BOOLEAN
    BY <1>2 DEF PenType
  <2>3. pc_pen'.contact = FALSE
    BY <1>2, <2>1, <2>2
  <2>4. pc_pen'.eraser = (tool' = "eraser")
    BY <1>2, <2>2
  <2>5. hover' => pc_pen'.range
    BY <1>2, <2>1
  <2> QED
    BY <1>5, <2>3, <2>4, <2>5
<1>8. TouchInStep' /\ Exclusive'
  BY <1>2, <1>3, <1>5 DEF TouchInStep, InputInStep, Exclusive
<1> QED
  BY <1>6, <1>7, <1>8 DEF InputInStep

LEMMA TurnStep ==
  ASSUME Inv, PenTurns
  PROVE  Inv'
<1> USE DEF Inv
<1>1. /\ UNCHANGED <<gesture, inside, hover, pc_pen, pc_touch, last_touch>>
      /\ last_pen' = IF tool' = tool THEN last_pen ELSE "none"
  BY DEF PenTurns
<1>2. PenDown' = PenDown
  BY <1>1 DEF PenDown
<1>3. TypeOK'
  BY <1>1 DEF TypeOK
<1>4. PenInStep'
  BY <1>1, <1>2 DEF PenInStep, InputInStep
<1>5. TouchInStep' /\ Exclusive'
  BY <1>1, <1>2 DEF TouchInStep, InputInStep, Exclusive
<1> QED
  BY <1>1, <1>3, <1>4, <1>5 DEF InputInStep

-----------------------------------------------------------------------------
LEMMA Step == Inv /\ [Next]_vars => Inv'
<1> SUFFICES ASSUME Inv, [Next]_vars PROVE Inv'
  OBVIOUS
<1>1. ASSUME NEW p \in Pointers, PointerLands(p) PROVE Inv'
  BY <1>1, LandsStep
<1>2. CASE PointersMove
  BY <1>2, MoveStep
<1>3. CASE GestureCancelled
  BY <1>3, CancelStep
<1>4. ASSUME NEW i \in DOMAIN gesture, PointerLifts(i) PROVE Inv'
  BY <1>4, LiftsStep
<1>5. CASE PenHovers
  <2>1. PICK a \in {"HOVER_ENTER", "HOVER_MOVE"} :
          \E ev \in PenEvent(a) : DispatchGenericMotionEvent(ev)
    BY <1>5 DEF PenHovers
  <2>2. ~PenDown /\ gesture' = gesture /\ inside' = inside /\ tool' = tool /\ hover' = TRUE
    BY <1>5 DEF PenHovers
  <2> QED
    BY <2>1, <2>2, GenericStep
<1>6. CASE PenLeaves
  <2>1. PICK ev \in PenEvent("HOVER_EXIT") : DispatchGenericMotionEvent(ev)
    BY <1>6 DEF PenLeaves
  <2>2. gesture' = gesture /\ inside' = inside /\ tool' = tool /\ hover' = FALSE /\ ~PenDown
    BY <1>6 DEF PenLeaves, Inv, Exclusive
  <2> QED
    BY <2>1, <2>2, GenericStep
<1>7. CASE PenButton
  <2>1. PICK ev \in PenEvent("BUTTON") : DispatchGenericMotionEvent(ev)
    BY <1>7 DEF PenButton
  <2>2. gesture' = gesture /\ inside' = inside /\ tool' = tool /\ hover' = hover /\ ~PenDown
          /\ hover
    BY <1>7 DEF PenButton, androidVars, Inv, Exclusive
  <2> QED
    BY <2>1, <2>2, GenericStep
<1>8. CASE PenTurns
  BY <1>8, TurnStep
<1>9. CASE UNCHANGED vars
  <2>1. UNCHANGED <<gesture, inside, hover, tool, pc_pen, pc_touch, last_pen, last_touch>>
    BY <1>9 DEF vars, androidVars, pcVars
  <2>2. PenDown' = PenDown
    BY <2>1 DEF PenDown
  <2> QED
    BY <2>1, <2>2 DEF Inv, TypeOK, Exclusive, InputInStep, PenInStep, TouchInStep
<1> QED
  BY <1>1, <1>2, <1>3, <1>4, <1>5, <1>6, <1>7, <1>8, <1>9 DEF Next, Pointers

LEMMA Invariance == Spec => []Inv
<1>1. Init => Inv
  <2> SUFFICES ASSUME Init PROVE Inv
    OBVIOUS
  <2>1. gesture = <<>> /\ inside = {} /\ hover = FALSE /\ pc_pen = NoPen /\ pc_touch = {}
          /\ last_pen = "none" /\ last_touch = "none"
    BY DEF Init
  <2>2. gesture \in Seq(Pointers) /\ Range(gesture) = {} /\ IsInjective(gesture)
    BY <2>1 DEF Range, IsInjective
  <2>3. TypeOK
    BY <2>1, <2>2 DEF TypeOK, NoPen
  <2> QED
    BY <2>1, <2>2, <2>3 DEF Inv, Exclusive, InputInStep, PenInStep, TouchInStep
<1> QED
  BY <1>1, Step, PTL DEF Spec

(* In every state of the capture the pointers of a gesture are distinct and *)
(* the PC has well-formed pen samples, and fingers only in its snapshot.    *)
THEOREM TypeCorrect == Spec => []TypeOK
BY Invariance, PTL DEF Inv

(* mapPhase, consume and read_loop together: after every event that was     *)
(* sent the PC has the pen in contact exactly when it touches, and down the *)
(* fingers that touch, for any mixture of any number of pointers in any     *)
(* order of their indices.                                                  *)
THEOREM InStep == Spec => []InputInStep
BY Invariance, PTL DEF Inv

=============================================================================
