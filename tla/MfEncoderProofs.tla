--------------------------- MODULE MfEncoderProofs ---------------------------
(***************************************************************************)
(* Proofs for MfEncoder, for every window of the MFT, every number of      *)
(* frames and of skipped frames, and every set of faults: the session uses *)
(* no permission twice, pairs packets with metadata as MetaFollowsFrames   *)
(* says, and implements EncoderContract.                                   *)
(***************************************************************************)
EXTENDS MfEncoder, FiniteSets, FiniteSetTheorems, SequenceTheorems, TLAPS

-----------------------------------------------------------------------------
(* Counting the events of a kind. *)

Where(e, x) == {i \in DOMAIN e : e[i] = x}
Count(e, x) == Cardinality(Where(e, x))

Events == {"need", "have"}

LEMMA WhereIsFinite ==
  ASSUME NEW e \in Seq(Events), NEW x
  PROVE  IsFiniteSet(Where(e, x)) /\ Count(e, x) \in Nat
<1>1. IsFiniteSet(1 .. Len(e)) /\ Where(e, x) \in SUBSET (1 .. Len(e))
  BY FS_Interval DEF Where
<1>2. IsFiniteSet(Where(e, x))
  BY <1>1, FS_Subset
<1>3. QED
  BY <1>2, FS_CardinalityType DEF Count

LEMMA CountEmpty == \A x : Count(<<>>, x) = 0
<1>1. \A x : Where(<<>>, x) = {}
  BY DEF Where
<1>2. QED
  BY <1>1, FS_EmptySet DEF Count

\* Queueing an event adds one to the count of its kind.
LEMMA CountAppend ==
  ASSUME NEW e \in Seq(Events), NEW x \in Events, NEW y \in Events
  PROVE  Count(Append(e, x), y) = Count(e, y) + (IF x = y THEN 1 ELSE 0)
<1> DEFINE n == Len(e) + 1
<1>1. /\ DOMAIN Append(e, x) = 1 .. n /\ DOMAIN e = 1 .. Len(e) /\ Len(e) \in Nat
      /\ \A i \in 1 .. Len(e) : Append(e, x)[i] = e[i]
      /\ Append(e, x)[n] = x
  OBVIOUS
<1>2. CASE x = y
  <2>1. Where(Append(e, x), y) = Where(e, y) \cup {n} /\ n \notin Where(e, y)
    BY <1>1, <1>2 DEF Where
  <2>2. Cardinality(Where(e, y) \cup {n}) = Cardinality(Where(e, y)) + 1
    BY <2>1, WhereIsFinite, FS_AddElement
  <2>3. QED
    BY <1>2, <2>1, <2>2 DEF Count
<1>3. CASE x # y
  <2>1. Where(Append(e, x), y) = Where(e, y)
    BY <1>1, <1>3 DEF Where
  <2>2. QED
    BY <1>3, <2>1, WhereIsFinite DEF Count
<1>4. QED
  BY <1>2, <1>3

\* Reading the head takes one from the count of its kind: the positions of the
\* others move down by one.
LEMMA CountTail ==
  ASSUME NEW e \in Seq(Events), e # <<>>, NEW y \in Events
  PROVE  Count(e, y) = Count(Tail(e), y) + (IF Head(e) = y THEN 1 ELSE 0)
<1> DEFINE W == Where(Tail(e), y)
           R == Where(e, y) \ {1}
           f == [i \in W |-> i + 1]
<1>1. /\ Tail(e) \in Seq(Events) /\ Len(e) \in Nat \ {0}
      /\ DOMAIN Tail(e) = 1 .. Len(e) - 1 /\ DOMAIN e = 1 .. Len(e)
      /\ \A i \in 1 .. Len(e) - 1 : Tail(e)[i] = e[i + 1]
      /\ Head(e) = e[1]
  OBVIOUS
<1>2. \A i \in W : i \in Nat /\ f[i] = i + 1 /\ f[i] \in R
  BY <1>1 DEF Where
<1>3. \A j \in R : j - 1 \in W /\ f[j - 1] = j
  BY <1>1 DEF Where
<1>4. f \in Bijection(W, R)
  <2>1. f \in [W -> R]
    BY <1>2
  <2>2. \A a, b \in W : f[a] = f[b] => a = b
    BY <1>2
  <2>3. \A j \in R : \E a \in W : f[a] = j
    BY <1>3
  <2> HIDE DEF W, R, f
  <2>4. QED
    BY <2>1, <2>2, <2>3 DEF Bijection, Injection, Surjection, IsInjective
<1>5. IsFiniteSet(W) /\ Cardinality(W) \in Nat
  BY <1>1, WhereIsFinite DEF Count
<1>6. Cardinality(R) = Cardinality(W)
  BY <1>4, <1>5, FS_Bijection DEF ExistsBijection
<1>7. Cardinality(R) = IF 1 \in Where(e, y) THEN Cardinality(Where(e, y)) - 1
                       ELSE Cardinality(Where(e, y))
  BY WhereIsFinite, FS_RemoveElement
<1>8. 1 \in Where(e, y) <=> Head(e) = y
  BY <1>1 DEF Where
<1>9. Count(e, y) \in Nat
  BY WhereIsFinite
<1>10. QED
  BY <1>5, <1>6, <1>7, <1>8, <1>9 DEF Count

-----------------------------------------------------------------------------
(* The inductive invariant. *)

\* The permission the session may use without reading another event.
Credit == IF held \/ pc = "input" THEN 1 ELSE 0

\* Permissions in the event queue and in the session's hands were sent by the
\* MFT and not used before; an announced output is there to be fetched.
Permissions ==
  /\ pc \in {"acquire", "input"} => submitted < MaxFrames
  /\ held => pc \in {"drain", "idle", "failed", "dropped"}
  /\ Count(events, "need") + Credit <= unspent
  /\ Len(inside) + unspent <= Window
  /\ Count(events, "have") = Len(ready)

\* How many time stamps have been used up.
Base == submitted - Len(meta)

\* The metadata left is the newest time stamps without a gap; a frame in the MFT
\* is at most as many places ahead of the metadata at its position as frames
\* were skipped.
Pairing ==
  /\ \A i \in 1 .. Len(meta) : meta[i] = Base + i
  /\ \A i \in 1 .. Len(ready) : ready[i] - (Base + i) \in 0 .. skipped
  /\ \A i \in 1 .. Len(inside) : inside[i] - (Base + Len(ready) + i) \in 0 .. skipped
  /\ Len(meta) = Len(ready) + Len(inside) + skipped
  /\ \A i \in 1 .. Len(queue) : queue[i].frame - queue[i].pts \in 0 .. skipped

Inv == TypeOK /\ Permissions /\ Pairing

-----------------------------------------------------------------------------
(* Initial state, and what a step does to the sequences. *)

LEMMA InitInv == Init => Inv
<1> SUFFICES ASSUME Init PROVE Inv
  OBVIOUS
<1> USE DEF Init
<1>1. TypeOK
  <2>1. out \in [frame : 0 .. submitted, pts : 0 .. submitted]
    BY DEF NoPacket
  <2>2. queue \in Seq([frame : 1 .. submitted, pts : 0 .. submitted])
    BY EmptySeq
  <2>3. /\ submitted \in 0 .. MaxFrames /\ unspent \in 0 .. Window /\ skipped \in 0 .. MaxSkips
        /\ meta \in Seq(1 .. submitted) /\ inside \in Seq(1 .. submitted)
        /\ ready \in Seq(1 .. submitted) /\ events \in Seq({"need", "have"})
    BY EncoderAssumption
  <2>4. QED
    BY <2>1, <2>2, <2>3 DEF TypeOK
<1>2. Permissions
  BY CountEmpty, EncoderAssumption DEF Permissions, Credit
<1>3. Pairing
  BY DEF Pairing, Base
<1>4. QED
  BY <1>1, <1>2, <1>3 DEF Inv

\* The facts about lengths and elements that the steps below use.
LEMMA Sequences ==
  ASSUME TypeOK
  PROVE  /\ submitted \in Nat /\ skipped \in Nat /\ unspent \in Nat
         /\ Len(meta) \in Nat /\ Len(ready) \in Nat /\ Len(inside) \in Nat /\ Len(queue) \in Nat
         /\ events \in Seq(Events)
  BY EncoderAssumption DEF TypeOK, Events

\* Reading an event x: one less of x, as many of the other kind.
LEMMA ReadEvent ==
  ASSUME TypeOK, NEW x \in Events, NextEvent(x)
  PROVE  /\ events' \in Seq(Events)
         /\ Count(events, x) \in Nat \ {0}
         /\ Count(events', x) = Count(events, x) - 1
         /\ \A y \in Events \ {x} : Count(events', y) = Count(events, y)
<1>1. events \in Seq(Events) /\ events # <<>> /\ Head(events) = x /\ events' = Tail(events)
  BY Sequences DEF NextEvent
<1>2. events' \in Seq(Events)
  BY <1>1
<1>3. \A y \in Events : /\ Count(events', y) \in Nat /\ Count(events, y) \in Nat
                        /\ Count(events, y) = Count(events', y) + (IF x = y THEN 1 ELSE 0)
  BY <1>1, <1>2, CountTail, WhereIsFinite
<1>4. QED
  BY <1>2, <1>3

\* Output is announced only when it is there, and its metadata too.
LEMMA OutputIsThere ==
  ASSUME Inv, NextEvent("have")
  PROVE  ready # <<>> /\ meta # <<>>
<1>1. Len(ready) # 0
  BY ReadEvent DEF Inv, Permissions, Events
<1>2. Len(meta) # 0
  BY <1>1, Sequences DEF Inv, Pairing
<1>3. QED
  BY <1>1, <1>2, Sequences DEF Inv, TypeOK

-----------------------------------------------------------------------------
(* Types *)

LEMMA TypeStep ==
  ASSUME Inv, [Next]_vars
  PROVE  TypeOK'
<1> USE DEF Inv
<1> DEFINE Packets == [frame : 1 .. submitted, pts : 0 .. submitted]
<1>1. CASE New
  <2>1. \E mfts \in MftLists : input_type' = IF mfts = <<>> THEN "none" ELSE InputType(PickMft(mfts))
    BY <1>1 DEF New
  <2>2. \A mft : InputType(mft) \in {"none", "tagged", "plain"}
    BY DEF InputType
  <2>3. QED
    BY <1>1, <2>1, <2>2 DEF New, TypeOK, mftVars
<1>2. CASE BeginSubmit
  BY <1>2 DEF BeginSubmit, TypeOK, mftVars
<1>3. CASE GetHaveOutput
  <2>1. /\ events' \in Seq(Events) /\ ready # <<>> /\ meta # <<>>
        /\ queue' = Append(queue, Packet) /\ meta' = Tail(meta) /\ ready' = Tail(ready)
    BY <1>3, ReadEvent, OutputIsThere DEF GetHaveOutput, Collect, Events
  <2>2. Packet \in Packets
    <3>1. Head(ready) \in 1 .. submitted /\ Head(meta) \in 1 .. submitted
      BY <2>1, HeadTailProperties DEF TypeOK
    <3>2. Packet = [frame |-> Head(ready), pts |-> Head(meta)] /\ 1 .. submitted \subseteq 0 .. submitted
      BY <2>1, Sequences DEF Packet
    <3>3. QED
      BY <3>1, <3>2
  <2>3. queue' \in Seq(Packets) /\ meta' \in Seq(1 .. submitted) /\ ready' \in Seq(1 .. submitted)
    BY <2>1, <2>2 DEF TypeOK
  <2>4. QED
    BY <1>3, <2>1, <2>3 DEF GetHaveOutput, TypeOK, Events
<1>4. CASE GetNeedInput
  BY <1>4, ReadEvent DEF GetNeedInput, TypeOK, Events
<1>5. CASE DropNeedInput
  BY <1>5, ReadEvent DEF DropNeedInput, TypeOK, Events, sessionVars
<1>6. CASE ProcessInput
  <2>1. /\ submitted \in Nat /\ submitted' = submitted + 1 /\ submitted' \in 0 .. MaxFrames
        /\ 1 .. submitted \subseteq 1 .. submitted' /\ 0 .. submitted \subseteq 0 .. submitted'
    BY <1>6, Sequences, EncoderAssumption DEF ProcessInput, Permissions, TypeOK
  <2>2. /\ meta \in Seq(1 .. submitted') /\ inside \in Seq(1 .. submitted')
        /\ ready \in Seq(1 .. submitted') /\ submitted + 1 \in 1 .. submitted'
    BY <2>1, SeqMonotonic DEF TypeOK
  <2>3. queue \in Seq([frame : 1 .. submitted', pts : 0 .. submitted'])
    <3>1. Packets \subseteq [frame : 1 .. submitted', pts : 0 .. submitted']
      BY <2>1
    <3>2. QED
      BY <3>1, SeqMonotonic DEF TypeOK
  <2>4. out \in [frame : 0 .. submitted', pts : 0 .. submitted']
    BY <2>1 DEF TypeOK
  <2>5. unspent' \in 0 .. Window
    BY <1>6, Sequences, WhereIsFinite, EncoderAssumption
       DEF ProcessInput, Permissions, Credit, TypeOK
  <2>6. meta' \in Seq(1 .. submitted') /\ inside' \in Seq(1 .. submitted')
    BY <1>6, <2>2 DEF ProcessInput
  <2>7. QED
    BY <1>6, <2>1, <2>2, <2>3, <2>4, <2>5, <2>6 DEF ProcessInput, TypeOK
<1>7. CASE CallFails
  BY <1>7 DEF CallFails, TypeOK, mftVars
<1>8. CASE HandOut
  <2>1. Head(queue) \in Packets /\ Tail(queue) \in Seq(Packets)
    BY <1>8, HeadTailProperties DEF HandOut, TypeOK
  <2>2. out' \in [frame : 0 .. submitted, pts : 0 .. submitted]
    BY <1>8, <2>1, Sequences DEF HandOut
  <2>3. QED
    BY <1>8, <2>1, <2>2 DEF HandOut, TypeOK, mftVars
<1>9. CASE TryPacketNone
  BY <1>9 DEF TryPacketNone, TypeOK, mftVars
<1>10. CASE DropSession
  BY <1>10 DEF DropSession, TypeOK, mftVars
<1>11. CASE MftAsks
  <2>1. events' \in Seq({"need", "have"})
    BY <1>11 DEF MftAsks, TypeOK
  <2>2. unspent' \in 0 .. Window
    BY <1>11, Sequences, EncoderAssumption DEF MftAsks
  <2>3. QED
    BY <1>11, <2>1, <2>2 DEF MftAsks, TypeOK, sessionVars
<1>12. CASE MftEncodes
  <2>1. /\ Head(inside) \in 1 .. submitted
        /\ inside' \in Seq(1 .. submitted) /\ ready' \in Seq(1 .. submitted)
        /\ events' \in Seq({"need", "have"})
    BY <1>12, SMTT(30) DEF MftEncodes, TypeOK
  <2>2. QED
    BY <1>12, <2>1 DEF MftEncodes, TypeOK, sessionVars
<1>13. CASE MftSkips
  <2>1. inside' \in Seq(1 .. submitted) /\ skipped' \in 0 .. MaxSkips
    BY <1>13, EncoderAssumption DEF MftSkips, TypeOK
  <2>2. QED
    BY <1>13, <2>1 DEF MftSkips, TypeOK, sessionVars
<1>14. CASE GetNoSample
  <2>1. events' \in Seq(Events) /\ ready # <<>> /\ ready' = Tail(ready) /\ skipped' = skipped + 1
    BY <1>14, ReadEvent, OutputIsThere DEF GetNoSample, Events
  <2>2. ready' \in Seq(1 .. submitted) /\ skipped' \in 0 .. MaxSkips
    BY <1>14, <2>1, EncoderAssumption DEF GetNoSample, TypeOK
  <2>3. QED
    BY <1>14, <2>1, <2>2 DEF GetNoSample, TypeOK, Events
<1>15. CASE UNCHANGED vars
  BY <1>15 DEF TypeOK, vars, sessionVars, mftVars
<1>16. QED
  BY <1>1, <1>2, <1>3, <1>4, <1>5, <1>6, <1>7, <1>8, <1>9, <1>10, <1>11, <1>12, <1>13, <1>14, <1>15
     DEF Next

-----------------------------------------------------------------------------
(* Permissions *)

LEMMA PermissionsStep ==
  ASSUME Inv, [Next]_vars
  PROVE  Permissions'
<1> DEFINE need == Count(events, "need")
           have == Count(events, "have")
<1>1. /\ need \in Nat /\ have \in Nat
      /\ submitted \in Nat /\ unspent \in Nat /\ Len(inside) \in Nat /\ Len(ready) \in Nat
      /\ Window \in Nat /\ Credit \in {0, 1}
  BY Sequences, WhereIsFinite, EncoderAssumption DEF Inv, Credit
<1>2. CASE New \/ BeginSubmit \/ CallFails \/ TryPacketNone \/ DropSession \/ HandOut \/ UNCHANGED vars
  <2>1. UNCHANGED mftVars /\ submitted' = submitted
    BY <1>2 DEF New, BeginSubmit, CallFails, HandOut, TryPacketNone, DropSession, vars, sessionVars
  <2>2. Credit' <= Credit /\ Credit' \in {0, 1}
    <3>1. held' \/ pc' = "input" => held \/ pc = "input"
      BY <1>2 DEF New, BeginSubmit, CallFails, HandOut, TryPacketNone, DropSession, vars, sessionVars
    <3>2. QED
      BY <3>1 DEF Credit
  <2>3. /\ held' => pc' \in {"drain", "idle", "failed", "dropped"}
        /\ pc' \in {"acquire", "input"} => submitted' < MaxFrames
    BY <1>2 DEF New, BeginSubmit, CallFails, HandOut, TryPacketNone, DropSession, vars,
                sessionVars, Inv, Permissions
  <2>4. QED
    BY <1>1, <2>1, <2>2, <2>3 DEF Inv, Permissions, mftVars
<1>3. CASE GetHaveOutput
  <2>1. /\ need' = need /\ have' = have - 1 /\ Len(ready') = Len(ready) - 1
    BY <1>3, ReadEvent, OutputIsThere DEF GetHaveOutput, Collect, Inv, TypeOK, Events
  <2>2. QED
    BY <1>1, <1>3, <2>1 DEF GetHaveOutput, Inv, Permissions, Credit
<1>4. CASE GetNeedInput
  <2>1. need' = need - 1 /\ have' = have
    BY <1>4, ReadEvent DEF GetNeedInput, Inv, Events
  <2>2. Credit = 0 /\ Credit' = 1
    BY <1>4 DEF GetNeedInput, Inv, Permissions, Credit
  <2>3. QED
    <3>1. /\ held' => pc' \in {"drain", "idle", "failed", "dropped"}
          /\ pc' \in {"acquire", "input"} => submitted' < MaxFrames
          /\ UNCHANGED <<unspent, inside, ready>>
      BY <1>4 DEF GetNeedInput, Inv, Permissions
    <3>2. QED
      BY <1>1, <2>1, <2>2, <3>1 DEF Inv, Permissions
<1>5. CASE DropNeedInput
  <2>1. need' = need - 1 /\ have' = have
    BY <1>5, ReadEvent DEF DropNeedInput, Inv, Events
  <2>2. QED
    BY <1>1, <1>5, <2>1 DEF DropNeedInput, Inv, Permissions, Credit, sessionVars
<1>6. CASE ProcessInput
  <2>1. /\ Credit = 1 /\ ~held /\ Credit' = 0
        /\ Len(inside') = Len(inside) + 1
    BY <1>6 DEF ProcessInput, Inv, Permissions, Credit, TypeOK
  <2>2. QED
    BY <1>1, <1>6, <2>1 DEF ProcessInput, Inv, Permissions
<1>7. CASE MftAsks
  <2>1. need' = need + 1 /\ have' = have
    BY <1>7, CountAppend, Sequences, <1>1 DEF MftAsks, Inv, Events
  <2>2. QED
    BY <1>1, <1>7, <2>1 DEF MftAsks, Inv, Permissions, Credit, sessionVars
<1>8. CASE MftEncodes
  <2>1. need' = need /\ have' = have + 1
    BY <1>8, CountAppend, Sequences, <1>1 DEF MftEncodes, Inv, Events
  <2>2. Len(ready') = Len(ready) + 1 /\ Len(inside') = Len(inside) - 1
    BY <1>8 DEF MftEncodes, Inv, TypeOK
  <2>3. QED
    BY <1>1, <1>8, <2>1, <2>2 DEF MftEncodes, Inv, Permissions, Credit, sessionVars
<1>9. CASE MftSkips
  <2>1. Len(inside') = Len(inside) - 1
    BY <1>9 DEF MftSkips, Inv, TypeOK
  <2>2. QED
    BY <1>1, <1>9, <2>1 DEF MftSkips, Inv, Permissions, Credit, sessionVars
<1>10. CASE GetNoSample
  <2>1. /\ need' = need /\ have' = have - 1 /\ Len(ready') = Len(ready) - 1
    BY <1>10, ReadEvent, OutputIsThere DEF GetNoSample, Inv, TypeOK, Events
  <2>2. QED
    BY <1>1, <1>10, <2>1 DEF GetNoSample, Inv, Permissions, Credit
<1>11. QED
  BY <1>2, <1>3, <1>4, <1>5, <1>6, <1>7, <1>8, <1>9, <1>10 DEF Next

-----------------------------------------------------------------------------
(* Pairing *)

LEMMA PairingStep ==
  ASSUME Inv, [Next]_vars
  PROVE  Pairing'
<1>1. /\ submitted \in Nat /\ skipped \in Nat
      /\ Len(meta) \in Nat /\ Len(ready) \in Nat /\ Len(inside) \in Nat /\ Len(queue) \in Nat
      /\ \A i \in 1 .. Len(meta) : meta[i] \in Nat
      /\ \A i \in 1 .. Len(ready) : ready[i] \in Nat
      /\ \A i \in 1 .. Len(inside) : inside[i] \in Nat
      /\ \A i \in 1 .. Len(queue) : queue[i].frame \in Nat /\ queue[i].pts \in Nat
  <2>1. \A i \in 1 .. Len(queue) : queue[i] \in [frame : 1 .. submitted, pts : 0 .. submitted]
    BY ElementOfSeq DEF Inv, TypeOK
  <2>2. /\ \A i \in 1 .. Len(meta) : meta[i] \in 1 .. submitted
        /\ \A i \in 1 .. Len(ready) : ready[i] \in 1 .. submitted
        /\ \A i \in 1 .. Len(inside) : inside[i] \in 1 .. submitted
    BY ElementOfSeq DEF Inv, TypeOK
  <2>3. /\ submitted \in Nat /\ skipped \in Nat
        /\ Len(meta) \in Nat /\ Len(ready) \in Nat /\ Len(inside) \in Nat /\ Len(queue) \in Nat
    BY Sequences DEF Inv
  <2>4. QED
    BY <2>1, <2>2, <2>3
<1>2. CASE GetHaveOutput
  <2>1. /\ ready # <<>> /\ meta # <<>>
        /\ queue' = Append(queue, Packet) /\ meta' = Tail(meta) /\ ready' = Tail(ready)
        /\ UNCHANGED <<submitted, inside, skipped>>
    BY <1>2, OutputIsThere DEF GetHaveOutput, Collect
  <2>2. /\ Len(meta') = Len(meta) - 1 /\ Len(ready') = Len(ready) - 1
        /\ \A i \in 1 .. Len(meta') : meta'[i] = meta[i + 1]
        /\ \A i \in 1 .. Len(ready') : ready'[i] = ready[i + 1]
        /\ Head(meta) = meta[1] /\ Head(ready) = ready[1]
    BY <2>1, HeadTailProperties DEF Inv, TypeOK
  <2>3. Len(meta) > 0 /\ Len(ready) > 0
    BY <1>1, <2>1, SMTT(30) DEF Inv, TypeOK
  <2>4. Base \in Int /\ Base' = Base + 1
    BY <1>1, <2>1, <2>2 DEF Base
  <2>5. Packet.frame = ready[1] /\ Packet.pts = meta[1]
    BY <2>1, <2>2 DEF Packet
  <2>6. Packet.frame - Packet.pts \in 0 .. skipped
    <3>1. meta[1] = Base + 1 /\ ready[1] - (Base + 1) \in 0 .. skipped
      BY <2>3, <1>1 DEF Inv, Pairing
    <3>2. QED
      BY <2>5, <3>1
  <2>7. \A i \in 1 .. Len(queue') : queue'[i].frame - queue'[i].pts \in 0 .. skipped
    <3>1. /\ Len(queue') = Len(queue) + 1 /\ queue'[Len(queue) + 1] = Packet
          /\ \A i \in 1 .. Len(queue) : queue'[i] = queue[i]
      BY <2>1 DEF Inv, TypeOK
    <3>2. \A i \in 1 .. Len(queue') : i \in 1 .. Len(queue) \/ i = Len(queue) + 1
      BY <1>1, <3>1
    <3>3. QED
      BY <2>6, <3>1, <3>2 DEF Inv, Pairing
  <2>8. \A i \in 1 .. Len(meta') : meta'[i] = Base' + i
    BY <1>1, <2>2, <2>4 DEF Inv, Pairing
  <2>9. \A i \in 1 .. Len(ready') : ready'[i] - (Base' + i) \in 0 .. skipped
    <3>1. \A i \in 1 .. Len(ready') : i + 1 \in 1 .. Len(ready) /\ Base' + i = Base + (i + 1)
      BY <1>1, <2>2, <2>4
    <3>2. QED
      BY <1>1, <2>2, <3>1 DEF Inv, Pairing
  <2>10. \A i \in 1 .. Len(inside) : inside[i] - (Base' + Len(ready') + i) \in 0 .. skipped
    <3>1. \A i \in 1 .. Len(inside) : Base' + Len(ready') + i = Base + Len(ready) + i
      BY <1>1, <2>2, <2>4
    <3>2. QED
      BY <3>1 DEF Inv, Pairing
  <2>11. Len(meta') = Len(ready') + Len(inside') + skipped'
    BY <1>1, <2>1, <2>2 DEF Inv, Pairing
  <2>12. QED
    BY <2>1, <2>7, <2>8, <2>9, <2>10, <2>11 DEF Pairing
<1>3. CASE ProcessInput
  <2>1. /\ Len(meta') = Len(meta) + 1 /\ Len(inside') = Len(inside) + 1
        /\ \A i \in 1 .. Len(meta) : meta'[i] = meta[i]
        /\ \A i \in 1 .. Len(inside) : inside'[i] = inside[i]
        /\ meta'[Len(meta) + 1] = submitted + 1 /\ inside'[Len(inside) + 1] = submitted + 1
    BY <1>3 DEF ProcessInput, Inv, TypeOK
  <2>2. Base \in Int /\ Base' = Base /\ Base = submitted - Len(meta)
    BY <1>1, <1>3, <2>1 DEF ProcessInput, Base
  <2>3. submitted + 1 - (Base + Len(ready) + (Len(inside) + 1)) = skipped
    BY <1>1, <2>2 DEF Inv, Pairing
  <2>4. \A i \in 1 .. Len(inside') : inside'[i] - (Base + Len(ready) + i) \in 0 .. skipped
    <3>1. \A i \in 1 .. Len(inside') : i \in 1 .. Len(inside) \/ i = Len(inside) + 1
      BY <1>1, <2>1
    <3>2. skipped \in 0 .. skipped
      BY <1>1
    <3>3. inside'[Len(inside) + 1] - (Base + Len(ready) + (Len(inside) + 1)) \in 0 .. skipped
      <4> DEFINE j == Len(inside) + 1
                 b == Base + Len(ready) + j
      <4>1. inside'[j] = submitted + 1
        BY <2>1
      <4>2. submitted + 1 - b = skipped /\ b \in Int
        BY <1>1, <2>2, <2>3
      <4> HIDE DEF j, b
      <4>3. inside'[j] - b \in 0 .. skipped
        BY <1>1, <3>2, <4>1, <4>2
      <4>4. QED
        BY <4>3 DEF j, b
    <3>4. \A i \in 1 .. Len(inside) : inside'[i] - (Base + Len(ready) + i) \in 0 .. skipped
      BY <2>1 DEF Inv, Pairing
    <3>5. QED
      BY <3>1, <3>3, <3>4
  <2>5. \A i \in 1 .. Len(meta') : meta'[i] = Base + i
    <3>1. \A i \in 1 .. Len(meta') : i \in 1 .. Len(meta) \/ i = Len(meta) + 1
      BY <1>1, <2>1
    <3>2. Base + (Len(meta) + 1) = submitted + 1
      BY <1>1, <2>2
    <3>3. QED
      BY <2>1, <3>1, <3>2 DEF Inv, Pairing
  <2>6. Len(meta') = Len(ready) + Len(inside') + skipped
    BY <1>1, <2>1 DEF Inv, Pairing
  <2>7. UNCHANGED <<ready, queue, skipped>>
    BY <1>3 DEF ProcessInput
  <2>8. QED
    BY <2>2, <2>4, <2>5, <2>6, <2>7 DEF Inv, Pairing
<1>4. CASE MftEncodes
  <2>1. /\ Len(ready') = Len(ready) + 1 /\ Len(inside') = Len(inside) - 1 /\ Len(inside) > 0
        /\ \A i \in 1 .. Len(ready) : ready'[i] = ready[i]
        /\ ready'[Len(ready) + 1] = inside[1]
        /\ \A i \in 1 .. Len(inside') : inside'[i] = inside[i + 1]
    BY <1>4 DEF MftEncodes, Inv, TypeOK
  <2>2. Base \in Int /\ Base' = Base
    BY <1>1, <1>4 DEF MftEncodes, Base, sessionVars
  <2>3. inside[1] - (Base + (Len(ready) + 1)) \in 0 .. skipped
    BY <1>1, <2>1, <2>2 DEF Inv, Pairing
  <2>4. \A i \in 1 .. Len(ready') : ready'[i] - (Base + i) \in 0 .. skipped
    <3>1. \A i \in 1 .. Len(ready') : i \in 1 .. Len(ready) \/ i = Len(ready) + 1
      BY <1>1, <2>1
    <3>2. QED
      BY <2>1, <2>3, <3>1 DEF Inv, Pairing
  <2>5. \A i \in 1 .. Len(inside') : inside'[i] - (Base + Len(ready') + i) \in 0 .. skipped
    <3>1. \A i \in 1 .. Len(inside') : /\ i + 1 \in 1 .. Len(inside)
                                      /\ Base + Len(ready') + i = Base + Len(ready) + (i + 1)
      BY <1>1, <2>1, <2>2
    <3>2. QED
      BY <2>1, <3>1 DEF Inv, Pairing
  <2>6. Len(meta) = Len(ready') + Len(inside') + skipped
    BY <1>1, <2>1 DEF Inv, Pairing
  <2>7. UNCHANGED <<meta, queue, skipped>>
    BY <1>4 DEF MftEncodes, sessionVars
  <2>8. QED
    BY <2>2, <2>4, <2>5, <2>6, <2>7 DEF Inv, Pairing
<1>5. CASE MftSkips
  <2>1. /\ skipped' = skipped + 1 /\ Len(inside') = Len(inside) - 1 /\ Len(inside) > 0
        /\ \A i \in 1 .. Len(inside') : inside'[i] = inside[i + 1]
        /\ UNCHANGED <<meta, ready, queue, submitted>>
    BY <1>5 DEF MftSkips, Inv, TypeOK, sessionVars
  <2>2. Base \in Int /\ Base' = Base
    BY <1>1, <2>1 DEF Base
  <2>3. 0 .. skipped \subseteq 0 .. skipped'
    BY <1>1, <2>1
  <2>4. \A i \in 1 .. Len(inside') : inside'[i] - (Base + Len(ready) + i) \in 0 .. skipped'
    <3> SUFFICES ASSUME NEW i \in 1 .. Len(inside')
                 PROVE  inside'[i] - (Base + Len(ready) + i) \in 0 .. skipped'
      OBVIOUS
    <3>1. i + 1 \in 1 .. Len(inside) /\ inside[i + 1] \in Nat
      BY <1>1, <2>1
    <3>2. inside[i + 1] - (Base + Len(ready) + (i + 1)) \in 0 .. skipped
      BY <3>1 DEF Inv, Pairing
    <3>3. QED
      BY <1>1, <2>1, <2>2, <3>1, <3>2, SMTT(30)
  <2>5. Len(meta) = Len(ready) + Len(inside') + skipped'
    BY <1>1, <2>1 DEF Inv, Pairing
  <2>6. /\ \A i \in 1 .. Len(ready) : ready[i] - (Base + i) \in 0 .. skipped'
        /\ \A i \in 1 .. Len(queue) : queue[i].frame - queue[i].pts \in 0 .. skipped'
    BY <2>3 DEF Inv, Pairing
  <2>7. QED
    BY <2>1, <2>2, <2>4, <2>5, <2>6 DEF Inv, Pairing
<1>6. CASE HandOut
  <2>1. /\ Len(queue') = Len(queue) - 1 /\ \A i \in 1 .. Len(queue') : queue'[i] = queue[i + 1]
        /\ UNCHANGED <<meta, ready, inside, submitted, skipped>>
    BY <1>6, HeadTailProperties DEF HandOut, Inv, TypeOK, mftVars
  <2>2. \A i \in 1 .. Len(queue') : i + 1 \in 1 .. Len(queue)
    BY <1>1, <2>1
  <2>3. \A i \in 1 .. Len(queue') : queue'[i].frame - queue'[i].pts \in 0 .. skipped
    BY <2>1, <2>2 DEF Inv, Pairing
  <2>4. Base' = Base
    BY <2>1 DEF Base
  <2>5. QED
    BY <2>1, <2>3, <2>4 DEF Inv, Pairing
<1>7. CASE GetNoSample
  <2>1. /\ ready # <<>> /\ ready' = Tail(ready) /\ skipped' = skipped + 1
        /\ UNCHANGED <<meta, queue, submitted, inside>>
    BY <1>7, OutputIsThere DEF GetNoSample
  <2>2. Len(ready') = Len(ready) - 1 /\ \A i \in 1 .. Len(ready') : ready'[i] = ready[i + 1]
    BY <2>1, HeadTailProperties DEF Inv, TypeOK
  <2>3. Base \in Int /\ Base' = Base
    BY <1>1, <2>1 DEF Base
  <2>4. 0 .. skipped \subseteq 0 .. skipped'
    BY <1>1, <2>1
  <2>5. \A i \in 1 .. Len(ready') : ready'[i] - (Base + i) \in 0 .. skipped'
    <3> SUFFICES ASSUME NEW i \in 1 .. Len(ready')
                 PROVE  ready'[i] - (Base + i) \in 0 .. skipped'
      OBVIOUS
    <3>1. i + 1 \in 1 .. Len(ready) /\ ready[i + 1] \in Nat /\ ready'[i] = ready[i + 1]
      BY <1>1, <2>2
    <3>2. ready[i + 1] - (Base + (i + 1)) \in 0 .. skipped
      BY <3>1 DEF Inv, Pairing
    <3>3. QED
      BY <1>1, <2>1, <2>3, <3>1, <3>2, SMTT(30)
  <2>6. \A i \in 1 .. Len(inside) : inside[i] - (Base + Len(ready') + i) \in 0 .. skipped'
    <3> SUFFICES ASSUME NEW i \in 1 .. Len(inside)
                 PROVE  inside[i] - (Base + Len(ready') + i) \in 0 .. skipped'
      OBVIOUS
    <3>1. inside[i] \in Nat /\ inside[i] - (Base + Len(ready) + i) \in 0 .. skipped
      BY <1>1 DEF Inv, Pairing
    <3>2. QED
      BY <1>1, <2>1, <2>2, <2>3, <3>1, SMTT(30)
  <2>7. Len(meta) = Len(ready') + Len(inside) + skipped'
    BY <1>1, <2>1, <2>2 DEF Inv, Pairing
  <2>8. \A i \in 1 .. Len(queue) : queue[i].frame - queue[i].pts \in 0 .. skipped'
    BY <2>4 DEF Inv, Pairing
  <2>9. QED
    BY <2>1, <2>3, <2>5, <2>6, <2>7, <2>8 DEF Inv, Pairing
<1>8. CASE UNCHANGED <<meta, ready, inside, queue, submitted, skipped>>
  BY <1>8 DEF Inv, Pairing, Base
<1>9. QED
  BY <1>2, <1>3, <1>4, <1>5, <1>6, <1>7, <1>8
     DEF Next, New, BeginSubmit, GetNeedInput, DropNeedInput, CallFails, TryPacketNone,
         DropSession, MftAsks, vars, sessionVars, mftVars

-----------------------------------------------------------------------------
(* The theorems. *)

LEMMA Invariance == Spec => []Inv
<1>1. Inv /\ [Next]_vars => Inv'
  BY TypeStep, PermissionsStep, PairingStep DEF Inv
<1>2. QED
  BY <1>1, InitInv, PTL DEF Spec

\* The session never uses a permission the MFT did not give: what is counted as
\* unspent stays within the window of the MFT (have_need_input_credit).
THEOREM TypeCorrect == Spec => []TypeOK
<1>1. Inv => TypeOK
  BY DEF Inv
<1>2. QED
  BY <1>1, Invariance, PTL

\* collect_output_packet pairs by position: exact without skipped frames, and
\* off by at most the number of skipped frames with them.
THEOREM PairingHolds == Spec => []MetaFollowsFrames
<1>1. ASSUME Inv PROVE MetaFollowsFrames
  <2>1. /\ submitted \in Nat /\ skipped \in Nat /\ DOMAIN queue = 1 .. Len(queue)
        /\ Len(meta) \in Nat /\ Len(ready) \in Nat /\ Len(inside) \in Nat
        /\ meta \in Seq(1 .. submitted) /\ ready \in Seq(1 .. submitted)
        /\ inside \in Seq(1 .. submitted)
    BY <1>1, Sequences DEF Inv, TypeOK
  <2>2. ASSUME skipped = 0 PROVE meta = ready \o inside
    <3>1. /\ ready \o inside \in Seq(1 .. submitted)
          /\ Len(ready \o inside) = Len(meta)
          /\ \A i \in 1 .. Len(meta) :
               (ready \o inside)[i] = IF i <= Len(ready) THEN ready[i] ELSE inside[i - Len(ready)]
      BY <1>1, <2>1, <2>2, ConcatProperties DEF Inv, Pairing
    <3>2. \A i \in 1 .. Len(meta) : (ready \o inside)[i] = meta[i]
      <4> SUFFICES ASSUME NEW i \in 1 .. Len(meta) PROVE (ready \o inside)[i] = meta[i]
        OBVIOUS
      <4>1. Base \in Int /\ meta[i] = Base + i
        BY <1>1, <2>1 DEF Inv, Pairing, Base
      <4>2. CASE i <= Len(ready)
        <5>1. i \in 1 .. Len(ready) /\ ready[i] \in Nat
          BY <2>1, <4>2
        <5>2. ready[i] - (Base + i) = 0
          BY <1>1, <2>2, <5>1 DEF Inv, Pairing
        <5>3. QED
          BY <2>1, <3>1, <4>1, <4>2, <5>1, <5>2, SMTT(30)
      <4>3. CASE i > Len(ready)
        <5> DEFINE k == i - Len(ready)
        <5>1. k \in 1 .. Len(inside) /\ inside[k] \in Nat
          BY <1>1, <2>1, <2>2, <4>3 DEF Inv, Pairing
        <5>2. inside[k] - (Base + Len(ready) + k) = 0
          BY <1>1, <2>2, <5>1 DEF Inv, Pairing
        <5>3. (ready \o inside)[i] = inside[k] /\ inside[k] = Base + i
          <6>1. (ready \o inside)[i] = inside[k]
            BY <2>1, <3>1, <4>3
          <6>2. Base + Len(ready) + k = Base + i
            BY <2>1, <4>1
          <6> HIDE DEF k
          <6>3. inside[k] = Base + i
            BY <4>1, <5>1, <5>2, <6>2
          <6>4. QED
            BY <6>1, <6>3
        <5>4. QED
          BY <4>1, <5>3
      <4>4. i <= Len(ready) \/ i > Len(ready)
        BY <2>1
      <4>5. QED
        BY <4>2, <4>3, <4>4
    <3>3. QED
      BY <2>1, <3>1, <3>2, SeqEqual
  <2>3. QED
    BY <1>1, <2>1, <2>2 DEF Inv, Pairing, MetaFollowsFrames
<1>2. QED
  BY <1>1, Invariance, PTL

-----------------------------------------------------------------------------
(* The refinement. *)

Stamps(q) == [i \in DOMAIN q |-> q[i].pts]
PendingOf(q, m) == Stamps(q) \o m
Pending == PendingOf(queue, meta)

LEMMA StampsType ==
  ASSUME NEW n \in Nat, NEW q \in Seq([frame : 1 .. n, pts : 0 .. n])
  PROVE  /\ Stamps(q) \in Seq(Nat) /\ Len(Stamps(q)) = Len(q)
         /\ \A i \in 1 .. Len(q) : Stamps(q)[i] = q[i].pts
<1>1. /\ Len(q) \in Nat /\ DOMAIN q = 1 .. Len(q)
      /\ \A i \in 1 .. Len(q) : q[i] \in [frame : 1 .. n, pts : 0 .. n]
  BY ElementOfSeq, LenProperties
<1>2. \A i \in 1 .. Len(q) : q[i].pts \in Nat
  BY <1>1
<1>3. Stamps(q) \in [1 .. Len(q) -> Nat]
  BY <1>1, <1>2 DEF Stamps
<1>4. QED
  BY <1>1, <1>3 DEF Stamps

\* The elements of a pending sequence by position.
LEMMA PendingElements ==
  ASSUME NEW n \in Nat, NEW q \in Seq([frame : 1 .. n, pts : 0 .. n]), NEW m \in Seq(1 .. n)
  PROVE  /\ PendingOf(q, m) \in Seq(Nat) /\ Len(PendingOf(q, m)) = Len(q) + Len(m)
         /\ Len(q) \in Nat /\ Len(m) \in Nat
         /\ \A i \in 1 .. Len(q) : PendingOf(q, m)[i] = q[i].pts
         /\ \A i \in 1 .. Len(m) : PendingOf(q, m)[Len(q) + i] = m[i]
<1> DEFINE s == Stamps(q)
           p == PendingOf(q, m)
<1>1. s \in Seq(Nat) /\ Len(s) = Len(q) /\ \A i \in 1 .. Len(q) : s[i] = q[i].pts
  BY StampsType
<1>2. m \in Seq(Nat) /\ Len(q) \in Nat /\ Len(m) \in Nat
  <2>1. 1 .. n \subseteq Nat
    OBVIOUS
  <2>2. QED
    BY <2>1, SeqMonotonic
<1>3. p = s \o m
  BY DEF PendingOf
<1> HIDE DEF s, p
<1>4. /\ p \in Seq(Nat) /\ Len(p) = Len(s) + Len(m)
      /\ \A i \in 1 .. Len(s) + Len(m) : p[i] = IF i <= Len(s) THEN s[i] ELSE m[i - Len(s)]
  BY <1>1, <1>2, <1>3, ConcatProperties, ZenonT(30)
<1>5. \A i \in 1 .. Len(q) : p[i] = q[i].pts
  <2>1. \A i \in 1 .. Len(q) : i \in 1 .. Len(s) + Len(m) /\ i <= Len(s)
    BY <1>1, <1>2
  <2>2. QED
    BY <1>1, <1>4, <2>1
<1>6. \A i \in 1 .. Len(m) : p[Len(q) + i] = m[i]
  <2>1. \A i \in 1 .. Len(m) : /\ Len(q) + i \in 1 .. Len(s) + Len(m)
                             /\ ~(Len(q) + i <= Len(s))
                             /\ (Len(q) + i) - Len(s) = i
    BY <1>1, <1>2
  <2>2. QED
    BY <1>4, <2>1
<1>7. QED
  BY <1>1, <1>2, <1>4, <1>5, <1>6 DEF p

\* Two sequences of stamps that agree on the two parts of Pending are equal.
LEMMA InTwoParts ==
  ASSUME NEW m \in Nat, NEW n \in Nat, NEW s \in Seq(Nat), NEW t \in Seq(Nat),
         Len(s) = m + n, Len(t) = m + n,
         \A i \in 1 .. m : s[i] = t[i],
         \A i \in 1 .. n : s[m + i] = t[m + i]
  PROVE  s = t
<1>1. \A i \in 1 .. m + n : i \in 1 .. m \/ (i - m \in 1 .. n /\ m + (i - m) = i)
  OBVIOUS
<1>2. \A i \in 1 .. Len(s) : s[i] = t[i]
  BY <1>1
<1>3. QED
  BY <1>2, SeqEqual

\* A step of the session is a step of the contract or leaves it alone.
LEMMA RefinementStep ==
  ASSUME Inv, Inv', [Next]_vars
  PROVE  \/ submitted' = submitted + 1 /\ Pending' = Append(Pending, submitted + 1)
         \/ Pending # <<>> /\ Pending' = Tail(Pending) /\ UNCHANGED submitted
         \/ UNCHANGED <<submitted, Pending>>
<1> DEFINE p == Pending
           pp == Pending'
<1>1. TypeOK /\ TypeOK' /\ submitted \in Nat /\ submitted' \in Nat
  BY EncoderAssumption DEF Inv, TypeOK
<1>2. /\ p \in Seq(Nat) /\ Len(p) = Len(queue) + Len(meta)
      /\ Len(queue) \in Nat /\ Len(meta) \in Nat
      /\ \A i \in 1 .. Len(queue) : p[i] = queue[i].pts
      /\ \A i \in 1 .. Len(meta) : p[Len(queue) + i] = meta[i]
  BY <1>1, PendingElements, ZenonT(30) DEF Pending, TypeOK
<1>3. /\ pp \in Seq(Nat) /\ Len(pp) = Len(queue') + Len(meta')
      /\ \A i \in 1 .. Len(queue') : pp[i] = queue'[i].pts
      /\ \A i \in 1 .. Len(meta') : pp[Len(queue') + i] = meta'[i]
  <2>1. /\ queue' \in Seq([frame : 1 .. submitted', pts : 0 .. submitted'])
        /\ meta' \in Seq(1 .. submitted')
    BY <1>1 DEF TypeOK
  <2>2. pp = PendingOf(queue', meta')
    BY DEF Pending
  <2> HIDE DEF pp
  <2>3. QED
    BY <1>1, <2>1, <2>2, PendingElements
<1>4. CASE ProcessInput
  <2> DEFINE a == Append(p, submitted + 1)
  <2>1. /\ submitted' = submitted + 1 /\ queue' = queue
        /\ Len(meta') = Len(meta) + 1 /\ meta'[Len(meta) + 1] = submitted + 1
        /\ \A i \in 1 .. Len(meta) : meta'[i] = meta[i]
    BY <1>4 DEF ProcessInput, Inv, TypeOK
  <2> HIDE DEF p, pp
  <2>2. /\ a \in Seq(Nat) /\ Len(a) = Len(queue) + (Len(meta) + 1)
        /\ \A i \in 1 .. Len(p) : a[i] = p[i]
        /\ a[Len(p) + 1] = submitted + 1
    BY <1>1, <1>2
  <2> HIDE DEF a
  <2>3. \A i \in 1 .. Len(queue) : a[i] = pp[i]
    <3>1. \A i \in 1 .. Len(queue) : i \in 1 .. Len(p)
      BY <1>2
    <3>2. QED
      BY <1>2, <1>3, <2>1, <2>2, <3>1
  <2>4. \A i \in 1 .. Len(meta) + 1 : a[Len(queue) + i] = pp[Len(queue) + i]
    <3> SUFFICES ASSUME NEW i \in 1 .. Len(meta) + 1
                 PROVE  a[Len(queue) + i] = pp[Len(queue) + i]
      OBVIOUS
    <3>1. pp[Len(queue) + i] = meta'[i]
      BY <1>3, <2>1
    <3>2. CASE i \in 1 .. Len(meta)
      <4>1. Len(queue) + i \in 1 .. Len(p)
        BY <1>2, <3>2
      <4>2. QED
        BY <1>2, <2>1, <2>2, <3>1, <3>2, <4>1
    <3>3. CASE i = Len(meta) + 1
      <4>1. Len(queue) + i = Len(p) + 1
        BY <1>2, <3>3
      <4>2. QED
        BY <2>1, <2>2, <3>1, <3>3, <4>1
    <3>4. QED
      BY <1>2, <3>2, <3>3
  <2>5. Len(pp) = Len(queue) + (Len(meta) + 1) /\ Len(meta) + 1 \in Nat
    BY <1>2, <1>3, <2>1
  <2>6. a = pp
    BY <1>2, <1>3, <2>2, <2>3, <2>4, <2>5, InTwoParts, ZenonT(30)
  <2>7. QED
    BY <2>1, <2>6 DEF p, pp, a
<1>5. CASE GetHaveOutput
  <2>1. /\ meta # <<>> /\ ready # <<>> /\ submitted' = submitted
        /\ queue' = Append(queue, Packet) /\ meta' = Tail(meta)
    BY <1>5, OutputIsThere DEF GetHaveOutput, Collect
  <2>2. /\ Len(meta) \in Nat \ {0} /\ Len(meta') = Len(meta) - 1 /\ Packet.pts = meta[1]
        /\ \A i \in 1 .. Len(meta') : meta'[i] = meta[i + 1]
    BY <2>1 DEF Inv, TypeOK, Packet
  <2>3. /\ Len(queue') = Len(queue) + 1 /\ queue'[Len(queue) + 1] = Packet
        /\ \A i \in 1 .. Len(queue) : queue'[i] = queue[i]
    BY <2>1 DEF Inv, TypeOK
  <2> HIDE DEF p, pp
  <2>4. \A i \in 1 .. Len(queue) : p[i] = pp[i]
    <3>1. \A i \in 1 .. Len(queue) : i \in 1 .. Len(queue')
      BY <1>2, <2>3
    <3>2. QED
      BY <1>2, <1>3, <2>3, <3>1
  <2>5. \A i \in 1 .. Len(meta) : p[Len(queue) + i] = pp[Len(queue) + i]
    <3> SUFFICES ASSUME NEW i \in 1 .. Len(meta)
                 PROVE  pp[Len(queue) + i] = meta[i]
      BY <1>2
    <3>1. CASE i = 1
      <4>1. Len(queue) + i = Len(queue) + 1 /\ Len(queue) + 1 \in 1 .. Len(queue')
        BY <1>2, <2>3, <3>1
      <4>2. QED
        BY <1>3, <2>2, <2>3, <3>1, <4>1
    <3>2. CASE i # 1
      <4> DEFINE k == i - 1
      <4>1. k \in 1 .. Len(meta') /\ k + 1 = i /\ Len(queue') + k = Len(queue) + i
        BY <1>2, <2>2, <2>3, <3>2
      <4>2. meta'[k] = meta[i] /\ pp[Len(queue') + k] = meta'[k]
        BY <1>3, <2>2, <4>1
      <4>3. QED
        BY <4>1, <4>2
    <3>3. QED
      BY <3>1, <3>2
  <2>6. Len(pp) = Len(queue) + Len(meta)
    BY <1>2, <1>3, <2>2, <2>3
  <2>7. p = pp
    BY <1>2, <1>3, <2>4, <2>5, <2>6, InTwoParts
  <2>8. QED
    BY <2>1, <2>7 DEF p, pp
<1>6. CASE HandOut
  <2>1. /\ queue # <<>> /\ UNCHANGED <<submitted, meta>> /\ queue' = Tail(queue)
    BY <1>6 DEF HandOut
  <2>2. /\ Len(queue) \in Nat \ {0} /\ Len(queue') = Len(queue) - 1
        /\ \A i \in 1 .. Len(queue') : queue'[i] = queue[i + 1]
    BY <2>1, HeadTailProperties DEF Inv, TypeOK
  <2> HIDE DEF p, pp
  <2> DEFINE r == Tail(p)
  <2>3. p # <<>> /\ Len(p) > 0
    BY <1>2, <2>2
  <2>4. r \in Seq(Nat) /\ Len(r) = Len(p) - 1 /\ \A i \in 1 .. Len(r) : r[i] = p[i + 1]
    BY <1>2, <2>3, HeadTailProperties
  <2> HIDE DEF r
  <2>5. \A i \in 1 .. Len(queue') : r[i] = pp[i]
    <3>1. \A i \in 1 .. Len(queue') : i \in 1 .. Len(r) /\ i + 1 \in 1 .. Len(queue)
      BY <1>2, <2>2, <2>4
    <3>2. QED
      BY <1>2, <1>3, <2>2, <2>4, <3>1, ZenonT(30)
  <2>6. \A i \in 1 .. Len(meta) : r[Len(queue') + i] = pp[Len(queue') + i]
    <3>1. \A i \in 1 .. Len(meta) : /\ Len(queue') + i \in 1 .. Len(r)
                                  /\ (Len(queue') + i) + 1 = Len(queue) + i
      BY <1>2, <2>2, <2>4
    <3>2. QED
      BY <1>2, <1>3, <2>1, <2>4, <3>1, ZenonT(30)
  <2>7. Len(queue') \in Nat /\ Len(r) = Len(queue') + Len(meta) /\ Len(pp) = Len(queue') + Len(meta)
    BY <1>2, <1>3, <2>1, <2>2, <2>4
  <2>8. r = pp
    BY <1>2, <1>3, <2>4, <2>5, <2>6, <2>7, InTwoParts
  <2>9. QED
    BY <2>1, <2>3, <2>8 DEF p, pp, r
<1>7. CASE UNCHANGED <<meta, queue, submitted>>
  BY <1>7 DEF Pending
<1>8. QED
  BY <1>4, <1>5, <1>6, <1>7
     DEF Next, New, BeginSubmit, GetNeedInput, DropNeedInput, CallFails, TryPacketNone,
         DropSession, GetNoSample, MftAsks, MftEncodes, MftSkips, vars, sessionVars, mftVars

\* The session implements the contract the pipeline relies on (EncodeSession):
\* every packet carries the oldest time stamp not carried before, whatever the
\* MFT skips and whichever events the session throws away.
THEOREM Refinement == Spec => ImplementsContract
<1>1. Contract!Init <=> submitted = 0 /\ Pending = <<>>
  BY DEF Contract!Init, Pending, PendingOf, Stamps
<1>2. Contract!Next <=>
        (\/ submitted' = submitted + 1 /\ Pending' = Append(Pending, submitted + 1)
         \/ Pending # <<>> /\ Pending' = Tail(Pending) /\ UNCHANGED submitted)
  BY DEF Contract!Next, Contract!SubmitFrame, Contract!HandOut, Pending, PendingOf, Stamps
<1>3. Init => Contract!Init
  <2> SUFFICES ASSUME Init PROVE submitted = 0 /\ Pending = <<>>
    BY <1>1
  <2>1. queue = <<>> /\ meta = <<>> /\ submitted = 0
    BY DEF Init
  <2>2. Stamps(<<>>) = <<>>
    BY DEF Stamps
  <2>3. QED
    BY <2>1, <2>2 DEF Pending, PendingOf
<1>4. Inv /\ Inv' /\ [Next]_vars => [Contract!Next]_(Contract!contractVars)
  <2> SUFFICES ASSUME Inv, Inv', [Next]_vars
               PROVE  Contract!Next \/ UNCHANGED Contract!contractVars
    OBVIOUS
  <2>1. UNCHANGED <<submitted, Pending>> => UNCHANGED Contract!contractVars
    BY DEF Contract!contractVars, Pending, PendingOf, Stamps
  <2>2. QED
    BY <1>2, <2>1, RefinementStep
<1>5. QED
  BY <1>3, <1>4, Invariance, PTL DEF Spec, ImplementsContract, Contract!Spec
=============================================================================
